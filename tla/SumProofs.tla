------------------------------ MODULE SumProofs ------------------------------
(***************************************************************************)
(* Facts about SumFunction and SumFunctionOnSet of the community modules,  *)
(* for every finite set of indices.  They are proved by taking, among the  *)
(* sets of indices a fact fails for, one that has no smaller such subset.  *)
(***************************************************************************)
EXTENDS Integers, Functions, FiniteSetTheorems, TLAPS

\* The index that a sum takes first.
First(s) == CHOOSE x \in s : TRUE

\* iter is the recursive function that SumFunctionOnSet(fun, S) evaluates.
Sums(fun, S, iter) ==
    iter = [s \in SUBSET S |->
              IF s = {} THEN 0 ELSE fun[First(s)] + iter[s \ {First(s)}]]

\* Induction on finite sets: a set of subsets of a finite set, if not empty,
\* has a member none of whose proper subsets is a member.
LEMMA MinimalSubset ==
    ASSUME NEW S, IsFiniteSet(S), NEW T \in SUBSET (SUBSET S), T # {}
    PROVE  \E m \in T : \A s \in SUBSET m : s # m => s \notin T
<1>1. IsWellFoundedOn(StrictSubsetOrdering(S), SUBSET S)
  BY FS_StrictSubsetOrderingWellFounded, FS_FiniteSubsetsOfFinite
<1>2. PICK m \in T : \A s \in T : <<s, m>> \notin StrictSubsetOrdering(S)
  BY <1>1, WFMin
<1>3. ASSUME NEW s \in SUBSET m, s # m PROVE s \notin T
  BY <1>2, <1>3 DEF StrictSubsetOrdering
<1>4. QED
  BY <1>3

LEMMA FirstIsElement ==
    ASSUME NEW s, s # {}
    PROVE  /\ First(s) \in s
           /\ s \ {First(s)} \subseteq s
           /\ s \ {First(s)} # s
BY DEF First

\* Two evaluations of a sum agree on the indices they share.
LEMMA SumsAgree ==
    ASSUME NEW fun, NEW S, IsFiniteSet(S), NEW T, NEW f, NEW g,
           Sums(fun, S, f), Sums(fun, T, g)
    PROVE  \A s \in SUBSET S : s \subseteq T => f[s] = g[s]
<1> DEFINE Bad == {s \in SUBSET S : s \subseteq T /\ f[s] # g[s]}
<1> SUFFICES ASSUME Bad # {} PROVE FALSE
  OBVIOUS
<1>0. Bad \in SUBSET (SUBSET S)
  OBVIOUS
<1> HIDE DEF Bad
<1>1. PICK m \in Bad : \A s \in SUBSET m : s # m => s \notin Bad
  BY <1>0, MinimalSubset
<1> USE DEF Bad
<1>2. CASE m = {}
  BY <1>2 DEF Sums
<1>3. CASE m # {}
  <2> DEFINE r == m \ {First(m)}
  <2>1. r \subseteq m /\ r # m
    BY <1>3, FirstIsElement
  <2>2. f[r] = g[r]
    BY <1>1, <2>1
  <2>3. f[m] = fun[First(m)] + f[r] /\ g[m] = fun[First(m)] + g[r]
    BY <1>3 DEF Sums
  <2>4. QED
    BY <2>2, <2>3
<1>4. QED
  BY <1>2, <1>3

\* The recursion of a sum over a finite set is well defined.
LEMMA SumsExist ==
    ASSUME NEW fun, NEW S, IsFiniteSet(S)
    PROVE  \E iter : Sums(fun, S, iter)
<1> DEFINE Bad == {s \in SUBSET S : ~\E iter : Sums(fun, s, iter)}
<1> SUFFICES ASSUME Bad # {} PROVE FALSE
  OBVIOUS
<1>0. Bad \in SUBSET (SUBSET S)
  OBVIOUS
<1> HIDE DEF Bad
<1>1. PICK m \in Bad : \A s \in SUBSET m : s # m => s \notin Bad
  BY <1>0, MinimalSubset
<1> USE DEF Bad
<1> DEFINE It(s) == CHOOSE iter : Sums(fun, s, iter)
           iter  == [s \in SUBSET m |->
                       IF s = {} THEN 0
                       ELSE fun[First(s)]
                              + It(s \ {First(s)})[s \ {First(s)}]]
<1>2. ASSUME NEW s \in SUBSET m, s # m PROVE Sums(fun, s, It(s))
  BY <1>1, <1>2
<1>3. ASSUME NEW s \in SUBSET m, s # m PROVE iter[s] = It(s)[s]
  <2>1. Sums(fun, s, It(s))
    BY <1>2, <1>3
  <2>2. CASE s = {}
    BY <2>1, <2>2 DEF Sums
  <2>3. CASE s # {}
    <3> DEFINE r == s \ {First(s)}
    <3>1. r \subseteq s /\ r \in SUBSET m /\ r # m
      BY <1>3, <2>3, FirstIsElement
    <3>2. Sums(fun, r, It(r)) /\ IsFiniteSet(r)
      BY <1>2, <3>1, FS_Subset
    <3> HIDE DEF It
    <3>3. It(r)[r] = It(s)[r]
      BY <2>1, <3>1, <3>2, SumsAgree
    <3>4. It(s)[s] = fun[First(s)] + It(s)[r]
      BY <2>1, <2>3 DEF Sums
    <3>5. QED
      BY <2>3, <3>3, <3>4
  <2>4. QED
    BY <2>2, <2>3
<1> HIDE DEF It
<1>4. Sums(fun, m, iter)
  <2>1. ASSUME NEW s \in SUBSET m, s # {}
        PROVE  iter[s \ {First(s)}] = It(s \ {First(s)})[s \ {First(s)}]
    <3>1. s \ {First(s)} \in SUBSET m /\ s \ {First(s)} # m
      BY <2>1, FirstIsElement
    <3>2. QED
      BY <1>3, <3>1
  <2>2. iter = [s \in SUBSET m |->
                  IF s = {} THEN 0 ELSE fun[First(s)] + iter[s \ {First(s)}]]
    BY <2>1
  <2>3. QED
    BY <2>2 DEF Sums
<1>5. QED
  BY <1>1, <1>4

\* The sum over a finite set is the value of that recursion.
LEMMA SumIsIteration ==
    ASSUME NEW fun, NEW S, IsFiniteSet(S)
    PROVE  \E iter : Sums(fun, S, iter)
             /\ \A s \in SUBSET S : SumFunctionOnSet(fun, s) = iter[s]
<1> DEFINE It(s) == CHOOSE iter : Sums(fun, s, iter)
<1>1. \A s : IsFiniteSet(s) => Sums(fun, s, It(s))
  BY SumsExist
<1>2. \A s : SumFunctionOnSet(fun, s) = It(s)[s]
  BY DEF SumFunctionOnSet, FoldFunctionOnSet, MapThenFoldSet, Sums, First
<1> HIDE DEF It
<1>3. ASSUME NEW s \in SUBSET S PROVE It(s)[s] = It(S)[s]
  <2>1. IsFiniteSet(s) /\ s \subseteq S
    BY FS_Subset
  <2>2. QED
    BY <1>1, <2>1, SumsAgree
<1>4. QED
  BY <1>1, <1>2, <1>3

\* A fold that adds the same values to one another is the same sum.
LEMMA SumOfIteration ==
    ASSUME NEW fun, NEW S, IsFiniteSet(S), NEW iter, Sums(fun, S, iter)
    PROVE  iter[S] = SumFunctionOnSet(fun, S)
<1>1. PICK f : /\ Sums(fun, S, f)
               /\ \A s \in SUBSET S : SumFunctionOnSet(fun, s) = f[s]
  BY SumIsIteration
<1>2. \A s \in SUBSET S : s \subseteq S => iter[s] = f[s]
  BY <1>1, SumsAgree
<1>3. QED
  BY <1>1, <1>2

LEMMA SumOfNone == ASSUME NEW fun PROVE SumFunctionOnSet(fun, {}) = 0
<1>1. PICK iter : /\ Sums(fun, {}, iter)
                  /\ \A s \in SUBSET {} : SumFunctionOnSet(fun, s) = iter[s]
  BY SumIsIteration, FS_EmptySet
<1>2. QED
  BY <1>1 DEF Sums

LEMMA SumOfFirst ==
    ASSUME NEW fun, NEW S, IsFiniteSet(S), S # {}
    PROVE  SumFunctionOnSet(fun, S)
             = fun[First(S)] + SumFunctionOnSet(fun, S \ {First(S)})
<1>1. PICK iter : /\ Sums(fun, S, iter)
                  /\ \A s \in SUBSET S : SumFunctionOnSet(fun, s) = iter[s]
  BY SumIsIteration
<1>2. iter[S] = fun[First(S)] + iter[S \ {First(S)}]
  BY <1>1 DEF Sums
<1>3. QED
  BY <1>1, <1>2

\* Every index may be taken first.
LEMMA SumTakesOut ==
    ASSUME NEW S, IsFiniteSet(S), NEW fun, \A i \in S : fun[i] \in Int
    PROVE  /\ SumFunctionOnSet(fun, S) \in Int
           /\ \A x \in S : SumFunctionOnSet(fun, S)
                            = fun[x] + SumFunctionOnSet(fun, S \ {x})
<1> DEFINE Sum(s) == SumFunctionOnSet(fun, s)
           Good(s) == /\ Sum(s) \in Int
                      /\ \A x \in s : Sum(s) = fun[x] + Sum(s \ {x})
           Bad == {s \in SUBSET S : ~Good(s)}
<1> SUFFICES ASSUME Bad # {} PROVE FALSE
  OBVIOUS
<1>0. Bad \in SUBSET (SUBSET S)
  OBVIOUS
<1> HIDE DEF Bad
<1>1. PICK m \in Bad : \A s \in SUBSET m : s # m => s \notin Bad
  BY <1>0, MinimalSubset
<1> USE DEF Bad
<1>2. /\ m \in SUBSET S
      /\ ~Good(m)
      /\ \A s \in SUBSET m : s # m => Good(s)
  BY <1>1
<1>3. m # {}
  <2>1. Good({})
    BY SumOfNone
  <2> HIDE DEF Good
  <2>2. QED
    BY <1>2, <2>1
<1> DEFINE p == First(m)
<1>4. p \in m /\ fun[p] \in Int
  BY <1>2, <1>3, FirstIsElement
<1>5. Sum(m) = fun[p] + Sum(m \ {p})
  BY <1>2, <1>3, FS_Subset, SumOfFirst
<1>6. Good(m \ {p})
  BY <1>2, <1>4
<1>7. ASSUME NEW x \in m, x # p PROVE Sum(m) = fun[x] + Sum(m \ {x})
  <2>1. Sum(m \ {p}) = fun[x] + Sum((m \ {p}) \ {x})
    BY <1>6, <1>7
  <2>2. Good(m \ {x})
    BY <1>2, <1>7
  <2>3. Sum(m \ {x}) = fun[p] + Sum((m \ {x}) \ {p})
    BY <1>4, <1>7, <2>2
  <2>4. Sum((m \ {x}) \ {p}) = Sum((m \ {p}) \ {x})
    <3>1. (m \ {x}) \ {p} = (m \ {p}) \ {x}
      OBVIOUS
    <3>2. QED
      BY <3>1
  <2>5. Good((m \ {p}) \ {x})
    BY <1>2, <1>4
  <2>6. fun[x] \in Int /\ Sum((m \ {p}) \ {x}) \in Int
    BY <1>2, <1>7, <2>5
  <2>7. \A a, b, rest \in Int : a + (b + rest) = b + (a + rest)
    OBVIOUS
  <2>8. QED
    BY <1>4, <1>5, <2>1, <2>3, <2>4, <2>6, <2>7
<1>8. Sum(m) \in Int
  <2>1. Sum(m \ {p}) \in Int
    BY <1>6
  <2>2. QED
    BY <1>4, <1>5, <2>1
<1>9. Good(m)
  BY <1>5, <1>7, <1>8
<1>10. QED
  BY <1>2, <1>9

------------------------------------------------------------------------------
(* Induction by one index at a time, and what follows from it.             *)

LEMMA SetInduction ==
    ASSUME NEW S, IsFiniteSet(S), NEW T, {} \in T,
           \A s \in SUBSET S, x \in S :
               s \in T /\ x \notin s => s \cup {x} \in T
    PROVE  S \in T
<1> DEFINE Bad == {s \in SUBSET S : s \notin T}
<1> SUFFICES ASSUME Bad # {} PROVE FALSE
  OBVIOUS
<1>1. Bad \in SUBSET (SUBSET S)
  OBVIOUS
<1> HIDE DEF Bad
<1>2. PICK m \in Bad : \A s \in SUBSET m : s # m => s \notin Bad
  BY <1>1, MinimalSubset
<1> USE DEF Bad
<1>3. m # {}
  BY <1>2
<1>4. PICK x \in m : TRUE
  BY <1>3
<1>5. m \ {x} \in T /\ (m \ {x}) \cup {x} = m
  BY <1>2
<1>6. QED
  BY <1>2, <1>5

LEMMA SumAddsOne ==
    ASSUME NEW S, IsFiniteSet(S), NEW fun, NEW x, x \notin S,
           \A i \in S \cup {x} : fun[i] \in Int
    PROVE  /\ SumFunctionOnSet(fun, S) \in Int
           /\ SumFunctionOnSet(fun, S \cup {x})
                = fun[x] + SumFunctionOnSet(fun, S)
<1>1. IsFiniteSet(S \cup {x}) /\ (S \cup {x}) \ {x} = S
  BY FS_AddElement
<1>2. SumFunctionOnSet(fun, S) \in Int
  BY SumTakesOut
<1>3. SumFunctionOnSet(fun, S \cup {x})
        = fun[x] + SumFunctionOnSet(fun, (S \cup {x}) \ {x})
  BY <1>1, SumTakesOut
<1>4. QED
  BY <1>1, <1>2, <1>3

\* A sum preserves order.
LEMMA SumIsMonotone ==
    ASSUME NEW S, IsFiniteSet(S), NEW f, NEW g,
           \A i \in S : f[i] \in Int /\ g[i] \in Int /\ f[i] <= g[i]
    PROVE  SumFunctionOnSet(f, S) <= SumFunctionOnSet(g, S)
<1> DEFINE T == {s \in SUBSET S : SumFunctionOnSet(f, s)
                                    <= SumFunctionOnSet(g, s)}
<1>1. {} \in T
  BY SumOfNone
<1>2. ASSUME NEW s \in SUBSET S, NEW x \in S, s \in T, x \notin s
      PROVE  s \cup {x} \in T
  <2>1. IsFiniteSet(s)
    BY FS_Subset
  <2>2. /\ SumFunctionOnSet(f, s) \in Int
        /\ SumFunctionOnSet(f, s \cup {x}) = f[x] + SumFunctionOnSet(f, s)
    BY <1>2, <2>1, SumAddsOne
  <2>3. /\ SumFunctionOnSet(g, s) \in Int
        /\ SumFunctionOnSet(g, s \cup {x}) = g[x] + SumFunctionOnSet(g, s)
    BY <1>2, <2>1, SumAddsOne
  <2>4. SumFunctionOnSet(f, s) <= SumFunctionOnSet(g, s)
    BY <1>2
  <2>5. SumFunctionOnSet(f, s \cup {x}) <= SumFunctionOnSet(g, s \cup {x})
    BY <2>2, <2>3, <2>4
  <2>6. QED
    BY <2>5
<1> HIDE DEF T
<1>3. S \in T
  BY <1>1, <1>2, SetInduction
<1>4. QED
  BY <1>3 DEF T

\* Functions that agree on the indices have the same sum.
LEMMA SumOfSame ==
    ASSUME NEW S, IsFiniteSet(S), NEW f, NEW g,
           \A i \in S : f[i] \in Int /\ g[i] = f[i]
    PROVE  SumFunctionOnSet(g, S) = SumFunctionOnSet(f, S)
<1>1. SumFunctionOnSet(f, S) <= SumFunctionOnSet(g, S)
  BY SumIsMonotone
<1>2. SumFunctionOnSet(g, S) <= SumFunctionOnSet(f, S)
  BY SumIsMonotone
<1>3. SumFunctionOnSet(f, S) \in Int /\ SumFunctionOnSet(g, S) \in Int
  BY SumTakesOut
<1>4. QED
  BY <1>1, <1>2, <1>3

\* Indices that add nothing may be left out.
LEMMA SumIgnoresZeros ==
    ASSUME NEW S, IsFiniteSet(S), NEW A \in SUBSET S, NEW f,
           \A i \in S : f[i] \in Int, \A i \in S \ A : f[i] = 0
    PROVE  SumFunctionOnSet(f, S) = SumFunctionOnSet(f, A)
<1> DEFINE Z == S \ A
           T == {s \in SUBSET Z : SumFunctionOnSet(f, A \cup s)
                                    = SumFunctionOnSet(f, A)}
<1>1. {} \in T
  <2>1. A \cup {} = A
    OBVIOUS
  <2>2. QED
    BY <2>1
<1>2. ASSUME NEW s \in SUBSET Z, NEW x \in Z, s \in T, x \notin s
      PROVE  s \cup {x} \in T
  <2>1. IsFiniteSet(A \cup s)
    <3>1. A \cup s \in SUBSET S
      OBVIOUS
    <3>2. QED
      BY <3>1, FS_Subset
  <2>2. /\ SumFunctionOnSet(f, A \cup s) \in Int
        /\ SumFunctionOnSet(f, (A \cup s) \cup {x})
              = f[x] + SumFunctionOnSet(f, A \cup s)
    BY <1>2, <2>1, SumAddsOne
  <2>3. SumFunctionOnSet(f, (A \cup s) \cup {x}) = SumFunctionOnSet(f, A \cup s)
    <3>1. f[x] = 0
      OBVIOUS
    <3>2. QED
      BY <2>2, <3>1
  <2>4. SumFunctionOnSet(f, A \cup (s \cup {x})) = SumFunctionOnSet(f, A \cup s)
    <3>1. (A \cup s) \cup {x} = A \cup (s \cup {x})
      OBVIOUS
    <3>2. QED
      BY <2>3, <3>1
  <2>5. QED
    BY <1>2, <2>4
<1>3. IsFiniteSet(Z)
  BY FS_Subset
<1>4. Z \in T
  <2> HIDE DEF T, Z
  <2>1. QED
    BY <1>1, <1>2, <1>3, SetInduction
<1>5. A \cup Z = S
  OBVIOUS
<1>6. QED
  BY <1>4, <1>5

LEMMA SumIsNatural ==
    ASSUME NEW S, IsFiniteSet(S), NEW f, \A i \in S : f[i] \in Nat
    PROVE  SumFunctionOnSet(f, S) \in Nat
<1> DEFINE T == {s \in SUBSET S : SumFunctionOnSet(f, s) \in Nat}
<1>1. {} \in T
  BY SumOfNone
<1>2. ASSUME NEW s \in SUBSET S, NEW x \in S, s \in T, x \notin s
      PROVE  s \cup {x} \in T
  <2>1. IsFiniteSet(s) /\ \A i \in s \cup {x} : f[i] \in Int
    BY FS_Subset
  <2>2. SumFunctionOnSet(f, s \cup {x}) = f[x] + SumFunctionOnSet(f, s)
    BY <1>2, <2>1, SumAddsOne
  <2>3. QED
    BY <1>2, <2>2
<1> HIDE DEF T
<1>3. S \in T
  BY <1>1, <1>2, SetInduction
<1>4. QED
  BY <1>3 DEF T

\* No natural summand exceeds the sum.
LEMMA SumBoundsItsParts ==
    ASSUME NEW S, IsFiniteSet(S), NEW f, \A i \in S : f[i] \in Nat,
           NEW x \in S
    PROVE  f[x] <= SumFunctionOnSet(f, S)
<1>1. SumFunctionOnSet(f, S) = f[x] + SumFunctionOnSet(f, S \ {x})
  BY SumTakesOut
<1>2. SumFunctionOnSet(f, S \ {x}) \in Nat
  BY FS_RemoveElement, SumIsNatural
<1>3. QED
  BY <1>1, <1>2

\* Changing one value changes the sum by as much.
LEMMA SumChangesByOne ==
    ASSUME NEW S, IsFiniteSet(S), NEW x \in S, NEW f, NEW g,
           \A i \in S : f[i] \in Int /\ g[i] \in Int,
           \A i \in S \ {x} : g[i] = f[i]
    PROVE  SumFunctionOnSet(g, S)
             = SumFunctionOnSet(f, S) + (g[x] - f[x])
<1> DEFINE rest == SumFunctionOnSet(f, S \ {x})
<1>1. IsFiniteSet(S \ {x})
  BY FS_RemoveElement
<1>2. rest \in Int /\ SumFunctionOnSet(g, S \ {x}) = rest
  BY <1>1, SumTakesOut, SumOfSame
<1>3. SumFunctionOnSet(f, S) = f[x] + rest
  BY SumTakesOut
<1>4. SumFunctionOnSet(g, S) = g[x] + rest
  BY <1>2, SumTakesOut
<1>5. QED
  BY <1>2, <1>3, <1>4

\* The sum of differences is the difference of the sums.
LEMMA SumOfDifferences ==
    ASSUME NEW S, IsFiniteSet(S), NEW f, NEW g, NEW h,
           \A i \in S : f[i] \in Int /\ g[i] \in Int /\ h[i] = f[i] - g[i]
    PROVE  SumFunctionOnSet(h, S)
             = SumFunctionOnSet(f, S) - SumFunctionOnSet(g, S)
<1> DEFINE T == {s \in SUBSET S : SumFunctionOnSet(h, s)
                      = SumFunctionOnSet(f, s) - SumFunctionOnSet(g, s)}
<1>1. {} \in T
  BY SumOfNone
<1>2. ASSUME NEW s \in SUBSET S, NEW x \in S, s \in T, x \notin s
      PROVE  s \cup {x} \in T
  <2>1. IsFiniteSet(s) /\ \A i \in S : h[i] \in Int
    BY FS_Subset
  <2>2. /\ SumFunctionOnSet(f, s) \in Int
        /\ SumFunctionOnSet(f, s \cup {x}) = f[x] + SumFunctionOnSet(f, s)
    BY <1>2, <2>1, SumAddsOne
  <2>3. /\ SumFunctionOnSet(g, s) \in Int
        /\ SumFunctionOnSet(g, s \cup {x}) = g[x] + SumFunctionOnSet(g, s)
    BY <1>2, <2>1, SumAddsOne
  <2>4. SumFunctionOnSet(h, s \cup {x}) = h[x] + SumFunctionOnSet(h, s)
    BY <1>2, <2>1, SumAddsOne
  <2>5. SumFunctionOnSet(h, s)
          = SumFunctionOnSet(f, s) - SumFunctionOnSet(g, s)
    BY <1>2
  <2>6. SumFunctionOnSet(h, s \cup {x})
          = SumFunctionOnSet(f, s \cup {x}) - SumFunctionOnSet(g, s \cup {x})
    BY <2>2, <2>3, <2>4, <2>5
  <2>7. QED
    BY <2>6
<1> HIDE DEF T
<1>3. S \in T
  BY <1>1, <1>2, SetInduction
<1>4. QED
  BY <1>3 DEF T

\* A sum may be taken over other names of the same indices.
LEMMA SumRenamed ==
    ASSUME NEW S, IsFiniteSet(S), NEW r,
           \A i, j \in S : r[i] = r[j] => i = j,
           NEW f, NEW g, \A i \in S : f[r[i]] \in Int /\ g[i] = f[r[i]]
    PROVE  SumFunctionOnSet(g, S) = SumFunctionOnSet(f, {r[i] : i \in S})
<1> DEFINE R(s) == {r[i] : i \in s}
           T == {s \in SUBSET S : /\ IsFiniteSet(R(s))
                                  /\ SumFunctionOnSet(g, s)
                                       = SumFunctionOnSet(f, R(s))}
<1>1. {} \in T
  <2>1. R({}) = {}
    OBVIOUS
  <2>2. QED
    BY <2>1, SumOfNone, FS_EmptySet
<1>2. ASSUME NEW s \in SUBSET S, NEW x \in S, s \in T, x \notin s
      PROVE  s \cup {x} \in T
  <2>1. IsFiniteSet(s) /\ \A i \in S : g[i] \in Int
    BY FS_Subset
  <2>2. R(s \cup {x}) = R(s) \cup {r[x]} /\ r[x] \notin R(s)
    BY <1>2
  <2>3. \A j \in R(s) \cup {r[x]} : f[j] \in Int
    OBVIOUS
  <2>4. IsFiniteSet(R(s))
    BY <1>2
  <2> HIDE DEF R
  <2>5. IsFiniteSet(R(s \cup {x}))
    <3>1. IsFiniteSet(R(s) \cup {r[x]})
      BY <2>4, FS_AddElement
    <3>2. QED
      BY <2>2, <3>1
  <2>6. SumFunctionOnSet(g, s \cup {x}) = g[x] + SumFunctionOnSet(g, s)
    BY <1>2, <2>1, SumAddsOne
  <2>7. SumFunctionOnSet(f, R(s) \cup {r[x]})
          = f[r[x]] + SumFunctionOnSet(f, R(s))
    BY <2>2, <2>3, <2>4, SumAddsOne
  <2>8. SumFunctionOnSet(g, s \cup {x}) = SumFunctionOnSet(f, R(s \cup {x}))
    BY <1>2, <2>2, <2>6, <2>7
  <2>9. QED
    BY <2>5, <2>8
<1> HIDE DEF T
<1>3. S \in T
  BY <1>1, <1>2, SetInduction
<1>4. QED
  BY <1>3 DEF T

\* The sum of sums is the sum of the two sums.
LEMMA SumOfSums ==
    ASSUME NEW S, IsFiniteSet(S), NEW f, NEW g, NEW h,
           \A i \in S : f[i] \in Int /\ g[i] \in Int /\ h[i] = f[i] + g[i]
    PROVE  SumFunctionOnSet(h, S)
             = SumFunctionOnSet(f, S) + SumFunctionOnSet(g, S)
<1>1. \A i \in S : h[i] \in Int /\ g[i] \in Int /\ f[i] = h[i] - g[i]
  OBVIOUS
<1>2. SumFunctionOnSet(f, S)
        = SumFunctionOnSet(h, S) - SumFunctionOnSet(g, S)
  BY <1>1, SumOfDifferences
<1>3. /\ SumFunctionOnSet(f, S) \in Int
      /\ SumFunctionOnSet(g, S) \in Int
      /\ SumFunctionOnSet(h, S) \in Int
  BY <1>1, SumTakesOut
<1>4. QED
  BY <1>2, <1>3

==============================================================================
