------------------------ MODULE AirdropMerkleTreeProofs ------------------------
(***************************************************************************)
(* The airdrop tree, for any rows and a tree of any size: what the rows    *)
(* add up to, what the levels of hashes above them are, and that the root  *)
(* accepts proofs of the leaves and of nothing else.                       *)
(***************************************************************************)
EXTENDS AirdropMerkleTree, SumProofs, SequenceTheorems

------------------------------------------------------------------------------
(* Induction on numbers, by a smallest counterexample.                     *)

\* A set with 0 and with every successor has every natural number.
LEMMA NaturalInduction ==
    ASSUME NEW T, 0 \in T, \A n \in Nat : n \in T => n + 1 \in T
    PROVE  Nat \subseteq T
<1> DEFINE Bad == {n \in Nat : n \notin T}
<1> SUFFICES ASSUME Bad # {} PROVE FALSE
  OBVIOUS
<1>1. PICK m \in Bad : \A k \in Bad : <<k, m>> \notin OpToRel(<, Nat)
  BY NatLessThanWellFounded, WFMin
<1>2. m \in Nat /\ m # 0 /\ m \notin T
  OBVIOUS
<1>3. m - 1 \in Nat /\ m - 1 < m /\ (m - 1) + 1 = m
  BY <1>2
<1>4. <<m - 1, m>> \in OpToRel(<, Nat)
  BY <1>2, <1>3 DEF OpToRel
<1>5. m - 1 \in T
  BY <1>1, <1>3, <1>4
<1>6. QED
  BY <1>2, <1>3, <1>5

\* A set of numbers up to m has a greatest one, and Max is it.
LEMMA MaxIsGreatest ==
    ASSUME NEW m \in Nat, NEW s \in SUBSET (1 .. m), s # {}
    PROVE  Max(s) \in s /\ \A y \in s : y <= Max(s)
<1> DEFINE T == {n \in Nat : \A r \in SUBSET (1 .. n) :
                    r # {} => \E x \in r : \A y \in r : x >= y}
<1>1. 0 \in T
  <2>1. 1 .. 0 = {}
    OBVIOUS
  <2>2. QED
    BY <2>1
<1>2. ASSUME NEW n \in Nat, n \in T PROVE n + 1 \in T
  <2> SUFFICES ASSUME NEW r \in SUBSET (1 .. n + 1), r # {}
               PROVE  \E x \in r : \A y \in r : x >= y
    OBVIOUS
  <2>1. CASE n + 1 \in r
    BY <2>1
  <2>2. CASE n + 1 \notin r
    <3>1. r \in SUBSET (1 .. n)
      BY <2>2
    <3>2. QED
      BY <1>2, <3>1
  <2>3. QED
    BY <2>1, <2>2
<1> HIDE DEF T
<1>3. m \in T
  BY <1>1, <1>2, NaturalInduction
<1>4. \E x \in s : \A y \in s : x >= y
  BY <1>3 DEF T
<1>5. QED
  BY <1>4 DEF Max

------------------------------------------------------------------------------
(* The two folds of the model: of a proof, and of rows.                    *)

Step(kind, done, next) ==
    IF kind = "hash" THEN HashIntermediate(done, next) ELSE Combined(done, next)

\* iter is the recursive function that FoldLeft evaluates.
IsFold(kind, base, seq, S, iter) ==
    iter = [s \in SUBSET S |->
              IF s = {} THEN base
              ELSE Step(kind, iter[s \ {Max(s)}], seq[Max(s)])]

Indices(S) == \E m \in Nat : S \in SUBSET (1 .. m)

\* Indices are finitely many.
LEMMA IndicesAreFinite == ASSUME NEW S, Indices(S) PROVE IsFiniteSet(S)
<1> PICK m \in Nat : S \in SUBSET (1 .. m)
  BY DEF Indices
<1>1. IsFiniteSet(1 .. m)
  BY FS_Interval
<1>2. QED
  BY <1>1, FS_Subset

\* The greatest of some indices is one of them.
LEMMA GreatestIsIndex ==
    ASSUME NEW S, Indices(S), S # {} PROVE Max(S) \in S
BY MaxIsGreatest DEF Indices

\* A part of some indices is one again.
LEMMA SomeAreIndices ==
    ASSUME NEW S, Indices(S), NEW s \in SUBSET S PROVE Indices(s)
BY DEF Indices

\* Folds over two sets of indices agree on the smaller one.
LEMMA FoldsAgree ==
    ASSUME NEW kind, NEW base, NEW seq,
           NEW S, Indices(S), NEW f, IsFold(kind, base, seq, S, f),
           NEW T, S \subseteq T, NEW g, IsFold(kind, base, seq, T, g)
    PROVE  f[S] = g[S]
<1> DEFINE Bad == {s \in SUBSET S : f[s] # g[s]}
<1> SUFFICES ASSUME Bad # {} PROVE FALSE
  OBVIOUS
<1>0. Bad \in SUBSET (SUBSET S) /\ IsFiniteSet(S)
  BY IndicesAreFinite
<1> HIDE DEF Bad
<1>1. PICK b \in Bad : \A s \in SUBSET b : s # b => s \notin Bad
  BY <1>0, MinimalSubset
<1> USE DEF Bad
<1>2. CASE b = {}
  BY <1>2 DEF IsFold
<1>3. CASE b # {}
  <2> DEFINE r == b \ {Max(b)}
  <2>1. Max(b) \in b /\ r \subseteq b /\ r # b
    BY <1>3, GreatestIsIndex, SomeAreIndices
  <2>2. f[r] = g[r]
    BY <1>1, <2>1
  <2>3. /\ f[b] = Step(kind, f[r], seq[Max(b)])
        /\ g[b] = Step(kind, g[r], seq[Max(b)])
    BY <1>3 DEF IsFold
  <2>4. QED
    BY <2>2, <2>3
<1>4. QED
  BY <1>2, <1>3

\* The recursion is well defined.
LEMMA FoldsExist ==
    ASSUME NEW kind, NEW base, NEW seq, NEW S, Indices(S)
    PROVE  \E iter : IsFold(kind, base, seq, S, iter)
<1> DEFINE Bad == {s \in SUBSET S : ~\E iter : IsFold(kind, base, seq, s, iter)}
<1> SUFFICES ASSUME Bad # {} PROVE FALSE
  OBVIOUS
<1>0. Bad \in SUBSET (SUBSET S) /\ IsFiniteSet(S)
  BY IndicesAreFinite
<1> HIDE DEF Bad
<1>1. PICK b \in Bad : \A s \in SUBSET b : s # b => s \notin Bad
  BY <1>0, MinimalSubset
<1> USE DEF Bad
<1> DEFINE It(s) == CHOOSE iter : IsFold(kind, base, seq, s, iter)
           Rest(s) == s \ {Max(s)}
           iter  == [s \in SUBSET b |->
                       IF s = {} THEN base
                       ELSE Step(kind, It(Rest(s))[Rest(s)], seq[Max(s)])]
<1>2. ASSUME NEW s \in SUBSET b, s # b PROVE IsFold(kind, base, seq, s, It(s))
  BY <1>1, <1>2
<1>3. ASSUME NEW s \in SUBSET b, s # {}
      PROVE  /\ Max(s) \in s
             /\ Rest(s) \subseteq s /\ Rest(s) \in SUBSET b /\ Rest(s) # b
             /\ Indices(Rest(s))
  <2>1. Indices(s)
    BY SomeAreIndices
  <2>2. Max(s) \in s
    BY <1>3, <2>1, GreatestIsIndex
  <2>3. QED
    BY <2>1, <2>2, SomeAreIndices
<1>4. ASSUME NEW s \in SUBSET b, s # b PROVE iter[s] = It(s)[s]
  <2>1. IsFold(kind, base, seq, s, It(s))
    BY <1>2, <1>4
  <2>2. CASE s = {}
    BY <2>1, <2>2 DEF IsFold
  <2>3. CASE s # {}
    <3>1. /\ Rest(s) \subseteq s /\ Indices(Rest(s))
          /\ IsFold(kind, base, seq, Rest(s), It(Rest(s)))
      BY <1>2, <1>3, <2>3
    <3> HIDE DEF It
    <3>2. It(Rest(s))[Rest(s)] = It(s)[Rest(s)]
      BY <2>1, <3>1, FoldsAgree
    <3>3. It(s)[s] = Step(kind, It(s)[Rest(s)], seq[Max(s)])
      BY <2>1, <2>3 DEF IsFold
    <3>4. QED
      BY <2>3, <3>2, <3>3
  <2>4. QED
    BY <2>2, <2>3
<1> HIDE DEF It
<1>5. IsFold(kind, base, seq, b, iter)
  <2>1. ASSUME NEW s \in SUBSET b, s # {}
        PROVE  iter[Rest(s)] = It(Rest(s))[Rest(s)]
    BY <1>3, <1>4, <2>1
  <2>2. iter = [s \in SUBSET b |->
                  IF s = {} THEN base
                  ELSE Step(kind, iter[s \ {Max(s)}], seq[Max(s)])]
    BY <2>1
  <2>3. QED
    BY <2>2 DEF IsFold
<1>6. QED
  BY <1>1, <1>5

\* The fold of seq, one element after the other.
Unfolds(kind, base, seq, m, iter) ==
    /\ iter[1 .. 0] = base
    /\ \A j \in 1 .. m : iter[1 .. j] = Step(kind, iter[1 .. (j - 1)], seq[j])

\* A fold takes the elements of a sequence in their order.
LEMMA FoldUnfolds ==
    ASSUME NEW kind, NEW base, NEW seq, NEW m \in Nat, NEW iter,
           IsFold(kind, base, seq, 1 .. m, iter)
    PROVE  Unfolds(kind, base, seq, m, iter)
<1>1. 1 .. 0 = {}
  OBVIOUS
<1>2. ASSUME NEW j \in 1 .. m
      PROVE  iter[1 .. j] = Step(kind, iter[1 .. (j - 1)], seq[j])
  <2>1. /\ 1 .. j \in SUBSET (1 .. m) /\ 1 .. j # {} /\ j \in Nat
        /\ (1 .. j) \ {j} = 1 .. (j - 1)
    OBVIOUS
  <2>2. Max(1 .. j) = j
    <3>1. /\ Max(1 .. j) \in 1 .. j
          /\ \A y \in 1 .. j : y <= Max(1 .. j)
      BY <2>1, MaxIsGreatest
    <3>2. j <= Max(1 .. j)
      BY <2>1, <3>1
    <3> HIDE DEF Max
    <3>3. QED
      BY <3>1, <3>2
  <2>3. iter[1 .. j] = Step(kind, iter[(1 .. j) \ {Max(1 .. j)}], seq[Max(1 .. j)])
    BY <2>1 DEF IsFold
  <2>4. QED
    BY <2>1, <2>2, <2>3
<1>3. iter[{}] = base
  BY DEF IsFold
<1>4. QED
  BY <1>1, <1>2, <1>3 DEF Unfolds

\* Any sequence of indices up to m is folded.
LEMMA HashesFold ==
    ASSUME NEW base, NEW seq, NEW m \in Nat, DOMAIN seq = 1 .. m
    PROVE  \E iter : /\ FoldLeft(HashIntermediate, base, seq) = iter[1 .. m]
                     /\ Unfolds("hash", base, seq, m, iter)
<1> DEFINE kind == "hash"
           It == CHOOSE iter : IsFold(kind, base, seq, 1 .. m, iter)
<1>1. Indices(1 .. m)
  BY DEF Indices
<1>2. IsFold(kind, base, seq, 1 .. m, It)
  BY <1>1, FoldsExist
<1>3. FoldLeft(HashIntermediate, base, seq) = It[1 .. m]
  BY DEF FoldLeft, MapThenFoldSet, IsFold, Step
<1> HIDE DEF It, kind
<1>4. Unfolds(kind, base, seq, m, It)
  BY <1>2, FoldUnfolds
<1>5. QED
  BY <1>3, <1>4 DEF kind

\* Likewise for the rows, which Combined takes one after the other.
LEMMA RowsFold ==
    ASSUME NEW base, NEW seq, NEW m \in Nat, DOMAIN seq = 1 .. m
    PROVE  \E iter : /\ FoldLeft(Combined, base, seq) = iter[1 .. m]
                     /\ Unfolds("row", base, seq, m, iter)
<1> DEFINE kind == "row"
           It == CHOOSE iter : IsFold(kind, base, seq, 1 .. m, iter)
<1>1. Indices(1 .. m)
  BY DEF Indices
<1>2. IsFold(kind, base, seq, 1 .. m, It)
  BY <1>1, FoldsExist
<1>3. FoldLeft(Combined, base, seq) = It[1 .. m]
  BY DEF FoldLeft, MapThenFoldSet, IsFold, Step
<1> HIDE DEF It, kind
<1>4. Unfolds(kind, base, seq, m, It)
  BY <1>2, FoldUnfolds
<1>5. QED
  BY <1>3, <1>4 DEF kind

------------------------------------------------------------------------------
(* The two climbs of the model: from a level to the level above it, and    *)
(* from the index of a node to the index of its parent.                    *)

Up(kind, x) == IF kind = "level" THEN Parents(x) ELSE x \div 2

IsClimb(kind, base, f) ==
    f = [k \in Nat |-> IF k = 0 THEN base ELSE Up(kind, f[k - 1])]

Climb(kind, base) == CHOOSE f : IsClimb(kind, base, f)

\* The first n steps of a climb.
IsPartClimb(kind, base, n, f) ==
    f = [k \in 0 .. n |-> IF k = 0 THEN base ELSE Up(kind, f[k - 1])]

\* Two climbs agree as far as both go.
LEMMA PartClimbsAgree ==
    ASSUME NEW kind, NEW base, NEW n \in Nat, NEW f, NEW g,
           IsPartClimb(kind, base, n, f), IsPartClimb(kind, base, n + 1, g)
    PROVE  f[n] = g[n]
<1> DEFINE T == {k \in Nat : k <= n => f[k] = g[k]}
<1>1. 0 \in T
  BY DEF IsPartClimb
<1>2. ASSUME NEW k \in Nat, k \in T PROVE k + 1 \in T
  <2> SUFFICES ASSUME k + 1 <= n PROVE f[k + 1] = g[k + 1]
    OBVIOUS
  <2>1. /\ k + 1 \in 0 .. n /\ k + 1 \in 0 .. n + 1
        /\ k + 1 # 0 /\ (k + 1) - 1 = k /\ f[k] = g[k]
    BY <1>2
  <2>2. f[k + 1] = Up(kind, f[(k + 1) - 1]) /\ g[k + 1] = Up(kind, g[(k + 1) - 1])
    BY <2>1 DEF IsPartClimb
  <2>3. QED
    BY <2>1, <2>2
<1> HIDE DEF T
<1>3. n \in T
  BY <1>1, <1>2, NaturalInduction
<1>4. QED
  BY <1>3 DEF T

\* There is a climb of every height.
LEMMA PartClimbsExist ==
    ASSUME NEW kind, NEW base, NEW n \in Nat
    PROVE  \E f : IsPartClimb(kind, base, n, f)
<1> DEFINE T == {k \in Nat : \E f : IsPartClimb(kind, base, k, f)}
<1>1. 0 \in T
  <2>1. IsPartClimb(kind, base, 0, [k \in 0 .. 0 |-> base])
    BY DEF IsPartClimb
  <2>2. QED
    BY <2>1
<1>2. ASSUME NEW k \in Nat, k \in T PROVE k + 1 \in T
  <2>1. PICK f : IsPartClimb(kind, base, k, f)
    BY <1>2
  <2> DEFINE g == [i \in 0 .. k + 1 |->
                     IF i <= k THEN f[i] ELSE Up(kind, f[k])]
  <2>2. ASSUME NEW i \in 0 .. k + 1
        PROVE  g[i] = IF i = 0 THEN base ELSE Up(kind, g[i - 1])
    <3>1. CASE i = 0
      BY <2>1, <3>1 DEF IsPartClimb
    <3>2. CASE i # 0 /\ i <= k
      <4>1. i \in 0 .. k /\ i - 1 \in 0 .. k + 1 /\ i - 1 <= k
        BY <3>2
      <4>2. f[i] = Up(kind, f[i - 1])
        BY <2>1, <3>2, <4>1 DEF IsPartClimb
      <4>3. QED
        BY <3>2, <4>1, <4>2
    <3>3. CASE i = k + 1
      <4>1. i - 1 = k /\ k \in 0 .. k + 1 /\ ~(i <= k) /\ i # 0
        BY <3>3
      <4>2. QED
        BY <4>1
    <3>4. QED
      BY <3>1, <3>2, <3>3
  <2>3. g = [i \in 0 .. k + 1 |-> g[i]]
    OBVIOUS
  <2> HIDE DEF g
  <2>4. IsPartClimb(kind, base, k + 1, g)
    BY <2>2, <2>3 DEF IsPartClimb
  <2>5. QED
    BY <2>4
<1> HIDE DEF T
<1>3. n \in T
  BY <1>1, <1>2, NaturalInduction
<1>4. QED
  BY <1>3 DEF T

\* The recursion is well defined.
LEMMA ClimbsExist ==
    ASSUME NEW kind, NEW base
    PROVE  /\ IsClimb(kind, base, Climb(kind, base))
           /\ Climb(kind, base)[0] = base
           /\ \A k \in Nat : Climb(kind, base)[k + 1]
                               = Up(kind, Climb(kind, base)[k])
<1> DEFINE It(n) == CHOOSE f : IsPartClimb(kind, base, n, f)
           f == [k \in Nat |-> It(k)[k]]
<1>1. \A n \in Nat : IsPartClimb(kind, base, n, It(n))
  BY PartClimbsExist
<1> HIDE DEF It
<1>2. ASSUME NEW k \in Nat
      PROVE  f[k] = IF k = 0 THEN base ELSE Up(kind, f[k - 1])
  <2>1. CASE k = 0
    BY <1>1, <2>1 DEF IsPartClimb
  <2>2. CASE k # 0
    <3>1. k - 1 \in Nat /\ (k - 1) + 1 = k /\ k \in 0 .. k
      BY <2>2
    <3>2. It(k - 1)[k - 1] = It(k)[k - 1]
      BY <1>1, <3>1, PartClimbsAgree
    <3>3. It(k)[k] = Up(kind, It(k)[k - 1])
      BY <1>1, <2>2, <3>1 DEF IsPartClimb
    <3>4. QED
      BY <2>2, <3>1, <3>2, <3>3
  <2>3. QED
    BY <2>1, <2>2
<1>3. f = [k \in Nat |-> f[k]]
  OBVIOUS
<1> HIDE DEF f
<1>4. IsClimb(kind, base, f)
  BY <1>2, <1>3 DEF IsClimb
<1>5. IsClimb(kind, base, Climb(kind, base))
  BY <1>4 DEF Climb
<1> DEFINE c == Climb(kind, base)
<1> HIDE DEF c
<1>6. IsClimb(kind, base, c)
  BY <1>5 DEF c
<1>7. /\ c[0] = base
      /\ \A k \in Nat : c[k + 1] = Up(kind, c[k])
  <2>1. ASSUME NEW k \in Nat PROVE c[k + 1] = Up(kind, c[k])
    <3>1. k + 1 \in Nat /\ k + 1 # 0 /\ (k + 1) - 1 = k
      OBVIOUS
    <3>2. c[k + 1] = Up(kind, c[(k + 1) - 1])
      BY <1>6, <3>1 DEF IsClimb
    <3>3. QED
      BY <3>1, <3>2
  <2>2. QED
    BY <1>6, <2>1 DEF IsClimb
<1>8. QED
  BY <1>6, <1>7 DEF c

------------------------------------------------------------------------------
(* The shape of a tree.                                                    *)

\* A sequence, of whatever.
IsList(s) == \E n \in Nat : s = [i \in 1 .. n |-> s[i]]

\* What is defined on 1 .. n is a list of n elements.
LEMMA ListShape ==
    ASSUME NEW s, NEW n \in Nat, s = [i \in 1 .. n |-> s[i]]
    PROVE  IsList(s) /\ Len(s) = n /\ DOMAIN s = 1 .. n /\ s \in Seq(Range(s))
<1>1. s \in Seq(Range(s)) /\ DOMAIN s = 1 .. n
  BY DEF Range
<1>2. Len(s) = n
  BY <1>1
<1>3. QED
  BY <1>1, <1>2 DEF IsList

\* A list has a length, and its elements are at 1 up to it.
LEMMA ListsAreSequences ==
    ASSUME NEW s, IsList(s)
    PROVE  Len(s) \in Nat /\ DOMAIN s = 1 .. Len(s) /\ s \in Seq(Range(s))
           /\ s = [i \in 1 .. Len(s) |-> s[i]]
<1>1. PICK n \in Nat : s = [i \in 1 .. n |-> s[i]]
  BY DEF IsList
<1>2. Len(s) = n
  BY <1>1, ListShape
<1>3. QED
  BY <1>1, <1>2, ListShape

\* A list without elements is the empty sequence.
LEMMA EmptyList ==
    ASSUME NEW s, IsList(s) PROVE s = <<>> <=> Len(s) = 0
BY ListsAreSequences

\* The level above is shorter, and its nodes have a left child.
LEMMA LevelsShrink ==
    ASSUME NEW len \in Nat
    PROVE  /\ NextLevelLen(len) \in Nat
           /\ NextLevelLen(len) = 0 <=> len \in {0, 1}
           /\ len > 0 => NextLevelLen(len) < len
           /\ NextLevelLen(len) <= len
           /\ \A n \in 1 .. NextLevelLen(len) : 2 * n - 1 \in 1 .. len
BY DEF NextLevelLen

\* The parent of a node is on the level above.
LEMMA LevelsHalve ==
    ASSUME NEW len \in Nat, len > 1, NEW x \in Nat, x < len
    PROVE  x \div 2 < NextLevelLen(len)
BY DEF NextLevelLen

\* The level above is a list of the hashes of pairs.
LEMMA ParentsShape ==
    ASSUME NEW level, IsList(level)
    PROVE  /\ IsList(Parents(level))
           /\ Len(Parents(level)) = NextLevelLen(Len(level))
           /\ \A n \in 1 .. Len(Parents(level)) :
                 Parents(level)[n] = HashIntermediate(level[2 * n - 1],
                                                      Sibling(level, 2 * n - 2))
<1> DEFINE m == NextLevelLen(Len(level))
           p == Parents(level)
<1>1. m \in Nat
  BY ListsAreSequences, LevelsShrink
<1>2. p = [n \in 1 .. m |-> HashIntermediate(level[2 * n - 1],
                                             Sibling(level, 2 * n - 2))]
  BY DEF Parents
<1>3. p = [n \in 1 .. m |-> p[n]]
  BY <1>2
<1> HIDE DEF m, p
<1>4. IsList(p) /\ Len(p) = m
  BY <1>1, <1>3, ListShape
<1>5. \A n \in 1 .. m : p[n] = HashIntermediate(level[2 * n - 1],
                                                Sibling(level, 2 * n - 2))
  BY <1>2
<1>6. QED
  BY <1>4, <1>5 DEF p, m

\* The levels of the tree of some items, and the empty ones above it.
LeafHashes(items) == [n \in DOMAIN items |-> HashLeaf(items[n])]

Levels(items) == Climb("level", LeafHashes(items))

\* Every level is a list, made from the one below.
LEMMA LevelsShape ==
    ASSUME NEW items, IsList(items)
    PROVE  /\ Levels(items)[0] = LeafHashes(items)
           /\ Len(Levels(items)[0]) = Len(items)
           /\ \A k \in Nat : /\ IsList(Levels(items)[k])
                             /\ Levels(items)[k + 1] = Parents(Levels(items)[k])
                             /\ Len(Levels(items)[k + 1])
                                  = NextLevelLen(Len(Levels(items)[k]))
<1> DEFINE level == Levels(items)
           leaves == LeafHashes(items)
<1>1. /\ level[0] = leaves
      /\ \A k \in Nat : level[k + 1] = Parents(level[k])
  BY ClimbsExist DEF Levels, Up
<1>2. Len(leaves) = Len(items) /\ IsList(leaves)
  <2>1. Len(items) \in Nat /\ DOMAIN items = 1 .. Len(items)
    BY ListsAreSequences
  <2>2. leaves = [n \in 1 .. Len(items) |-> leaves[n]]
    BY <2>1 DEF LeafHashes
  <2>3. QED
    BY <2>1, <2>2, ListShape
<1> HIDE DEF level, leaves
<1> DEFINE T == {k \in Nat : IsList(level[k])}
<1>3. 0 \in T
  BY <1>1, <1>2
<1>4. ASSUME NEW k \in Nat, k \in T PROVE k + 1 \in T
  <2>1. IsList(Parents(level[k]))
    BY <1>4, ParentsShape
  <2>2. IsList(level[k + 1])
    BY <1>1, <2>1
  <2>3. QED
    BY <2>2
<1> HIDE DEF T
<1>5. Nat \subseteq T
  BY <1>3, <1>4, NaturalInduction
<1>6. \A k \in Nat : IsList(level[k])
  BY <1>5 DEF T
<1>7. \A k \in Nat : Len(level[k + 1]) = NextLevelLen(Len(level[k]))
  BY <1>1, <1>6, ParentsShape
<1>8. QED
  BY <1>1, <1>2, <1>6, <1>7 DEF level, leaves

\* Levels run out: each is shorter than the one below.
LEMMA LevelsEnd ==
    ASSUME NEW items, IsList(items), NEW k \in Nat
    PROVE  \/ Len(Levels(items)[k]) = 0
           \/ Len(Levels(items)[k]) <= Len(items) - k
<1> DEFINE level == Levels(items)
           N == Len(items)
           T == {i \in Nat : Len(level[i]) = 0 \/ Len(level[i]) <= N - i}
<1>1. N \in Nat /\ \A i \in Nat : Len(level[i]) \in Nat
  BY ListsAreSequences, LevelsShape
<1>2. Len(level[0]) = N
  BY LevelsShape
<1>3. \A i \in Nat : Len(level[i + 1]) = NextLevelLen(Len(level[i]))
  BY LevelsShape
<1> HIDE DEF level, N
<1>4. 0 \in T
  BY <1>1, <1>2
<1>5. ASSUME NEW i \in Nat, i \in T PROVE i + 1 \in T
  <2> DEFINE len == Len(level[i])
  <2>1. len \in Nat /\ Len(level[i + 1]) = NextLevelLen(len)
    BY <1>1, <1>3
  <2>2. CASE len = 0
    BY <2>1, <2>2, LevelsShrink
  <2>3. CASE len # 0
    <3>1. len <= N - i
      BY <1>5, <2>3
    <3> HIDE DEF len
    <3>2. NextLevelLen(len) < len /\ NextLevelLen(len) \in Nat
      BY <2>1, <2>3, LevelsShrink
    <3>3. NextLevelLen(len) <= N - (i + 1)
      BY <1>1, <2>1, <3>1, <3>2
    <3>4. QED
      BY <2>1, <3>3
  <2>4. QED
    BY <2>2, <2>3
<1> HIDE DEF T
<1>6. k \in T
  BY <1>4, <1>5, NaturalInduction
<1>7. QED
  BY <1>6 DEF T, level, N

\* The height of the tree: its number of levels.
LEMMA TreeShape ==
    ASSUME NEW items, IsList(items)
    PROVE  \E c \in Nat :
              /\ Tree(items) = [n \in 1 .. c |-> Levels(items)[n - 1]]
              /\ Len(Tree(items)) = c
              /\ c = 0 <=> Len(items) = 0
              /\ \A k \in 0 .. c - 1 : Len(Levels(items)[k]) > 0
              /\ c > 0 => Len(Levels(items)[c - 1]) = 1
<1> DEFINE level == Levels(items)
           N == Len(items)
           levels == {k \in 0 .. N : level[k] # <<>>}
           T == {k \in Nat : Len(level[k]) = 0}
<1>1. N \in Nat /\ \A i \in Nat : Len(level[i]) \in Nat
  BY ListsAreSequences, LevelsShape
<1>2. N \in T
  <2>1. Len(level[N]) = 0 \/ Len(level[N]) <= N - N
    BY <1>1, LevelsEnd
  <2>2. QED
    BY <1>1, <2>1
<1>3. PICK c \in T : \A k \in T : <<k, c>> \notin OpToRel(<, Nat)
  <2>1. T # {} /\ T \subseteq Nat
    BY <1>2
  <2> HIDE DEF T
  <2>2. QED
    BY <2>1, NatLessThanWellFounded, WFMin
<1>4. c \in Nat /\ \A k \in T : c <= k
  <2>1. c \in Nat
    OBVIOUS
  <2>2. ASSUME NEW k \in T, k < c PROVE FALSE
    <3>1. <<k, c>> \in OpToRel(<, Nat)
      BY <2>1, <2>2 DEF OpToRel
    <3>2. QED
      BY <1>3, <3>1
  <2>3. QED
    BY <2>1, <2>2
<1>5. \A k \in 0 .. c - 1 : k \in Nat /\ Len(level[k]) > 0
  <2> SUFFICES ASSUME NEW k \in 0 .. c - 1 PROVE k \in Nat /\ Len(level[k]) > 0
    OBVIOUS
  <2>1. k \in Nat /\ ~(c <= k)
    BY <1>4
  <2>2. k \notin T
    BY <1>4, <2>1
  <2>3. QED
    BY <1>1, <2>1, <2>2
<1>6. \A k \in Nat : c <= k => Len(level[k]) = 0
  <2> DEFINE R == {k \in Nat : c <= k => Len(level[k]) = 0}
  <2>1. 0 \in R
    <3>1. c <= 0 => c = 0
      BY <1>4
    <3>2. QED
      BY <1>3, <3>1
  <2>2. ASSUME NEW k \in Nat, k \in R PROVE k + 1 \in R
    <3>1. CASE c = k + 1
      BY <1>3, <3>1
    <3>2. CASE c <= k
      <4>1. Len(level[k]) = 0 /\ Len(level[k + 1]) = NextLevelLen(Len(level[k]))
        BY <2>2, <3>2, LevelsShape
      <4>2. Len(level[k + 1]) = 0
        BY <4>1, LevelsShrink
      <4>3. QED
        BY <4>2
    <3>3. CASE c > k + 1
      BY <1>4, <3>3
    <3>4. QED
      BY <1>4, <3>1, <3>2, <3>3
  <2> HIDE DEF R
  <2>3. Nat \subseteq R
    BY <2>1, <2>2, NaturalInduction
  <2>4. QED
    BY <2>3 DEF R
<1>7. \A k \in Nat : level[k] = <<>> <=> Len(level[k]) = 0
  BY LevelsShape, EmptyList
<1>8. c <= N
  BY <1>2, <1>4
<1>9. levels = 0 .. c - 1
  <2>1. \A k \in 0 .. N : k \in Nat /\ (k \in 0 .. c - 1 <=> ~(c <= k))
    BY <1>1, <1>4
  <2>2. \A k \in 0 .. N : level[k] # <<>> <=> k \in 0 .. c - 1
    BY <1>5, <1>6, <1>7, <2>1
  <2>3. \A k \in 0 .. c - 1 : k \in 0 .. N
    BY <1>1, <1>4, <1>8
  <2>4. QED
    BY <2>2, <2>3
<1>10. Cardinality(levels) = c
  <2>1. Cardinality(0 .. c - 1) = IF 0 > c - 1 THEN 0 ELSE (c - 1) - 0 + 1
    BY <1>4, FS_Interval
  <2>2. Cardinality(0 .. c - 1) = c
    BY <1>4, <2>1
  <2>3. QED
    BY <1>9, <2>2
<1>11. Tree(items) = [n \in 1 .. Cardinality(levels) |-> level[n - 1]]
  BY DEF Tree, Levels, Climb, IsClimb, Up, LeafHashes
<1>12. Tree(items) = [n \in 1 .. c |-> level[n - 1]]
  BY <1>10, <1>11
<1>13. Len(Tree(items)) = c
  <2>1. Tree(items) = [n \in 1 .. c |-> Tree(items)[n]]
    BY <1>12
  <2>2. QED
    BY <1>4, <2>1, ListShape
<1>14. c = 0 <=> N = 0
  <2>1. Len(level[0]) = N
    BY LevelsShape
  <2>2. c = 0 => N = 0
    BY <1>3, <2>1
  <2>3. N = 0 => c = 0
    BY <1>4, <1>8
  <2>4. QED
    BY <2>2, <2>3
<1>15. c > 0 => Len(level[c - 1]) = 1
  <2> SUFFICES ASSUME c > 0 PROVE Len(level[c - 1]) = 1
    OBVIOUS
  <2>1. c - 1 \in 0 .. c - 1 /\ c - 1 \in Nat /\ (c - 1) + 1 = c
    BY <1>4
  <2>2. Len(level[c - 1]) > 0 /\ Len(level[c - 1]) \in Nat
    BY <1>1, <1>5, <2>1
  <2>3. Len(level[(c - 1) + 1]) = NextLevelLen(Len(level[c - 1]))
    BY <2>1, LevelsShape
  <2>4. NextLevelLen(Len(level[c - 1])) = 0
    BY <1>3, <2>1, <2>3
  <2>5. Len(level[c - 1]) \in {0, 1}
    BY <2>2, <2>4, LevelsShrink
  <2>6. QED
    BY <2>2, <2>5
<1>16. QED
  BY <1>4, <1>5, <1>12, <1>13, <1>14, <1>15

------------------------------------------------------------------------------
(* What a proof proves.                                                    *)

\* Leaf hashes of different data differ.
LEMMA LeavesDiffer ==
    ASSUME NEW a, NEW b, HashLeaf(a) = HashLeaf(b) PROVE a = b
BY DEF HashLeaf

\* No leaf hash is that of a pair: the prefixes differ.
LEMMA LeafIsNoPair ==
    ASSUME NEW a, NEW l, NEW r, HashLeaf(a) = HashIntermediate(l, r)
    PROVE  FALSE
BY DEF HashLeaf, HashIntermediate, LEAF_PREFIX, INTERMEDIATE_PREFIX

\* Who knows one half of a pair and its hash has a pair with it.
LEMMA PairHasItsParts ==
    ASSUME NEW l, NEW r, NEW l2, NEW r2,
           HashIntermediate(l, r) = HashIntermediate(l2, r2)
    PROVE  l \in {l2, r2}
<1>1. {l, r} = {l2, r2}
  BY DEF HashIntermediate
<1>2. QED
  BY <1>1

\* A pair is hashed sorted, so that its order does not matter.
LEMMA PairIsUnordered ==
    ASSUME NEW l, NEW r
    PROVE  HashIntermediate(l, r) = HashIntermediate(r, l)
<1>1. {l, r} = {r, l}
  OBVIOUS
<1>2. QED
  BY <1>1 DEF HashIntermediate

\* The sibling of a node is on its level.
LEMMA SiblingIsOnLevel ==
    ASSUME NEW level, IsList(level), NEW x \in Nat, x < Len(level)
    PROVE  Sibling(level, x) \in Range(level)
<1>1. Len(level) \in Nat /\ DOMAIN level = 1 .. Len(level)
  BY ListsAreSequences
<1>2. CASE x % 2 = 1
  <2>1. x \in 1 .. Len(level)
    BY <1>1, <1>2
  <2>2. QED
    BY <1>1, <1>2, <2>1 DEF Sibling, Range
<1>3. CASE x % 2 # 1
  <2>1. x + 1 \in 1 .. Len(level)
    BY <1>1
  <2>2. x + 1 < Len(level) => x + 2 \in 1 .. Len(level)
    BY <1>1
  <2>3. QED
    BY <1>1, <1>3, <2>1, <2>2 DEF Sibling, Range
<1>4. QED
  BY <1>2, <1>3

\* A hash of the tree that a proof leads to from a leaf: the leaf is one of the
\* tree.  The prefixes keep leaves and pairs apart.
LEMMA ProofCommits ==
    ASSUME NEW items, IsList(items), NEW data, NEW proof, NEW m \in Nat,
           DOMAIN proof = 1 .. m, NEW k \in Nat,
           FoldLeft(HashIntermediate, HashLeaf(data), proof)
             \in Range(Levels(items)[k])
    PROVE  data \in Range(items)
<1> DEFINE level == Levels(items)
           leaf == HashLeaf(data)
<1>1. PICK iter : /\ FoldLeft(HashIntermediate, leaf, proof) = iter[1 .. m]
                  /\ Unfolds("hash", leaf, proof, m, iter)
  BY HashesFold
<1>2. /\ iter[1 .. 0] = leaf
      /\ \A j \in 1 .. m :
            iter[1 .. j] = HashIntermediate(iter[1 .. (j - 1)], proof[j])
  BY <1>1 DEF Unfolds, Step
<1>3. ASSUME NEW i \in Nat
      PROVE  /\ IsList(level[i])
             /\ Len(level[i]) \in Nat
             /\ DOMAIN level[i] = 1 .. Len(level[i])
  BY LevelsShape, ListsAreSequences
<1> DEFINE T == {j \in Nat : j <= m =>
                    \A i \in Nat : iter[1 .. j] \in Range(level[i])
                                     => data \in Range(items)}
<1>4. ASSUME NEW i \in Nat, NEW h \in Range(level[i + 1])
      PROVE  \E l \in Range(level[i]), r \in Range(level[i]) :
                h = HashIntermediate(l, r)
  <2> HIDE DEF level
  <2>1. PICK n \in 1 .. Len(level[i + 1]) : h = level[i + 1][n]
    <3>1. DOMAIN level[i + 1] = 1 .. Len(level[i + 1])
      BY <1>3
    <3>2. QED
      BY <1>4, <3>1 DEF Range
  <2>2. /\ level[i + 1] = Parents(level[i])
        /\ Len(level[i + 1]) = NextLevelLen(Len(level[i]))
    BY LevelsShape DEF level
  <2>3. h = HashIntermediate(level[i][2 * n - 1], Sibling(level[i], 2 * n - 2))
    BY <1>3, <2>1, <2>2, ParentsShape
  <2>4. 2 * n - 1 \in 1 .. Len(level[i])
    BY <1>3, <2>1, <2>2, LevelsShrink
  <2>5. level[i][2 * n - 1] \in Range(level[i])
    BY <1>3, <2>4 DEF Range
  <2>6. 2 * n - 2 \in Nat /\ 2 * n - 2 < Len(level[i])
    <3>1. n \in Nat /\ Len(level[i]) \in Nat
      BY <1>3, <2>1
    <3>2. QED
      BY <2>4, <3>1
  <2>7. Sibling(level[i], 2 * n - 2) \in Range(level[i])
    BY <1>3, <2>6, SiblingIsOnLevel
  <2>8. QED
    BY <2>3, <2>5, <2>7
<1>5. ASSUME NEW h \in Range(level[0])
      PROVE  \E item \in Range(items) : h = HashLeaf(item)
  <2>1. level[0] = LeafHashes(items)
    BY LevelsShape
  <2>2. PICK x \in DOMAIN items : h = HashLeaf(items[x])
    BY <2>1 DEF LeafHashes, Range
  <2>3. QED
    BY <2>2 DEF Range
<1> HIDE DEF level, leaf
<1>6. 0 \in T
  <2> SUFFICES ASSUME NEW i \in Nat, iter[1 .. 0] \in Range(level[i])
               PROVE  data \in Range(items)
    OBVIOUS
  <2>1. CASE i = 0
    <3>1. PICK item \in Range(items) : iter[1 .. 0] = HashLeaf(item)
      BY <1>5, <2>1
    <3>2. item = data
      BY <1>2, <3>1, LeavesDiffer DEF leaf
    <3>3. QED
      BY <3>2
  <2>2. CASE i # 0
    <3>1. i - 1 \in Nat /\ (i - 1) + 1 = i
      BY <2>2
    <3>2. iter[1 .. 0] \in Range(level[(i - 1) + 1])
      BY <3>1
    <3>3. PICK l, r : iter[1 .. 0] = HashIntermediate(l, r)
      BY <1>4, <3>1, <3>2
    <3>4. QED
      BY <1>2, <3>3, LeafIsNoPair DEF leaf
  <2>3. QED
    BY <2>1, <2>2
<1>7. ASSUME NEW j \in Nat, j \in T PROVE j + 1 \in T
  <2> SUFFICES ASSUME j + 1 <= m, NEW i \in Nat,
                      iter[1 .. (j + 1)] \in Range(level[i])
               PROVE  data \in Range(items)
    OBVIOUS
  <2>1. iter[1 .. (j + 1)] = HashIntermediate(iter[1 .. j], proof[j + 1])
    <3>1. j + 1 \in 1 .. m /\ (j + 1) - 1 = j
      OBVIOUS
    <3>2. iter[1 .. (j + 1)]
            = HashIntermediate(iter[1 .. ((j + 1) - 1)], proof[j + 1])
      BY <1>2, <3>1
    <3>3. QED
      BY <3>1, <3>2
  <2>2. CASE i = 0
    <3>1. PICK item \in Range(items) : iter[1 .. (j + 1)] = HashLeaf(item)
      BY <1>5, <2>2
    <3>2. QED
      BY <2>1, <3>1, LeafIsNoPair
  <2>3. CASE i # 0
    <3>1. i - 1 \in Nat /\ (i - 1) + 1 = i
      BY <2>3
    <3>2. PICK l \in Range(level[i - 1]), r \in Range(level[i - 1]) :
             iter[1 .. (j + 1)] = HashIntermediate(l, r)
      <4>1. iter[1 .. (j + 1)] \in Range(level[(i - 1) + 1])
        BY <3>1
      <4>2. QED
        BY <1>4, <3>1, <4>1
    <3>3. iter[1 .. j] \in {l, r}
      <4> DEFINE below == iter[1 .. j]
      <4>1. HashIntermediate(below, proof[j + 1]) = HashIntermediate(l, r)
        BY <2>1, <3>2
      <4> HIDE DEF below
      <4>2. below \in {l, r}
        BY <4>1, PairHasItsParts
      <4>3. QED
        BY <4>2 DEF below
    <3>4. iter[1 .. j] \in Range(level[i - 1])
      BY <3>2, <3>3
    <3>5. QED
      BY <1>7, <3>1, <3>4
  <2>4. QED
    BY <2>2, <2>3
<1> HIDE DEF T
<1>8. m \in T
  BY <1>6, <1>7, NaturalInduction
<1>9. iter[1 .. m] \in Range(level[k])
  BY <1>1 DEF level, leaf
<1>10. QED
  BY <1>8, <1>9 DEF T

\* A step up the tree: the parent of a node, whichever side it is on.
LEMMA ParentOfNode ==
    ASSUME NEW level, IsList(level), NEW x \in Nat, x < Len(level),
           Len(level) > 1
    PROVE  /\ x \div 2 \in Nat
           /\ x \div 2 < Len(Parents(level))
           /\ Parents(level)[x \div 2 + 1]
                = HashIntermediate(level[x + 1], Sibling(level, x))
<1> DEFINE len == Len(level)
           y == x \div 2
<1>1. len \in Nat /\ y \in Nat
  BY ListsAreSequences
<1>2. Len(Parents(level)) = NextLevelLen(len)
  BY ParentsShape
<1>3. y < NextLevelLen(len)
  BY <1>1, LevelsHalve
<1>4. y + 1 \in 1 .. Len(Parents(level))
  <2>1. NextLevelLen(len) \in Nat
    BY <1>1, LevelsShrink
  <2> HIDE DEF y, len
  <2>2. QED
    BY <1>1, <1>2, <1>3, <2>1
<1>5. Parents(level)[y + 1]
        = HashIntermediate(level[2 * (y + 1) - 1], Sibling(level, 2 * (y + 1) - 2))
  BY <1>4, ParentsShape
<1>6. CASE x % 2 = 1
  <2>1. /\ 2 * (y + 1) - 1 = x
        /\ 2 * (y + 1) - 2 = x - 1
        /\ (x - 1) % 2 # 1
        /\ (x - 1) + 1 < len
        /\ (x - 1) + 2 = x + 1
    BY <1>1, <1>6
  <2>2. Sibling(level, x - 1) = level[x + 1]
    BY <2>1 DEF Sibling
  <2>3. Sibling(level, x) = level[x]
    BY <1>6 DEF Sibling
  <2>4. Parents(level)[y + 1] = HashIntermediate(level[x], level[x + 1])
    BY <1>5, <2>1, <2>2
  <2>5. QED
    BY <1>1, <1>2, <1>3, <2>3, <2>4, PairIsUnordered
<1>7. CASE x % 2 # 1
  <2>1. 2 * (y + 1) - 1 = x + 1 /\ 2 * (y + 1) - 2 = x
    BY <1>1, <1>7
  <2>2. QED
    BY <1>1, <1>2, <1>3, <1>5, <2>1
<1>8. QED
  BY <1>6, <1>7

\* find_path halves the index on every level.
LEMMA NodeIndexHalves ==
    ASSUME NEW index
    PROVE  /\ NodeIndex(index)[0] = index
           /\ \A k \in Nat : NodeIndex(index)[k + 1] = NodeIndex(index)[k] \div 2
<1>1. NodeIndex(index) = Climb("index", index)
  BY DEF NodeIndex, Climb, IsClimb, Up
<1>2. /\ Climb("index", index)[0] = index
      /\ \A k \in Nat : Climb("index", index)[k + 1]
                           = Up("index", Climb("index", index)[k])
  BY ClimbsExist
<1>3. \A x : Up("index", x) = x \div 2
  BY DEF Up
<1>4. QED
  BY <1>1, <1>2, <1>3

\* The proof of every item verifies.
LEMMA ProofVerifies ==
    ASSUME NEW items, IsList(items), NEW n \in 1 .. Len(items)
    PROVE  Verify(GetProof(Tree(items), n - 1), GetRoot(Tree(items)),
                  HashLeaf(items[n]))
<1> DEFINE level == Levels(items)
           at == NodeIndex(n - 1)
           tree == Tree(items)
           proof == GetProof(tree, n - 1)
           leaf == HashLeaf(items[n])
<1>1. Len(items) \in Nat /\ DOMAIN items = 1 .. Len(items)
  BY ListsAreSequences
<1>2. /\ at[0] = n - 1
      /\ \A k \in Nat : at[k + 1] = at[k] \div 2
  BY NodeIndexHalves
<1>3. PICK c \in Nat :
             /\ tree = [i \in 1 .. c |-> level[i - 1]]
             /\ Len(tree) = c
             /\ c = 0 <=> Len(items) = 0
             /\ \A k \in 0 .. c - 1 : Len(level[k]) > 0
             /\ c > 0 => Len(level[c - 1]) = 1
  BY TreeShape
<1>4. c > 0
  BY <1>1, <1>3
<1>5. /\ proof = [k \in 1 .. c - 1 |-> Sibling(tree[k], at[k - 1])]
      /\ c - 1 \in Nat
  BY <1>3, <1>4 DEF GetProof
<1>6. /\ level[0] = LeafHashes(items)
      /\ Len(level[0]) = Len(items)
      /\ \A k \in Nat : /\ IsList(level[k])
                        /\ Len(level[k]) \in Nat
                        /\ level[k + 1] = Parents(level[k])
                        /\ Len(level[k + 1]) = NextLevelLen(Len(level[k]))
  BY LevelsShape, ListsAreSequences
<1> HIDE DEF level, at, tree, proof
<1>7. PICK iter : /\ FoldLeft(HashIntermediate, leaf, proof) = iter[1 .. (c - 1)]
                  /\ Unfolds("hash", leaf, proof, c - 1, iter)
  <2>1. DOMAIN proof = 1 .. (c - 1)
    BY <1>5
  <2>2. QED
    BY <1>5, <2>1, HashesFold
<1>8. /\ iter[1 .. 0] = leaf
      /\ \A j \in 1 .. (c - 1) :
            iter[1 .. j] = HashIntermediate(iter[1 .. (j - 1)], proof[j])
  BY <1>7 DEF Unfolds, Step
<1> DEFINE T == {j \in Nat : j <= c - 1 =>
                    /\ at[j] \in Nat
                    /\ at[j] < Len(level[j])
                    /\ iter[1 .. j] = level[j][at[j] + 1]}
<1>9. 0 \in T
  <2>1. level[0][n] = leaf
    BY <1>1, <1>6 DEF LeafHashes
  <2>2. at[0] \in Nat /\ at[0] < Len(level[0]) /\ at[0] + 1 = n
    <3>1. at[0] = n - 1 /\ Len(level[0]) = Len(items)
      BY <1>2, <1>6
    <3>2. QED
      BY <1>1, <3>1
  <2>3. QED
    BY <1>8, <2>1, <2>2
<1>10. ASSUME NEW j \in Nat, j \in T PROVE j + 1 \in T
  <2> SUFFICES ASSUME j + 1 <= c - 1
               PROVE  /\ at[j + 1] \in Nat
                      /\ at[j + 1] < Len(level[j + 1])
                      /\ iter[1 .. (j + 1)] = level[j + 1][at[j + 1] + 1]
    OBVIOUS
  <2> DEFINE x == at[j]
  <2>1. /\ j + 1 \in 1 .. (c - 1) /\ (j + 1) - 1 = j
        /\ j + 1 \in 1 .. c /\ j + 1 \in 0 .. c - 1
    BY <1>3
  <2>2. x \in Nat /\ x < Len(level[j]) /\ iter[1 .. j] = level[j][x + 1]
    BY <1>10, <2>1
  <2>3. Len(level[j]) > 1
    <3> DEFINE len == Len(level[j])
    <3>1. len \in Nat /\ NextLevelLen(len) > 0
      BY <1>3, <1>6, <2>1
    <3> HIDE DEF len
    <3>2. len \notin {0, 1}
      BY <3>1, LevelsShrink
    <3>3. len > 1
      BY <3>1, <3>2
    <3>4. QED
      BY <3>3 DEF len
  <2>4. iter[1 .. (j + 1)]
          = HashIntermediate(iter[1 .. ((j + 1) - 1)], proof[j + 1])
    BY <1>8, <2>1
  <2>5. proof[j + 1] = Sibling(level[j], x)
    BY <1>3, <1>5, <2>1
  <2>6. iter[1 .. (j + 1)] = HashIntermediate(level[j][x + 1],
                                              Sibling(level[j], x))
    BY <2>1, <2>2, <2>4, <2>5
  <2>7. at[j + 1] = x \div 2
    BY <1>2
  <2>8. IsList(level[j]) /\ level[j + 1] = Parents(level[j])
    BY <1>6
  <2> HIDE DEF x
  <2>9. QED
    BY <2>2, <2>3, <2>6, <2>7, <2>8, ParentOfNode
<1> HIDE DEF T
<1>11. c - 1 \in T
  BY <1>5, <1>9, <1>10, NaturalInduction
<1>12. /\ at[c - 1] \in Nat
       /\ at[c - 1] < 1
       /\ iter[1 .. (c - 1)] = level[c - 1][at[c - 1] + 1]
  BY <1>3, <1>4, <1>5, <1>11 DEF T
<1>13. at[c - 1] + 1 = 1
  BY <1>12
<1>14. GetRoot(tree) = level[c - 1][1]
  BY <1>3, <1>4 DEF GetRoot, Last
<1>15. FoldLeft(HashIntermediate, leaf, proof) = GetRoot(tree)
  BY <1>7, <1>12, <1>13, <1>14
<1>16. QED
  BY <1>15 DEF Verify, proof, tree

------------------------------------------------------------------------------
(* The amounts of a tree node.                                             *)

TreeNodeType == [claimant       : Wallet,
                 total_unlocked : [Category -> Nat],
                 total_locked   : [Category -> Nat]]

\* Locked and unlocked amounts are treated alike.
Part == {"unlocked", "locked"}

Total(node, part) ==
    IF part = "unlocked" THEN node.total_unlocked ELSE node.total_locked

RowAmount(row, part) ==
    TokenAmount(IF part = "unlocked" THEN row.amount_unlocked
                                     ELSE row.amount_locked)

\* There are finitely many categories.
LEMMA CategoriesAreFinite == IsFiniteSet(Category)
<1>1. IsFiniteSet({"Staker"} \cup {"Validator"} \cup {"Searcher"})
  BY FS_Singleton, FS_Union
<1>2. Category = {"Staker"} \cup {"Validator"} \cup {"Searcher"}
  BY DEF Category
<1>3. QED
  BY <1>1, <1>2

\* An amount that is in one category only is the sum of all.
LEMMA SumOfOnly ==
    ASSUME NEW category \in Category, NEW amount \in Nat
    PROVE  /\ Only(category, amount) \in [Category -> Nat]
           /\ SumFunction(Only(category, amount)) = amount
<1> DEFINE f == Only(category, amount)
<1>1. /\ f \in [Category -> Nat]
      /\ f[category] = amount
      /\ \A c \in Category \ {category} : f[c] = 0
  BY DEF Only
<1> HIDE DEF f
<1>2. \A c \in Category : f[c] \in Int
  BY <1>1
<1>3. SumFunctionOnSet(f, Category) = SumFunctionOnSet(f, {category})
  BY <1>1, <1>2, CategoriesAreFinite, SumIgnoresZeros
<1>4. SumFunctionOnSet(f, {category}) = amount
  <2>1. IsFiniteSet({category}) /\ {category} \ {category} = {}
    BY FS_Singleton
  <2>2. SumFunctionOnSet(f, {category})
          = f[category] + SumFunctionOnSet(f, {category} \ {category})
    BY <1>2, <2>1, SumTakesOut
  <2>3. SumFunctionOnSet(f, {category} \ {category}) = 0
    BY <2>1, SumOfNone
  <2>4. QED
    BY <1>1, <2>2, <2>3
<1>5. SumFunction(f) = amount
  BY <1>1, <1>3, <1>4 DEF SumFunction
<1>6. QED
  BY <1>1, <1>5 DEF f

\* The sum of added amounts is the sum of their sums.
LEMMA SumOfPlus ==
    ASSUME NEW f \in [Category -> Nat], NEW g \in [Category -> Nat]
    PROVE  /\ Plus(f, g) \in [Category -> Nat]
           /\ SumFunction(Plus(f, g)) = SumFunction(f) + SumFunction(g)
<1>1. /\ Plus(f, g) \in [Category -> Nat]
      /\ \A c \in Category : /\ f[c] \in Int /\ g[c] \in Int
                             /\ Plus(f, g)[c] = f[c] + g[c]
  BY DEF Plus
<1>2. SumFunctionOnSet(Plus(f, g), Category)
        = SumFunctionOnSet(f, Category) + SumFunctionOnSet(g, Category)
  BY <1>1, CategoriesAreFinite, SumOfSums
<1>3. QED
  BY <1>1, <1>2 DEF SumFunction

\* The totals of a node are sums of natural numbers.
LEMMA TotalsAreNatural ==
    ASSUME NEW node \in TreeNodeType
    PROVE  /\ \A part : Total(node, part) \in [Category -> Nat]
           /\ \A part : SumFunction(Total(node, part)) \in Nat
           /\ AmountUnlocked(node) = SumFunction(Total(node, "unlocked"))
           /\ AmountLocked(node) = SumFunction(Total(node, "locked"))
           /\ AmountUnlocked(node) \in Nat
           /\ AmountLocked(node) \in Nat
           /\ TotalAmount(node) \in Nat
<1>1. \A part : Total(node, part) \in [Category -> Nat]
  BY DEF Total, TreeNodeType
<1>2. ASSUME NEW f \in [Category -> Nat] PROVE SumFunction(f) \in Nat
  BY CategoriesAreFinite, SumIsNatural DEF SumFunction
<1>3. \A part : SumFunction(Total(node, part)) \in Nat
  BY <1>1, <1>2
<1>4. /\ AmountUnlocked(node) = SumFunction(Total(node, "unlocked"))
      /\ AmountLocked(node) = SumFunction(Total(node, "locked"))
  BY DEF AmountUnlocked, AmountLocked, Total
<1>5. AmountUnlocked(node) \in Nat /\ AmountLocked(node) \in Nat
  BY <1>3, <1>4
<1>6. QED
  BY <1>1, <1>3, <1>4, <1>5 DEF TotalAmount

\* The node of a row grants its claimant the amounts of the row.
LEMMA RowShape ==
    ASSUME NEW row \in CsvEntries
    PROVE  /\ row.pubkey \in Wallet
           /\ \A part : RowAmount(row, part) \in Nat
           /\ TreeNode(row) \in TreeNodeType
           /\ TreeNode(row).claimant = row.pubkey
           /\ \A part : SumFunction(Total(TreeNode(row), part))
                          = RowAmount(row, part)
<1>1. row \in CsvEntry
  BY TreeAssumption
<1>2. /\ row.pubkey \in Wallet
      /\ row.amount_unlocked \in Nat
      /\ row.amount_locked \in Nat
      /\ row.category \in Category
  BY <1>1 DEF CsvEntry, U64
<1>3. ASSUME NEW amount \in Nat PROVE TokenAmount(amount) \in Nat
  BY TreeAssumption DEF TokenAmount
<1>4. \A part : RowAmount(row, part) \in Nat
  BY <1>2, <1>3 DEF RowAmount
<1> DEFINE u == Only(row.category, TokenAmount(row.amount_unlocked))
           l == Only(row.category, TokenAmount(row.amount_locked))
<1>5. /\ u \in [Category -> Nat]
      /\ SumFunction(u) = TokenAmount(row.amount_unlocked)
      /\ l \in [Category -> Nat]
      /\ SumFunction(l) = TokenAmount(row.amount_locked)
  BY <1>2, <1>3, SumOfOnly
<1>6. TreeNode(row) = [claimant       |-> row.pubkey,
                       total_unlocked |-> u,
                       total_locked   |-> l]
  BY DEF TreeNode
<1> HIDE DEF u, l
<1>7. TreeNode(row) \in TreeNodeType
  BY <1>2, <1>5, <1>6 DEF TreeNodeType
<1>8. \A part : SumFunction(Total(TreeNode(row), part)) = RowAmount(row, part)
  BY <1>5, <1>6 DEF Total, RowAmount
<1>9. QED
  BY <1>2, <1>4, <1>6, <1>7, <1>8

------------------------------------------------------------------------------
(* The nodes of some rows.                                                 *)

Amounts(rows, part) == [i \in DOMAIN rows |-> RowAmount(rows[i], part)]

\* The first j rows, and those among them that name a claimant.
RowsUpTo(rows, j, w) == {i \in 1 .. j : rows[i].pubkey = w}

\* The nodes after the first j rows: one for each claimant they name, with the
\* sums of his rows.
NodesAfter(nodes, rows, j) ==
    /\ IsList(nodes)
    /\ Len(nodes) <= j
    /\ \A n \in 1 .. Len(nodes) : nodes[n] \in TreeNodeType
    /\ \A m, n \in 1 .. Len(nodes) :
          m # n => nodes[m].claimant # nodes[n].claimant
    /\ \A n \in 1 .. Len(nodes) : RowsUpTo(rows, j, nodes[n].claimant) # {}
    /\ \A i \in 1 .. j : \E n \in 1 .. Len(nodes) :
          nodes[n].claimant = rows[i].pubkey
    /\ \A n \in 1 .. Len(nodes), part \in Part :
          SumFunction(Total(nodes[n], part))
            = SumFunctionOnSet(Amounts(rows, part),
                               RowsUpTo(rows, j, nodes[n].claimant))

Merged(n, node) ==
    [n EXCEPT !.total_unlocked = Plus(@, node.total_unlocked),
              !.total_locked   = Plus(@, node.total_locked)]

\* Merging adds the amounts of two nodes of a claimant.
LEMMA MergedShape ==
    ASSUME NEW n \in TreeNodeType, NEW node \in TreeNodeType
    PROVE  /\ Merged(n, node) \in TreeNodeType
           /\ Merged(n, node).claimant = n.claimant
           /\ \A part : SumFunction(Total(Merged(n, node), part))
                          = SumFunction(Total(n, part))
                              + SumFunction(Total(node, part))
<1>1. /\ n.total_unlocked \in [Category -> Nat]
      /\ n.total_locked \in [Category -> Nat]
      /\ node.total_unlocked \in [Category -> Nat]
      /\ node.total_locked \in [Category -> Nat]
  BY DEF TreeNodeType
<1> DEFINE u == Plus(n.total_unlocked, node.total_unlocked)
           l == Plus(n.total_locked, node.total_locked)
<1>2. /\ u \in [Category -> Nat]
      /\ SumFunction(u) = SumFunction(n.total_unlocked)
                            + SumFunction(node.total_unlocked)
      /\ l \in [Category -> Nat]
      /\ SumFunction(l) = SumFunction(n.total_locked)
                            + SumFunction(node.total_locked)
  BY <1>1, SumOfPlus
<1> HIDE DEF u, l
<1>3. /\ Merged(n, node).claimant = n.claimant
      /\ Merged(n, node).total_unlocked = u
      /\ Merged(n, node).total_locked = l
  BY DEF Merged, TreeNodeType, u, l
<1>4. Merged(n, node) \in TreeNodeType
  BY <1>2 DEF Merged, TreeNodeType, u, l
<1>5. \A part : SumFunction(Total(Merged(n, node), part))
                  = SumFunction(Total(n, part)) + SumFunction(Total(node, part))
  BY <1>2, <1>3 DEF Total
<1>6. QED
  BY <1>3, <1>4, <1>5

Names(node, nodes) ==
    \E n \in DOMAIN nodes : nodes[n].claimant = node.claimant

\* A node of a claimant who has one already is added to it.
LEMMA CombinedMerges ==
    ASSUME NEW nodes, IsList(nodes), NEW node, Names(node, nodes)
    PROVE  /\ IsList(Combined(nodes, node))
           /\ Len(Combined(nodes, node)) = Len(nodes)
           /\ \A n \in 1 .. Len(nodes) :
                 Combined(nodes, node)[n]
                   = IF nodes[n].claimant = node.claimant
                       THEN Merged(nodes[n], node) ELSE nodes[n]
<1> DEFINE c == Combined(nodes, node)
<1>1. Len(nodes) \in Nat /\ DOMAIN nodes = 1 .. Len(nodes)
  BY ListsAreSequences
<1>2. c = [n \in 1 .. Len(nodes) |->
             IF nodes[n].claimant # node.claimant
               THEN nodes[n] ELSE Merged(nodes[n], node)]
  BY <1>1 DEF Combined, Names, Merged
<1>3. c = [n \in 1 .. Len(nodes) |-> c[n]]
  BY <1>2
<1> HIDE DEF c
<1>4. IsList(c) /\ Len(c) = Len(nodes)
  BY <1>1, <1>3, ListShape
<1>5. QED
  BY <1>2, <1>4 DEF c

\* A node of a new claimant is added to the others.
LEMMA CombinedAppends ==
    ASSUME NEW nodes, IsList(nodes), NEW node, ~Names(node, nodes)
    PROVE  /\ IsList(Combined(nodes, node))
           /\ Len(Combined(nodes, node)) = Len(nodes) + 1
           /\ \A n \in 1 .. Len(nodes) : Combined(nodes, node)[n] = nodes[n]
           /\ Combined(nodes, node)[Len(nodes) + 1] = node
<1> DEFINE c == Combined(nodes, node)
           S == Range(nodes) \cup {node}
<1>1. Len(nodes) \in Nat /\ nodes \in Seq(S) /\ node \in S
  <2>1. /\ Len(nodes) \in Nat
        /\ DOMAIN nodes = 1 .. Len(nodes)
        /\ nodes = [i \in 1 .. Len(nodes) |-> nodes[i]]
    BY ListsAreSequences
  <2>2. \A i \in 1 .. Len(nodes) : nodes[i] \in S
    BY <2>1 DEF Range
  <2> HIDE DEF S
  <2>3. nodes \in Seq(S)
    BY <2>1, <2>2
  <2>4. QED
    BY <2>1, <2>3 DEF S
<1>2. c = Append(nodes, node)
  BY DEF Combined, Names
<1> HIDE DEF c, S
<1>3. /\ c \in Seq(S)
      /\ Len(c) = Len(nodes) + 1
      /\ \A n \in 1 .. Len(nodes) : c[n] = nodes[n]
      /\ c[Len(nodes) + 1] = node
  BY <1>1, <1>2
<1>4. c = [n \in 1 .. Len(c) |-> c[n]]
  BY <1>3
<1>5. IsList(c)
  BY <1>1, <1>3, <1>4, ListShape
<1>6. QED
  BY <1>3, <1>5 DEF c

\* What one row more adds to the rows of a claimant.
RowsUpToStep(rows, j, w) ==
    /\ RowsUpTo(rows, j + 1, w)
         = IF rows[j + 1].pubkey = w THEN RowsUpTo(rows, j, w) \cup {j + 1}
                                     ELSE RowsUpTo(rows, j, w)
    /\ j + 1 \notin RowsUpTo(rows, j, w)
    /\ IsFiniteSet(RowsUpTo(rows, j, w))
    /\ RowsUpTo(rows, j, w) \subseteq 1 .. j

\* Row j + 1 is added where it belongs, and no other.
LEMMA RowsUpToGrows ==
    ASSUME NEW rows, NEW j \in Nat, NEW w
    PROVE  RowsUpToStep(rows, j, w)
<1>1. RowsUpTo(rows, j, w) \subseteq 1 .. j
  BY DEF RowsUpTo
<1>2. IsFiniteSet(RowsUpTo(rows, j, w))
  BY <1>1, FS_Interval, FS_Subset
<1>3. j + 1 \notin 1 .. j /\ 1 .. j + 1 = (1 .. j) \cup {j + 1}
  OBVIOUS
<1>4. RowsUpTo(rows, j + 1, w)
        = IF rows[j + 1].pubkey = w
            THEN RowsUpTo(rows, j, w) \cup {j + 1} ELSE RowsUpTo(rows, j, w)
  BY <1>3 DEF RowsUpTo
<1>5. QED
  BY <1>1, <1>2, <1>3, <1>4 DEF RowsUpToStep

\* What the next row adds to the sum of a claimant.
LEMMA NextRowAdds ==
    ASSUME NEW rows, NEW j \in Nat, NEW w, NEW part,
           \A i \in 1 .. j + 1 : /\ i \in DOMAIN rows
                                 /\ RowAmount(rows[i], part) \in Nat
    PROVE  /\ SumFunctionOnSet(Amounts(rows, part), RowsUpTo(rows, j, w)) \in Nat
           /\ SumFunctionOnSet(Amounts(rows, part), RowsUpTo(rows, j + 1, w))
                = IF rows[j + 1].pubkey = w
                    THEN SumFunctionOnSet(Amounts(rows, part),
                                          RowsUpTo(rows, j, w))
                           + RowAmount(rows[j + 1], part)
                    ELSE SumFunctionOnSet(Amounts(rows, part),
                                          RowsUpTo(rows, j, w))
<1> DEFINE f == Amounts(rows, part)
           S == RowsUpTo(rows, j, w)
<1>1. \A i \in 1 .. j + 1 : f[i] = RowAmount(rows[i], part) /\ f[i] \in Nat
  BY DEF Amounts
<1>2. /\ IsFiniteSet(S)
      /\ S \subseteq 1 .. j
      /\ j + 1 \notin S
      /\ RowsUpTo(rows, j + 1, w)
           = IF rows[j + 1].pubkey = w THEN S \cup {j + 1} ELSE S
  <2>1. RowsUpToStep(rows, j, w)
    BY RowsUpToGrows
  <2>2. QED
    BY <2>1 DEF RowsUpToStep
<1>3. \A i \in S \cup {j + 1} : f[i] \in Nat /\ f[i] \in Int
  <2>1. S \cup {j + 1} \subseteq 1 .. j + 1
    BY <1>2
  <2>2. QED
    BY <1>1, <2>1
<1> HIDE DEF f, S
<1>4. SumFunctionOnSet(f, S) \in Nat
  BY <1>2, <1>3, SumIsNatural
<1>5. SumFunctionOnSet(f, S \cup {j + 1}) = f[j + 1] + SumFunctionOnSet(f, S)
  BY <1>2, <1>3, SumAddsOne
<1>6. f[j + 1] = RowAmount(rows[j + 1], part) /\ f[j + 1] \in Nat
  <2>1. j + 1 \in 1 .. j + 1
    OBVIOUS
  <2>2. QED
    BY <1>1, <2>1
<1>7. SumFunctionOnSet(f, S \cup {j + 1})
        = SumFunctionOnSet(f, S) + RowAmount(rows[j + 1], part)
  BY <1>4, <1>5, <1>6
<1>8. QED
  BY <1>2, <1>4, <1>7 DEF f, S

\* The step of AirdropMerkleTree::new for one row.
LEMMA RowIsCounted ==
    ASSUME NEW rows \in Seq(CsvEntries), NEW j \in Nat, j + 1 <= Len(rows),
           NEW nodes, NodesAfter(nodes, rows, j)
    PROVE  NodesAfter(Combined(nodes, TreeNode(rows[j + 1])), rows, j + 1)
<1> DEFINE row == rows[j + 1]
           node == TreeNode(row)
           c == Combined(nodes, node)
           len == Len(nodes)
           Granted(i, w, part) == SumFunctionOnSet(Amounts(rows, part),
                                               RowsUpTo(rows, i, w))
<1>1. row \in CsvEntries
  OBVIOUS
<1>2. /\ row.pubkey \in Wallet
      /\ node \in TreeNodeType
      /\ node.claimant = row.pubkey
      /\ \A part : SumFunction(Total(node, part)) = RowAmount(row, part)
      /\ \A part : RowAmount(row, part) \in Nat
  BY <1>1, RowShape
<1>3. /\ IsList(nodes)
      /\ len <= j
      /\ \A n \in 1 .. len : nodes[n] \in TreeNodeType
      /\ \A m, n \in 1 .. len : m # n => nodes[m].claimant # nodes[n].claimant
      /\ \A n \in 1 .. len : RowsUpTo(rows, j, nodes[n].claimant) # {}
      /\ \A i \in 1 .. j : \E n \in 1 .. len :
            nodes[n].claimant = rows[i].pubkey
      /\ \A n \in 1 .. len, part \in Part :
            SumFunction(Total(nodes[n], part)) = Granted(j, nodes[n].claimant, part)
  BY DEF NodesAfter
<1>4. len \in Nat /\ DOMAIN nodes = 1 .. len
  BY <1>3, ListsAreSequences
<1>5. \A w, part : /\ Granted(j, w, part) \in Nat
                   /\ Granted(j + 1, w, part)
                        = IF row.pubkey = w
                            THEN Granted(j, w, part) + RowAmount(row, part)
                            ELSE Granted(j, w, part)
  <2>1. \A i \in 1 .. j + 1 : i \in DOMAIN rows /\ rows[i] \in CsvEntries
    OBVIOUS
  <2>2. \A i \in 1 .. j + 1 : /\ i \in DOMAIN rows
                              /\ \A part : RowAmount(rows[i], part) \in Nat
    BY <2>1, RowShape
  <2>3. QED
    BY <2>2, NextRowAdds DEF row
<1>6. /\ \A w : RowsUpTo(rows, j, w) \subseteq RowsUpTo(rows, j + 1, w)
      /\ j + 1 \in RowsUpTo(rows, j + 1, row.pubkey)
  <2>1. 1 .. j \subseteq 1 .. j + 1 /\ j + 1 \in 1 .. j + 1
    OBVIOUS
  <2>2. QED
    BY <2>1 DEF RowsUpTo
<1>7. 1 .. j + 1 = (1 .. j) \cup {j + 1}
  OBVIOUS
<1> HIDE DEF Granted, row, node
<1>8. CASE Names(node, nodes)
  <2>1. /\ IsList(c)
        /\ Len(c) = len
        /\ \A n \in 1 .. len :
              c[n] = IF nodes[n].claimant = node.claimant
                       THEN Merged(nodes[n], node) ELSE nodes[n]
    BY <1>3, <1>8, CombinedMerges
  <2> HIDE DEF c
  <2>2. \A n \in 1 .. len : /\ c[n] \in TreeNodeType
                            /\ c[n].claimant = nodes[n].claimant
    BY <1>2, <1>3, <2>1, MergedShape
  <2>3. ASSUME NEW n \in 1 .. len, NEW part \in Part
        PROVE  SumFunction(Total(c[n], part)) = Granted(j + 1, c[n].claimant, part)
    <3>1. CASE nodes[n].claimant = node.claimant
      <4>1. SumFunction(Total(c[n], part))
              = SumFunction(Total(nodes[n], part)) + SumFunction(Total(node, part))
        BY <1>2, <1>3, <2>1, <3>1, MergedShape
      <4>2. Granted(j + 1, c[n].claimant, part)
              = Granted(j, nodes[n].claimant, part) + RowAmount(row, part)
        BY <1>2, <1>5, <2>2, <3>1
      <4>3. QED
        BY <1>2, <1>3, <4>1, <4>2
    <3>2. CASE nodes[n].claimant # node.claimant
      <4>1. c[n] = nodes[n]
        BY <2>1, <3>2
      <4>2. Granted(j + 1, c[n].claimant, part) = Granted(j, nodes[n].claimant, part)
        BY <1>2, <1>5, <3>2, <4>1
      <4>3. QED
        BY <1>3, <4>1, <4>2
    <3>3. QED
      BY <3>1, <3>2
  <2>4. \A m, n \in 1 .. len : m # n => c[m].claimant # c[n].claimant
    BY <1>3, <2>2
  <2>5. \A n \in 1 .. len : RowsUpTo(rows, j + 1, c[n].claimant) # {}
    BY <1>3, <1>6, <2>2
  <2>6. ASSUME NEW i \in 1 .. j + 1
        PROVE  \E n \in 1 .. len : c[n].claimant = rows[i].pubkey
    <3>1. CASE i \in 1 .. j
      BY <1>3, <2>2, <3>1
    <3>2. CASE i = j + 1
      <4>1. PICK n \in 1 .. len : nodes[n].claimant = node.claimant
        BY <1>4, <1>8 DEF Names
      <4>2. QED
        BY <1>2, <2>2, <3>2, <4>1 DEF row
    <3>3. QED
      BY <1>7, <3>1, <3>2
  <2>7. len <= j + 1
    BY <1>3, <1>4
  <2>8. NodesAfter(c, rows, j + 1)
    BY <2>1, <2>2, <2>3, <2>4, <2>5, <2>6, <2>7 DEF NodesAfter, Granted
  <2>9. QED
    BY <2>8 DEF c, node, row
<1>9. CASE ~Names(node, nodes)
  <2>1. /\ IsList(c)
        /\ Len(c) = len + 1
        /\ \A n \in 1 .. len : c[n] = nodes[n]
        /\ c[len + 1] = node
    BY <1>3, <1>9, CombinedAppends
  <2>2. 1 .. len + 1 = (1 .. len) \cup {len + 1}
    BY <1>4
  <2>3. \A n \in 1 .. len : nodes[n].claimant # node.claimant
    BY <1>4, <1>9 DEF Names
  <2> HIDE DEF c
  <2>4. \A n \in 1 .. len + 1 : c[n] \in TreeNodeType
    BY <1>2, <1>3, <2>1, <2>2
  <2>5. ASSUME NEW m \in 1 .. len + 1, NEW n \in 1 .. len + 1, m # n
        PROVE  c[m].claimant # c[n].claimant
    <3>1. CASE m \in 1 .. len /\ n \in 1 .. len
      BY <1>3, <2>1, <2>5, <3>1
    <3>2. CASE m \in 1 .. len /\ n = len + 1
      BY <2>1, <2>3, <3>2
    <3>3. CASE n \in 1 .. len /\ m = len + 1
      BY <2>1, <2>3, <3>3
    <3>4. QED
      BY <2>2, <2>5, <3>1, <3>2, <3>3
  <2>6. \A n \in 1 .. len + 1 : RowsUpTo(rows, j + 1, c[n].claimant) # {}
    BY <1>2, <1>3, <1>6, <2>1, <2>2
  <2>7. ASSUME NEW i \in 1 .. j + 1
        PROVE  \E n \in 1 .. len + 1 : c[n].claimant = rows[i].pubkey
    <3>1. CASE i \in 1 .. j
      BY <1>3, <2>1, <2>2, <3>1
    <3>2. CASE i = j + 1
      BY <1>2, <2>1, <2>2, <3>2 DEF row
    <3>3. QED
      BY <1>7, <3>1, <3>2
  <2>8. RowsUpTo(rows, j, row.pubkey) = {}
    <3>1. ASSUME NEW i \in 1 .. j, rows[i].pubkey = row.pubkey PROVE FALSE
      BY <1>2, <1>3, <2>3, <3>1
    <3>2. QED
      BY <3>1 DEF RowsUpTo
  <2>9. ASSUME NEW n \in 1 .. len + 1, NEW part \in Part
        PROVE  SumFunction(Total(c[n], part)) = Granted(j + 1, c[n].claimant, part)
    <3>1. CASE n \in 1 .. len
      <4>1. c[n] = nodes[n] /\ nodes[n].claimant # row.pubkey
        BY <1>2, <2>1, <2>3, <3>1
      <4>2. Granted(j + 1, nodes[n].claimant, part) = Granted(j, nodes[n].claimant, part)
        BY <1>5, <4>1
      <4>3. QED
        BY <1>3, <3>1, <4>1, <4>2
    <3>2. CASE n = len + 1
      <4>1. c[n] = node /\ c[n].claimant = row.pubkey
        BY <1>2, <2>1, <3>2
      <4>2. Granted(j, row.pubkey, part) = 0
        BY <2>8, SumOfNone DEF Granted
      <4>3. Granted(j + 1, row.pubkey, part) = RowAmount(row, part)
        BY <1>2, <1>5, <4>2
      <4>4. QED
        BY <1>2, <4>1, <4>3
    <3>3. QED
      BY <2>2, <3>1, <3>2
  <2>10. len + 1 <= j + 1
    BY <1>3, <1>4
  <2>11. NodesAfter(c, rows, j + 1)
    BY <2>1, <2>4, <2>5, <2>6, <2>7, <2>9, <2>10 DEF NodesAfter, Granted
  <2>12. QED
    BY <2>11 DEF c, node, row
<1>10. QED
  BY <1>8, <1>9

\* The nodes of a CSV are those after its last row.
LEMMA RowsAreCounted ==
    ASSUME NEW rows \in Seq(CsvEntries)
    PROVE  NodesAfter(TreeNodes(rows), rows, Len(rows))
<1> DEFINE m == Len(rows)
           seq == [n \in DOMAIN rows |-> TreeNode(rows[n])]
           none == <<>>
<1>1. m \in Nat /\ DOMAIN rows = 1 .. m
  OBVIOUS
<1>2. DOMAIN seq = 1 .. m /\ \A n \in 1 .. m : seq[n] = TreeNode(rows[n])
  BY <1>1
<1>3. TreeNodes(rows) = FoldLeft(Combined, none, seq)
  BY DEF TreeNodes
<1> HIDE DEF seq, m, none
<1>4. PICK iter : /\ FoldLeft(Combined, none, seq) = iter[1 .. m]
                  /\ Unfolds("row", none, seq, m, iter)
  BY <1>1, <1>2, RowsFold
<1>5. /\ iter[1 .. 0] = none
      /\ \A j \in 1 .. m : iter[1 .. j] = Combined(iter[1 .. (j - 1)], seq[j])
  BY <1>4 DEF Unfolds, Step
<1> DEFINE T == {j \in Nat : j <= m => NodesAfter(iter[1 .. j], rows, j)}
<1>6. 0 \in T
  <2>1. IsList(<<>>) /\ Len(<<>>) = 0
    <3>1. <<>> = [i \in 1 .. 0 |-> <<>>[i]]
      OBVIOUS
    <3>2. QED
      BY <3>1 DEF IsList
  <2>2. NodesAfter(<<>>, rows, 0)
    <3>1. 1 .. 0 = {}
      OBVIOUS
    <3>2. QED
      BY <2>1, <3>1 DEF NodesAfter
  <2>3. QED
    BY <1>5, <2>2 DEF none
<1>7. ASSUME NEW j \in Nat, j \in T PROVE j + 1 \in T
  <2> SUFFICES ASSUME j + 1 <= m
               PROVE  NodesAfter(iter[1 .. (j + 1)], rows, j + 1)
    OBVIOUS
  <2>1. j <= m /\ j + 1 \in 1 .. m /\ (j + 1) - 1 = j
    BY <1>1
  <2> DEFINE below == iter[1 .. j]
  <2>2. NodesAfter(below, rows, j)
    BY <1>7, <2>1
  <2>3. iter[1 .. (j + 1)] = Combined(iter[1 .. ((j + 1) - 1)], seq[j + 1])
    BY <1>5, <2>1
  <2>4. iter[1 .. (j + 1)] = Combined(below, TreeNode(rows[j + 1]))
    BY <1>2, <2>1, <2>3
  <2> HIDE DEF below
  <2>5. NodesAfter(Combined(below, TreeNode(rows[j + 1])), rows, j + 1)
    BY <2>2, RowIsCounted DEF m
  <2>6. QED
    BY <2>4, <2>5
<1> HIDE DEF T
<1>8. m \in T
  BY <1>1, <1>6, <1>7, NaturalInduction
<1>9. NodesAfter(iter[1 .. m], rows, m)
  BY <1>1, <1>8 DEF T
<1>10. QED
  BY <1>3, <1>4, <1>9 DEF m

\* GrantedUnlocked and GrantedLocked are sums of a function on rows.
LEMMA GrantsAreSums ==
    ASSUME NEW rows \in Seq(CsvEntries), NEW w
    PROVE  /\ GrantedUnlocked(rows, w)
                = SumFunctionOnSet(Amounts(rows, "unlocked"),
                                   RowsUpTo(rows, Len(rows), w))
           /\ GrantedLocked(rows, w)
                = SumFunctionOnSet(Amounts(rows, "locked"),
                                   RowsUpTo(rows, Len(rows), w))
<1> DEFINE S == RowsUpTo(rows, Len(rows), w)
           u == Amounts(rows, "unlocked")
           l == Amounts(rows, "locked")
<1>1. S \subseteq DOMAIN rows /\ IsFiniteSet(S) /\ S = RowsOf(rows, w)
  <2>1. DOMAIN rows = 1 .. Len(rows) /\ Len(rows) \in Nat
    OBVIOUS
  <2>2. IsFiniteSet(S)
    BY <2>1, RowsUpToGrows DEF RowsUpToStep
  <2>3. S \subseteq DOMAIN rows /\ S = RowsOf(rows, w)
    BY <2>1 DEF RowsUpTo, RowsOf
  <2>4. QED
    BY <2>2, <2>3
<1>2. \A i \in DOMAIN rows :
         /\ u[i] = TokenAmount(rows[i].amount_unlocked)
         /\ l[i] = TokenAmount(rows[i].amount_locked)
  BY DEF Amounts, RowAmount
<1>3. \A s \in SUBSET S : s # {} => First(s) \in DOMAIN rows
  BY <1>1, FirstIsElement
<1> HIDE DEF S, u, l
<1> DEFINE IsU(iter) ==
      iter = [s \in SUBSET S |->
                IF s = {} THEN 0
                ELSE TokenAmount(rows[First(s)].amount_unlocked)
                       + iter[s \ {First(s)}]]
           IsL(iter) ==
      iter = [s \in SUBSET S |->
                IF s = {} THEN 0
                ELSE TokenAmount(rows[First(s)].amount_locked)
                       + iter[s \ {First(s)}]]
<1>4. \A iter : IsU(iter) <=> Sums(u, S, iter)
  <2> SUFFICES ASSUME NEW iter PROVE IsU(iter) <=> Sums(u, S, iter)
    OBVIOUS
  <2>1. \A s \in SUBSET S : s # {} =>
           TokenAmount(rows[First(s)].amount_unlocked) = u[First(s)]
    BY <1>2, <1>3
  <2>2. QED
    BY <2>1 DEF Sums
<1>5. \A iter : IsL(iter) <=> Sums(l, S, iter)
  <2> SUFFICES ASSUME NEW iter PROVE IsL(iter) <=> Sums(l, S, iter)
    OBVIOUS
  <2>1. \A s \in SUBSET S : s # {} =>
           TokenAmount(rows[First(s)].amount_locked) = l[First(s)]
    BY <1>2, <1>3
  <2>2. QED
    BY <2>1 DEF Sums
<1>6. GrantedUnlocked(rows, w) = (CHOOSE iter : IsU(iter))[S]
  BY <1>1 DEF GrantedUnlocked, MapThenSumSet, MapThenFoldSet, First
<1>7. GrantedLocked(rows, w) = (CHOOSE iter : IsL(iter))[S]
  BY <1>1 DEF GrantedLocked, MapThenSumSet, MapThenFoldSet, First
<1> HIDE DEF IsU, IsL
<1>8. Sums(u, S, CHOOSE iter : IsU(iter)) /\ Sums(l, S, CHOOSE iter : IsL(iter))
  BY <1>1, <1>4, <1>5, SumsExist
<1>9. /\ GrantedUnlocked(rows, w) = SumFunctionOnSet(u, S)
      /\ GrantedLocked(rows, w) = SumFunctionOnSet(l, S)
  BY <1>1, <1>6, <1>7, <1>8, SumOfIteration
<1>10. QED
  BY <1>9 DEF S, u, l

\* The rows that a node stands for, and what it grants.
LEMMA NodesShape ==
    ASSUME NEW rows \in Seq(CsvEntries), NEW nodes, nodes = TreeNodes(rows)
    PROVE  /\ IsList(nodes)
           /\ Len(nodes) \in Nat
           /\ DOMAIN nodes = 1 .. Len(nodes)
           /\ Len(nodes) <= Len(rows)
           /\ \A n \in 1 .. Len(nodes) :
                 /\ nodes[n] \in TreeNodeType
                 /\ AmountUnlocked(nodes[n])
                      = GrantedUnlocked(rows, nodes[n].claimant)
                 /\ AmountLocked(nodes[n])
                      = GrantedLocked(rows, nodes[n].claimant)
           /\ \A m, n \in 1 .. Len(nodes) :
                 nodes[m].claimant = nodes[n].claimant => m = n
           /\ {nodes[n].claimant : n \in 1 .. Len(nodes)} = ClaimantsOf(rows)
<1>1. NodesAfter(nodes, rows, Len(rows))
  BY RowsAreCounted
<1>2. /\ IsList(nodes)
      /\ Len(nodes) \in Nat
      /\ DOMAIN nodes = 1 .. Len(nodes)
      /\ Len(nodes) <= Len(rows)
      /\ \A n \in 1 .. Len(nodes) : nodes[n] \in TreeNodeType
      /\ \A m, n \in 1 .. Len(nodes) :
            nodes[m].claimant = nodes[n].claimant => m = n
  BY <1>1, ListsAreSequences DEF NodesAfter
<1>3. ASSUME NEW n \in 1 .. Len(nodes)
      PROVE  /\ AmountUnlocked(nodes[n]) = GrantedUnlocked(rows, nodes[n].claimant)
             /\ AmountLocked(nodes[n]) = GrantedLocked(rows, nodes[n].claimant)
  <2> DEFINE node == nodes[n]
  <2>1. \A part \in Part :
           SumFunction(Total(node, part))
             = SumFunctionOnSet(Amounts(rows, part),
                                RowsUpTo(rows, Len(rows), node.claimant))
    BY <1>1 DEF NodesAfter
  <2>2. node \in TreeNodeType
    BY <1>2
  <2> HIDE DEF node
  <2>3. "unlocked" \in Part /\ "locked" \in Part
    BY DEF Part
  <2>4. /\ AmountUnlocked(node) = SumFunction(Total(node, "unlocked"))
        /\ AmountLocked(node) = SumFunction(Total(node, "locked"))
    BY <2>2, TotalsAreNatural
  <2>5. /\ AmountUnlocked(node) = GrantedUnlocked(rows, node.claimant)
        /\ AmountLocked(node) = GrantedLocked(rows, node.claimant)
    BY <2>1, <2>3, <2>4, GrantsAreSums
  <2>6. QED
    BY <2>5 DEF node
<1>4. {nodes[n].claimant : n \in 1 .. Len(nodes)} = ClaimantsOf(rows)
  <2>1. DOMAIN rows = 1 .. Len(rows)
    OBVIOUS
  <2>2. ASSUME NEW n \in 1 .. Len(nodes)
        PROVE  nodes[n].claimant \in ClaimantsOf(rows)
    <3>1. PICK i \in 1 .. Len(rows) : rows[i].pubkey = nodes[n].claimant
      BY <1>1 DEF NodesAfter, RowsUpTo
    <3>2. QED
      BY <2>1, <3>1 DEF ClaimantsOf
  <2>3. ASSUME NEW w \in ClaimantsOf(rows)
        PROVE  \E n \in 1 .. Len(nodes) : nodes[n].claimant = w
    BY <1>1, <2>1 DEF NodesAfter, ClaimantsOf
  <2>4. QED
    BY <2>2, <2>3
<1>5. QED
  BY <1>2, <1>3, <1>4

------------------------------------------------------------------------------
(* The tree of some rows.                                                  *)

Items(nodes) == [n \in DOMAIN nodes |-> NodeHash(Leaf(nodes[n]))]

LeavesOf(nodes) == {Leaf(nodes[n]) : n \in 1 .. Len(nodes)}

\* Leaves that are hashed from the same data are the same.
LEMMA NodeHashIsInjective ==
    ASSUME NEW claim, NEW node, NodeHash(claim) = NodeHash(Leaf(node))
    PROVE  /\ claim.claimant = Leaf(node).claimant
           /\ claim.amount_unlocked = Leaf(node).amount_unlocked
           /\ claim.amount_locked = Leaf(node).amount_locked
BY DEF NodeHash

\* The tree of some nodes is made of levels above their hashes.
LEMMA HashTreeShape ==
    ASSUME NEW nodes, IsList(nodes)
    PROVE  /\ IsList(Items(nodes))
           /\ Len(Items(nodes)) = Len(nodes)
           /\ \A n \in 1 .. Len(nodes) :
                 Items(nodes)[n] = NodeHash(Leaf(nodes[n]))
           /\ Range(Items(nodes))
                = {NodeHash(Leaf(nodes[n])) : n \in 1 .. Len(nodes)}
           /\ HashTree(nodes) = Tree(Items(nodes))
           /\ Len(HashTree(nodes)) \in Nat
           /\ HasRoot(HashTree(nodes)) <=> Len(nodes) > 0
           /\ Len(nodes) > 0 =>
                 /\ Len(HashTree(nodes)) - 1 \in Nat
                 /\ GetRoot(HashTree(nodes))
                      \in Range(Levels(Items(nodes))[Len(HashTree(nodes)) - 1])
<1> DEFINE items == Items(nodes)
           tree == Tree(items)
<1>1. Len(nodes) \in Nat /\ DOMAIN nodes = 1 .. Len(nodes)
  BY ListsAreSequences
<1>2. /\ items = [n \in 1 .. Len(nodes) |-> items[n]]
      /\ \A n \in 1 .. Len(nodes) : items[n] = NodeHash(Leaf(nodes[n]))
  BY <1>1 DEF Items
<1>3. HashTree(nodes) = tree
  BY DEF HashTree, Items
<1> HIDE DEF items
<1>4. IsList(items) /\ Len(items) = Len(nodes) /\ DOMAIN items = 1 .. Len(nodes)
  BY <1>1, <1>2, ListShape
<1>5. Range(items) = {NodeHash(Leaf(nodes[n])) : n \in 1 .. Len(nodes)}
  BY <1>2, <1>4 DEF Range
<1>6. PICK c \in Nat :
             /\ tree = [i \in 1 .. c |-> Levels(items)[i - 1]]
             /\ Len(tree) = c
             /\ c = 0 <=> Len(items) = 0
             /\ c > 0 => Len(Levels(items)[c - 1]) = 1
  BY <1>4, TreeShape
<1>7. HasRoot(tree) <=> Len(nodes) > 0
  <2> HIDE DEF tree
  <2>1. IsList(tree)
    <3>1. tree = [i \in 1 .. c |-> tree[i]]
      BY <1>6
    <3>2. QED
      BY <3>1 DEF IsList
  <2>2. tree = <<>> <=> c = 0
    BY <1>6, <2>1, EmptyList
  <2>3. QED
    BY <1>1, <1>4, <1>6, <2>2 DEF HasRoot
<1>8. ASSUME Len(nodes) > 0
      PROVE  /\ c - 1 \in Nat
             /\ GetRoot(tree) \in Range(Levels(items)[c - 1])
  <2> HIDE DEF tree
  <2>1. c > 0 /\ c - 1 \in Nat
    BY <1>1, <1>4, <1>6, <1>8
  <2>2. GetRoot(tree) = Levels(items)[c - 1][1]
    BY <1>6, <2>1 DEF GetRoot, Last
  <2>3. DOMAIN Levels(items)[c - 1] = 1 .. 1
    BY <1>4, <1>6, <2>1, LevelsShape, ListsAreSequences
  <2>4. QED
    BY <2>1, <2>2, <2>3 DEF Range
<1> HIDE DEF tree
<1>9. Len(tree) \in Nat /\ Len(tree) = c
  BY <1>6
<1>10. Len(nodes) > 0 =>
         /\ Len(tree) - 1 \in Nat
         /\ GetRoot(tree) \in Range(Levels(items)[Len(tree) - 1])
  BY <1>8, <1>9
<1>11. \A n \in 1 .. Len(nodes) : items[n] = NodeHash(Leaf(nodes[n]))
  BY <1>2
<1>12. tree = Tree(items)
  BY DEF tree
<1>13. QED
  BY <1>3, <1>4, <1>5, <1>7, <1>9, <1>10, <1>11, <1>12 DEF items

\* A proof of any length is of a claim that is a leaf.
LEMMA RootCommits ==
    ASSUME NEW nodes, IsList(nodes), Len(nodes) > 0, NEW claim, NEW proof,
           NEW m \in Nat, DOMAIN proof = 1 .. m,
           Verify(proof, GetRoot(HashTree(nodes)), HashLeaf(NodeHash(claim)))
    PROVE  \E n \in 1 .. Len(nodes) :
              /\ claim.claimant = Leaf(nodes[n]).claimant
              /\ claim.amount_unlocked = Leaf(nodes[n]).amount_unlocked
              /\ claim.amount_locked = Leaf(nodes[n]).amount_locked
<1> DEFINE items == Items(nodes)
           k == Len(HashTree(nodes)) - 1
<1>1. /\ IsList(items)
      /\ k \in Nat
      /\ GetRoot(HashTree(nodes)) \in Range(Levels(items)[k])
      /\ Range(items) = {NodeHash(Leaf(nodes[n])) : n \in 1 .. Len(nodes)}
  BY HashTreeShape
<1>2. FoldLeft(HashIntermediate, HashLeaf(NodeHash(claim)), proof)
        \in Range(Levels(items)[k])
  BY <1>1 DEF Verify
<1> HIDE DEF items, k
<1>3. NodeHash(claim) \in Range(items)
  BY <1>1, <1>2, ProofCommits
<1>4. PICK n \in 1 .. Len(nodes) : NodeHash(claim) = NodeHash(Leaf(nodes[n]))
  BY <1>1, <1>3
<1>5. QED
  BY <1>4, NodeHashIsInjective

\* What a tree file holds of its nodes.
LEMMA NewTreeShape ==
    ASSUME NEW rows \in Seq(CsvEntries), NEW nodes, nodes = TreeNodes(rows),
           NEW tree, tree = NewTree(rows)
    PROVE  /\ tree.merkle_root = GetRoot(HashTree(nodes))
           /\ tree.max_num_nodes = Len(nodes)
           /\ tree.max_total_claim = MaxTotalClaim(nodes)
           /\ DOMAIN tree.tree_nodes = 1 .. Len(nodes)
           /\ \A n \in 1 .. Len(nodes) :
                 /\ tree.tree_nodes[n].leaf = Leaf(nodes[n])
                 /\ tree.tree_nodes[n].proof = GetProof(HashTree(nodes), n - 1)
           /\ Leaves(tree) = LeavesOf(nodes)
<1>1. DOMAIN nodes = 1 .. Len(nodes)
  BY NodesShape
<1> DEFINE entries == [n \in DOMAIN nodes |->
                         [leaf  |-> Leaf(nodes[n]),
                          proof |-> GetProof(HashTree(nodes), n - 1)]]
<1>2. /\ DOMAIN entries = 1 .. Len(nodes)
      /\ \A n \in 1 .. Len(nodes) :
            /\ entries[n].leaf = Leaf(nodes[n])
            /\ entries[n].proof = GetProof(HashTree(nodes), n - 1)
  BY <1>1
<1>3. /\ tree.merkle_root = GetRoot(HashTree(nodes))
      /\ tree.max_num_nodes = Len(nodes)
      /\ tree.max_total_claim = MaxTotalClaim(nodes)
      /\ tree.tree_nodes = entries
  BY DEF NewTree
<1> HIDE DEF entries
<1>4. Leaves(tree) = LeavesOf(nodes)
  <2>1. Leaves(tree) = {entries[n].leaf : n \in DOMAIN entries}
    BY <1>3 DEF Leaves
  <2>2. QED
    BY <1>2, <2>1 DEF LeavesOf
<1>5. QED
  BY <1>2, <1>3, <1>4

\* The tree of rows that are granted has leaves, all of them proven.
LEMMA LeavesAreProven ==
    ASSUME NEW rows \in Seq(CsvEntries), NEW tree, tree = NewTree(rows)
    PROVE  \A n \in DOMAIN tree.tree_nodes : IsProven(tree, n)
<1> DEFINE nodes == TreeNodes(rows)
<1>1. /\ IsList(nodes)
      /\ DOMAIN tree.tree_nodes = 1 .. Len(nodes)
      /\ tree.merkle_root = GetRoot(HashTree(nodes))
      /\ \A n \in 1 .. Len(nodes) :
            /\ tree.tree_nodes[n].leaf = Leaf(nodes[n])
            /\ tree.tree_nodes[n].proof = GetProof(HashTree(nodes), n - 1)
  BY NodesShape, NewTreeShape
<1> HIDE DEF nodes
<1>2. ASSUME NEW n \in 1 .. Len(nodes) PROVE IsProven(tree, n)
  <2> DEFINE items == Items(nodes)
  <2>1. /\ IsList(items)
        /\ Len(items) = Len(nodes)
        /\ items[n] = NodeHash(Leaf(nodes[n]))
        /\ HashTree(nodes) = Tree(items)
    BY <1>1, HashTreeShape
  <2> HIDE DEF items
  <2>2. Verify(GetProof(Tree(items), n - 1), GetRoot(Tree(items)),
               HashLeaf(items[n]))
    BY <2>1, ProofVerifies
  <2>3. QED
    BY <1>1, <2>1, <2>2 DEF IsProven
<1>3. QED
  BY <1>1, <1>2

------------------------------------------------------------------------------
(* Numbers of leaves and totals.                                           *)

\* The names of n things are as many.
LEMMA CountOfNames ==
    ASSUME NEW m \in Nat, NEW r, \A i, j \in 1 .. m : r[i] = r[j] => i = j
    PROVE  Cardinality({r[i] : i \in 1 .. m}) = m
<1> DEFINE S == {r[i] : i \in 1 .. m}
           f == [i \in 1 .. m |-> r[i]]
<1>1. f \in Bijection(1 .. m, S)
  BY DEF Bijection, Injection, Surjection, IsInjective
<1>2. ExistsBijection(1 .. m, S)
  BY <1>1 DEF ExistsBijection
<1> HIDE DEF S
<1>3. Cardinality(S) = m
  BY <1>2, FS_CountingElements
<1>4. QED
  BY <1>3 DEF S

\* GrantedInTotal is the sum of a function on claimants.
LEMMA TotalIsSum ==
    ASSUME NEW rows, NEW S, S = ClaimantsOf(rows), IsFiniteSet(S),
           NEW fun, fun = [w \in S |-> GrantedUnlocked(rows, w)
                                         + GrantedLocked(rows, w)]
    PROVE  GrantedInTotal(rows) = SumFunctionOnSet(fun, S)
<1> DEFINE Is(iter) ==
      iter = [s \in SUBSET S |->
                IF s = {} THEN 0
                ELSE (GrantedUnlocked(rows, First(s))
                        + GrantedLocked(rows, First(s))) + iter[s \ {First(s)}]]
<1>1. \A s \in SUBSET S : s # {} =>
         fun[First(s)] = GrantedUnlocked(rows, First(s))
                           + GrantedLocked(rows, First(s))
  BY FirstIsElement
<1>2. \A iter : Is(iter) <=> Sums(fun, S, iter)
  BY <1>1 DEF Sums
<1>3. GrantedInTotal(rows) = (CHOOSE iter : Is(iter))[S]
  BY DEF GrantedInTotal, MapThenSumSet, MapThenFoldSet, First
<1> HIDE DEF Is
<1>4. Sums(fun, S, CHOOSE iter : Is(iter))
  BY <1>2, SumsExist
<1>5. QED
  BY <1>3, <1>4, SumOfIteration

\* The leaf of a node has its claimant and totals.
LEMMA LeafShape ==
    ASSUME NEW node
    PROVE  /\ Leaf(node).claimant = node.claimant
           /\ Leaf(node).amount_unlocked = AmountUnlocked(node)
           /\ Leaf(node).amount_locked = AmountLocked(node)
BY DEF Leaf

\* The caps of a tree: the number of its leaves, and the sum of what they grant.
LEMMA CapsOfLeaves ==
    ASSUME NEW rows \in Seq(CsvEntries), NEW nodes, nodes = TreeNodes(rows),
           NEW fun, \A leaf \in LeavesOf(nodes) :
                       fun[leaf] = leaf.amount_unlocked + leaf.amount_locked
    PROVE  /\ Len(nodes) = Cardinality(LeavesOf(nodes))
           /\ MaxTotalClaim(nodes) = SumFunctionOnSet(fun, LeavesOf(nodes))
<1> DEFINE m == Len(nodes)
           r == [n \in 1 .. m |-> Leaf(nodes[n])]
           g == [n \in DOMAIN nodes |-> TotalAmount(nodes[n])]
<1>1. /\ m \in Nat
      /\ DOMAIN nodes = 1 .. m
      /\ \A n \in 1 .. m : nodes[n] \in TreeNodeType
      /\ \A i, n \in 1 .. m : nodes[i].claimant = nodes[n].claimant => i = n
  BY NodesShape
<1>2. LeavesOf(nodes) = {r[n] : n \in 1 .. m}
  BY DEF LeavesOf
<1>3. ASSUME NEW i \in 1 .. m, NEW n \in 1 .. m, r[i] = r[n] PROVE i = n
  <2>1. Leaf(nodes[i]) = Leaf(nodes[n])
    BY <1>3
  <2>2. nodes[i].claimant = nodes[n].claimant
    BY <2>1, LeafShape
  <2>3. QED
    BY <1>1, <2>2
<1>4. ASSUME NEW n \in 1 .. m PROVE fun[r[n]] \in Int /\ g[n] = fun[r[n]]
  <2>1. r[n] = Leaf(nodes[n]) /\ g[n] = TotalAmount(nodes[n])
    BY <1>1
  <2>2. fun[Leaf(nodes[n])] = Leaf(nodes[n]).amount_unlocked
                                + Leaf(nodes[n]).amount_locked
    BY DEF LeavesOf
  <2>3. fun[Leaf(nodes[n])] = TotalAmount(nodes[n])
    BY <2>2, LeafShape DEF TotalAmount
  <2>4. TotalAmount(nodes[n]) \in Nat
    BY <1>1, TotalsAreNatural
  <2>5. QED
    BY <2>1, <2>3, <2>4
<1>5. MaxTotalClaim(nodes) = SumFunctionOnSet(g, 1 .. m)
  BY <1>1 DEF MaxTotalClaim, SumFunction
<1> HIDE DEF m, r, g
<1>6. Cardinality({r[n] : n \in 1 .. m}) = m
  BY <1>1, <1>3, CountOfNames
<1>7. SumFunctionOnSet(g, 1 .. m) = SumFunctionOnSet(fun, {r[n] : n \in 1 .. m})
  <2> DEFINE I == 1 .. m
  <2>1. /\ IsFiniteSet(I)
        /\ \A i, j \in I : r[i] = r[j] => i = j
        /\ \A i \in I : fun[r[i]] \in Int /\ g[i] = fun[r[i]]
    BY <1>1, <1>3, <1>4, FS_Interval
  <2> HIDE DEF I
  <2>2. SumFunctionOnSet(g, I) = SumFunctionOnSet(fun, {r[i] : i \in I})
    BY <2>1, SumRenamed
  <2>3. QED
    BY <2>2 DEF I
<1>8. QED
  BY <1>2, <1>5, <1>6, <1>7 DEF m

\* The same caps, from the rows.
LEMMA CapsOfRows ==
    ASSUME NEW rows \in Seq(CsvEntries), NEW nodes, nodes = TreeNodes(rows)
    PROVE  /\ IsFiniteSet(ClaimantsOf(rows))
           /\ Len(nodes) = Cardinality(ClaimantsOf(rows))
           /\ MaxTotalClaim(nodes) = GrantedInTotal(rows)
<1> DEFINE m == Len(nodes)
           S == ClaimantsOf(rows)
           r == [n \in 1 .. m |-> nodes[n].claimant]
           g == [n \in DOMAIN nodes |-> TotalAmount(nodes[n])]
           fun == [w \in S |-> GrantedUnlocked(rows, w) + GrantedLocked(rows, w)]
<1>1. /\ m \in Nat
      /\ DOMAIN nodes = 1 .. m
      /\ \A n \in 1 .. m :
            /\ nodes[n] \in TreeNodeType
            /\ AmountUnlocked(nodes[n]) = GrantedUnlocked(rows, nodes[n].claimant)
            /\ AmountLocked(nodes[n]) = GrantedLocked(rows, nodes[n].claimant)
      /\ \A i, n \in 1 .. m : nodes[i].claimant = nodes[n].claimant => i = n
      /\ {nodes[n].claimant : n \in 1 .. m} = S
  BY NodesShape
<1>2. S = {r[n] : n \in 1 .. m}
  BY <1>1
<1>3. \A i, n \in 1 .. m : r[i] = r[n] => i = n
  BY <1>1
<1>4. ASSUME NEW n \in 1 .. m PROVE fun[r[n]] \in Int /\ g[n] = fun[r[n]]
  <2>1. r[n] = nodes[n].claimant /\ g[n] = TotalAmount(nodes[n]) /\ r[n] \in S
    BY <1>1
  <2>2. fun[r[n]] = AmountUnlocked(nodes[n]) + AmountLocked(nodes[n])
    BY <1>1, <2>1
  <2>3. TotalAmount(nodes[n]) \in Nat
    BY <1>1, TotalsAreNatural
  <2>4. QED
    BY <2>1, <2>2, <2>3 DEF TotalAmount
<1>5. MaxTotalClaim(nodes) = SumFunctionOnSet(g, 1 .. m)
  BY <1>1 DEF MaxTotalClaim, SumFunction
<1>6. IsFiniteSet(S)
  <2>1. r \in Surjection(1 .. m, S)
    BY <1>1, <1>2 DEF Surjection
  <2>2. IsFiniteSet(1 .. m)
    BY <1>1, FS_Interval
  <2> HIDE DEF r, m, S
  <2>3. QED
    BY <2>1, <2>2, FS_Surjection
<1> HIDE DEF m, r, g, S
<1>7. Cardinality({r[n] : n \in 1 .. m}) = m
  <2>1. m \in Nat /\ \A i, j \in 1 .. m : r[i] = r[j] => i = j
    BY <1>1, <1>3
  <2> HIDE DEF fun
  <2>2. QED
    BY <2>1, CountOfNames
<1>8. SumFunctionOnSet(g, 1 .. m) = SumFunctionOnSet(fun, {r[n] : n \in 1 .. m})
  <2> DEFINE I == 1 .. m
  <2>1. /\ IsFiniteSet(I)
        /\ \A i, j \in I : r[i] = r[j] => i = j
        /\ \A i \in I : fun[r[i]] \in Int /\ g[i] = fun[r[i]]
    BY <1>1, <1>3, <1>4, FS_Interval
  <2> HIDE DEF I, fun
  <2>2. SumFunctionOnSet(g, I) = SumFunctionOnSet(fun, {r[i] : i \in I})
    BY <2>1, SumRenamed
  <2>3. QED
    BY <2>2 DEF I
<1>9. GrantedInTotal(rows) = SumFunctionOnSet(fun, S)
  BY <1>6, TotalIsSum DEF S
<1>10. QED
  BY <1>2, <1>5, <1>6, <1>7, <1>8, <1>9 DEF m, S

------------------------------------------------------------------------------
(* What makes new_from_csv fail.                                           *)

\* A CSV has nodes unless it is empty.
LEMMA FirstRowMakesANode ==
    ASSUME NEW rows \in Seq(CsvEntries)
    PROVE  Len(TreeNodes(rows)) > 0 <=> rows # <<>>
<1> DEFINE nodes == TreeNodes(rows)
<1>1. /\ Len(nodes) \in Nat
      /\ Len(nodes) <= Len(rows)
      /\ {nodes[n].claimant : n \in 1 .. Len(nodes)} = ClaimantsOf(rows)
  BY NodesShape
<1> HIDE DEF nodes
<1>2. CASE rows = <<>>
  <2>1. Len(rows) = 0
    BY <1>2
  <2>2. QED
    BY <1>1, <1>2, <2>1 DEF nodes
<1>3. CASE rows # <<>>
  <2>1. 1 \in DOMAIN rows
    BY <1>3
  <2>2. rows[1].pubkey \in ClaimantsOf(rows)
    BY <2>1 DEF ClaimantsOf
  <2>3. PICK n \in 1 .. Len(nodes) : nodes[n].claimant = rows[1].pubkey
    BY <1>1, <2>2
  <2>4. QED
    BY <1>1, <1>3, <2>3 DEF nodes
<1>4. QED
  BY <1>2, <1>3

\* A total that fits its word is the sum of amounts that fit theirs.
LEMMA TotalBoundsAll ==
    ASSUME NEW rows \in Seq(CsvEntries), NEW nodes, nodes = TreeNodes(rows)
    PROVE  NoOverflow(nodes) <=> MaxTotalClaim(nodes) \in U64
<1> SUFFICES ASSUME MaxTotalClaim(nodes) \in U64 PROVE NoOverflow(nodes)
  BY DEF NoOverflow
<1> DEFINE m == Len(nodes)
           g == [n \in DOMAIN nodes |-> TotalAmount(nodes[n])]
<1>1. /\ m \in Nat
      /\ DOMAIN nodes = 1 .. m
      /\ \A n \in 1 .. m : nodes[n] \in TreeNodeType
  BY NodesShape
<1>2. \A n \in 1 .. m : g[n] = TotalAmount(nodes[n]) /\ g[n] \in Nat
  BY <1>1, TotalsAreNatural
<1>3. MaxTotalClaim(nodes) = SumFunctionOnSet(g, 1 .. m)
  BY <1>1 DEF MaxTotalClaim, SumFunction
<1> HIDE DEF m, g
<1>4. MaxU64 \in Nat
  BY TreeAssumption
<1>5. ASSUME NEW n \in 1 .. m
      PROVE  /\ \A c \in Category : /\ nodes[n].total_unlocked[c] \in U64
                                    /\ nodes[n].total_locked[c] \in U64
             /\ AmountUnlocked(nodes[n]) \in U64
             /\ AmountLocked(nodes[n]) \in U64
             /\ TotalAmount(nodes[n]) \in U64
  <2> DEFINE node == nodes[n]
  <2>1. node \in TreeNodeType
    BY <1>1
  <2>2. g[n] <= MaxTotalClaim(nodes)
    <3> DEFINE I == 1 .. m
    <3>1. /\ IsFiniteSet(I)
          /\ n \in I
          /\ \A i \in I : g[i] \in Nat
          /\ MaxTotalClaim(nodes) = SumFunctionOnSet(g, I)
      BY <1>1, <1>2, <1>3, FS_Interval
    <3> HIDE DEF I
    <3>2. g[n] <= SumFunctionOnSet(g, I)
      BY <3>1, SumBoundsItsParts
    <3>3. QED
      BY <3>1, <3>2
  <2>3. TotalAmount(node) = g[n] /\ TotalAmount(node) \in Nat
    BY <1>2
  <2> HIDE DEF node
  <2>4. TotalAmount(node) \in U64
    BY <1>4, <2>2, <2>3 DEF U64
  <2>5. AmountUnlocked(node) \in Nat /\ AmountLocked(node) \in Nat
    BY <2>1, TotalsAreNatural
  <2>6. AmountUnlocked(node) \in U64 /\ AmountLocked(node) \in U64
    BY <1>4, <2>4, <2>5 DEF U64, TotalAmount
  <2>7. /\ node.total_unlocked \in [Category -> Nat]
        /\ node.total_locked \in [Category -> Nat]
    BY <2>1 DEF TreeNodeType
  <2>8. ASSUME NEW f \in [Category -> Nat], NEW c \in Category,
               SumFunction(f) \in U64
        PROVE  f[c] \in U64
    <3>1. f[c] <= SumFunction(f) /\ f[c] \in Nat
      BY CategoriesAreFinite, SumBoundsItsParts DEF SumFunction
    <3>2. QED
      BY <1>4, <2>8, <3>1 DEF U64
  <2>9. \A c \in Category : /\ node.total_unlocked[c] \in U64
                            /\ node.total_locked[c] \in U64
    BY <2>6, <2>7, <2>8 DEF AmountUnlocked, AmountLocked
  <2>10. QED
    BY <2>4, <2>6, <2>9 DEF node
<1>6. QED
  BY <1>1, <1>5 DEF NoOverflow

\* It fails on nothing else: its own proofs always verify.
LEMMA OnlyOversizedFails ==
    ASSUME NEW rows \in Seq(CsvEntries)
    PROVE  NewTreeIsOk(rows) <=> /\ rows # <<>>
                                 /\ GrantedInTotal(rows) \in U64
                                 /\ Cardinality(ClaimantsOf(rows)) <= MaxTreeNodes
<1> DEFINE nodes == TreeNodes(rows)
           tree == NewTree(rows)
<1>1. NoOverflow(nodes) <=> GrantedInTotal(rows) \in U64
  BY TotalBoundsAll, CapsOfRows
<1>2. HasRoot(HashTree(nodes)) <=> rows # <<>>
  <2>1. IsList(nodes)
    BY NodesShape
  <2>2. HasRoot(HashTree(nodes)) <=> Len(nodes) > 0
    BY <2>1, HashTreeShape
  <2>3. QED
    BY <2>2, FirstRowMakesANode
<1>3. IsValid(tree) <=> Cardinality(ClaimantsOf(rows)) <= MaxTreeNodes
  <2>1. tree.max_num_nodes = Cardinality(ClaimantsOf(rows))
    BY NewTreeShape, CapsOfRows
  <2>2. \A n \in DOMAIN tree.tree_nodes : IsProven(tree, n)
    BY LeavesAreProven
  <2>3. \A i, n \in DOMAIN tree.tree_nodes : i # n =>
           tree.tree_nodes[i].leaf.claimant # tree.tree_nodes[n].leaf.claimant
    <3>1. /\ DOMAIN tree.tree_nodes = 1 .. Len(nodes)
          /\ \A n \in 1 .. Len(nodes) : tree.tree_nodes[n].leaf = Leaf(nodes[n])
      BY NewTreeShape
    <3>2. \A i, n \in 1 .. Len(nodes) :
             nodes[i].claimant = nodes[n].claimant => i = n
      BY NodesShape
    <3> HIDE DEF nodes, tree
    <3>3. QED
      BY <3>1, <3>2, LeafShape
  <2> HIDE DEF tree
  <2>4. QED
    BY <2>1, <2>2, <2>3 DEF IsValid
<1>4. NewTreeIsOk(rows) <=> /\ NoOverflow(nodes)
                            /\ HasRoot(HashTree(nodes))
                            /\ IsValid(tree)
  BY DEF NewTreeIsOk
<1>5. QED
  BY <1>1, <1>2, <1>3, <1>4

------------------------------------------------------------------------------
(* The file.                                                               *)

\* A file that is there is the tree of rows that new_from_csv accepted.
FileOf(rows) ==
    /\ Len(rows) <= MaxRows
    /\ NewTreeIsOk(rows)
    /\ file = NewTree(rows)

\* The inductive invariant.
TreeInv ==
    /\ csv \in Seq(CsvEntries)
    /\ Len(csv) <= MaxRows
    /\ file # NoFile => \E rows \in Seq(CsvEntries) : FileOf(rows)

\* TreeInv is true at first and kept by every step.
LEMMA TreeInvariant == Spec => []TreeInv
<1>1. Init => TreeInv
  <2>1. <<>> \in Seq(CsvEntries) /\ Len(<<>>) = 0 /\ 0 <= MaxRows
    BY TreeAssumption
  <2>2. QED
    BY <2>1 DEF Init, TreeInv
<1>2. TreeInv /\ [Next]_vars => TreeInv'
  <2> SUFFICES ASSUME TreeInv, [Next]_vars PROVE TreeInv'
    OBVIOUS
  <2>1. MaxRows \in Nat /\ csv \in Seq(CsvEntries) /\ Len(csv) <= MaxRows
    BY TreeAssumption DEF TreeInv
  <2>2. ASSUME UNCHANGED file
        PROVE  (file # NoFile => \E rows \in Seq(CsvEntries) : FileOf(rows))'
    BY <2>2 DEF TreeInv, FileOf
  <2>3. ASSUME NEW entry \in CsvEntries, AddRow(entry) PROVE TreeInv'
    <3>1. csv' \in Seq(CsvEntries) /\ Len(csv') <= MaxRows
      BY <2>1, <2>3 DEF AddRow
    <3>2. QED
      BY <2>2, <2>3, <3>1 DEF AddRow, TreeInv
  <2>4. ASSUME NEW n \in DOMAIN csv, DropRow(n) PROVE TreeInv'
    <3>1. n \in 1 .. Len(csv) /\ Len(csv) \in Nat
      BY <2>1
    <3> DEFINE before == SubSeq(csv, 1, n - 1)
               after == SubSeq(csv, n + 1, Len(csv))
    <3>2. before \in Seq(CsvEntries) /\ Len(before) = n - 1
      BY <2>1, <3>1
    <3>3. after \in Seq(CsvEntries) /\ Len(after) = Len(csv) - n
      BY <2>1, <3>1
    <3>4. csv' = before \o after
      BY <2>4 DEF DropRow, RemoveAt
    <3> HIDE DEF before, after
    <3>5. /\ before \o after \in Seq(CsvEntries)
          /\ Len(before \o after) = Len(before) + Len(after)
      BY <3>2, <3>3, ConcatProperties
    <3>6. Len(csv') <= MaxRows
      BY <2>1, <3>1, <3>2, <3>3, <3>4, <3>5
    <3>7. QED
      BY <2>2, <2>4, <3>4, <3>5, <3>6 DEF DropRow, TreeInv
  <2>5. CASE CreateMerkleTree
    <3>1. FileOf(csv)'
      BY <2>1, <2>5 DEF CreateMerkleTree, FileOf
    <3>2. QED
      BY <2>1, <2>5, <3>1 DEF CreateMerkleTree, TreeInv
  <2>6. CASE UNCHANGED vars
    BY <2>1, <2>2, <2>6 DEF vars, TreeInv
  <2>7. QED
    BY <2>3, <2>4, <2>5, <2>6 DEF Next
<1>3. QED
  BY <1>1, <1>2, PTL DEF Spec

\* What is known of the nodes a file was made of.
LEMMA FileShape ==
    ASSUME NEW rows \in Seq(CsvEntries), FileOf(rows), NEW nodes,
           nodes = TreeNodes(rows)
    PROVE  /\ IsList(nodes)
           /\ Len(nodes) \in 1 .. MaxRows
           /\ NoOverflow(nodes)
           /\ DOMAIN nodes = 1 .. Len(nodes)
           /\ file.merkle_root = GetRoot(HashTree(nodes))
           /\ file.max_num_nodes = Len(nodes)
           /\ file.max_total_claim = MaxTotalClaim(nodes)
           /\ DOMAIN file.tree_nodes = 1 .. Len(nodes)
           /\ \A n \in 1 .. Len(nodes) : file.tree_nodes[n].leaf = Leaf(nodes[n])
           /\ \A n \in 1 .. Len(nodes) : IsProven(file, n)
           /\ Leaves(file) = LeavesOf(nodes)
<1>1. file = NewTree(rows) /\ NewTreeIsOk(rows) /\ Len(rows) <= MaxRows
  BY DEF FileOf
<1>2. /\ IsList(nodes)
      /\ Len(nodes) \in Nat
      /\ Len(nodes) <= Len(rows)
      /\ DOMAIN nodes = 1 .. Len(nodes)
  BY NodesShape
<1>3. rows # <<>> /\ NoOverflow(nodes)
  BY <1>1, OnlyOversizedFails DEF NewTreeIsOk
<1>4. Len(nodes) > 0
  BY <1>3, FirstRowMakesANode
<1>5. Len(nodes) \in 1 .. MaxRows
  <2>1. MaxRows \in Nat /\ Len(rows) \in Nat
    BY TreeAssumption
  <2>2. QED
    BY <1>1, <1>2, <1>4, <2>1
<1>6. /\ file.merkle_root = GetRoot(HashTree(nodes))
      /\ file.max_num_nodes = Len(nodes)
      /\ file.max_total_claim = MaxTotalClaim(nodes)
      /\ DOMAIN file.tree_nodes = 1 .. Len(nodes)
      /\ \A n \in 1 .. Len(nodes) : file.tree_nodes[n].leaf = Leaf(nodes[n])
      /\ Leaves(file) = LeavesOf(nodes)
  BY <1>1, NewTreeShape
<1>7. \A n \in 1 .. Len(nodes) : IsProven(file, n)
  BY <1>1, <1>6, LeavesAreProven
<1>8. QED
  BY <1>2, <1>3, <1>5, <1>6, <1>7

\* The tree file is the tree of some rows: its caps and amounts fit their
\* words, and it is never empty.
THEOREM TreeTypeCorrect == Spec => []TypeOK
<1>1. TreeInv => TypeOK
  <2> SUFFICES ASSUME TreeInv PROVE TypeOK
    OBVIOUS
  <2>1. ASSUME file # NoFile
        PROVE  /\ file.max_num_nodes \in 1 .. MaxRows
               /\ file.max_total_claim \in U64
               /\ \A leaf \in Leaves(file) : /\ leaf.amount_unlocked \in U64
                                             /\ leaf.amount_locked \in U64
    <3>1. PICK rows \in Seq(CsvEntries) : FileOf(rows)
      BY <2>1 DEF TreeInv
    <3> DEFINE nodes == TreeNodes(rows)
    <3>2. /\ Len(nodes) \in 1 .. MaxRows
          /\ NoOverflow(nodes)
          /\ DOMAIN nodes = 1 .. Len(nodes)
          /\ file.max_num_nodes = Len(nodes)
          /\ file.max_total_claim = MaxTotalClaim(nodes)
          /\ Leaves(file) = LeavesOf(nodes)
      BY <3>1, FileShape
    <3> HIDE DEF nodes
    <3>3. ASSUME NEW leaf \in Leaves(file)
          PROVE  leaf.amount_unlocked \in U64 /\ leaf.amount_locked \in U64
      <4>1. PICK n \in 1 .. Len(nodes) : leaf = Leaf(nodes[n])
        BY <3>2 DEF LeavesOf
      <4>2. QED
        BY <3>2, <4>1, LeafShape DEF NoOverflow
    <3>4. QED
      BY <3>2, <3>3 DEF NoOverflow
  <2>2. QED
    BY <2>1 DEF TreeInv, TypeOK
<1>2. QED
  BY <1>1, TreeInvariant, PTL

\* Whoever has a proof the file's root verifies has a leaf of the file.
LEMMA ProvenIsLeaf ==
    ASSUME TreeInv, file # NoFile, NEW claim,
           claim = [claimant        |-> claim.claimant,
                    amount_unlocked |-> claim.amount_unlocked,
                    amount_locked   |-> claim.amount_locked],
           NEW proof, NEW m \in Nat, DOMAIN proof = 1 .. m,
           Verify(proof, file.merkle_root, HashLeaf(NodeHash(claim)))
    PROVE  claim \in Leaves(file)
<1>1. PICK rows \in Seq(CsvEntries) : FileOf(rows)
  BY DEF TreeInv
<1> DEFINE nodes == TreeNodes(rows)
<1>2. /\ IsList(nodes)
      /\ Len(nodes) > 0
      /\ file.merkle_root = GetRoot(HashTree(nodes))
      /\ Leaves(file) = LeavesOf(nodes)
  BY <1>1, FileShape
<1> HIDE DEF nodes
<1>3. PICK n \in 1 .. Len(nodes) :
         /\ claim.claimant = Leaf(nodes[n]).claimant
         /\ claim.amount_unlocked = Leaf(nodes[n]).amount_unlocked
         /\ claim.amount_locked = Leaf(nodes[n]).amount_locked
  BY <1>2, RootCommits
<1>4. Leaf(nodes[n]) = [claimant        |-> Leaf(nodes[n]).claimant,
                        amount_unlocked |-> Leaf(nodes[n]).amount_unlocked,
                        amount_locked   |-> Leaf(nodes[n]).amount_locked]
  BY DEF Leaf
<1>5. claim = Leaf(nodes[n])
  BY <1>3, <1>4
<1>6. QED
  BY <1>2, <1>5 DEF LeavesOf

\* The leaves of the file have a proof, which is a sequence of hashes.
LEMMA LeafIsProven ==
    ASSUME TreeInv, file # NoFile, NEW claim \in Leaves(file)
    PROVE  \E n \in DOMAIN file.tree_nodes :
              /\ file.tree_nodes[n].leaf = claim
              /\ IsProven(file, n)
              /\ \E m \in Nat : DOMAIN file.tree_nodes[n].proof = 1 .. m
<1>1. PICK rows \in Seq(CsvEntries) : FileOf(rows)
  BY DEF TreeInv
<1> DEFINE nodes == TreeNodes(rows)
<1>2. /\ IsList(nodes)
      /\ DOMAIN file.tree_nodes = 1 .. Len(nodes)
      /\ Len(nodes) > 0
      /\ \A n \in 1 .. Len(nodes) : IsProven(file, n)
  BY <1>1, FileShape
<1>3. \A n \in 1 .. Len(nodes) :
         file.tree_nodes[n].proof = GetProof(HashTree(nodes), n - 1)
  BY <1>1, NewTreeShape DEF FileOf
<1> HIDE DEF nodes
<1>4. Len(HashTree(nodes)) - 1 \in Nat
  BY <1>2, HashTreeShape
<1>5. PICK n \in DOMAIN file.tree_nodes : file.tree_nodes[n].leaf = claim
  BY DEF Leaves
<1>6. n \in 1 .. Len(nodes)
  BY <1>2, <1>5
<1>7. DOMAIN file.tree_nodes[n].proof = 1 .. (Len(HashTree(nodes)) - 1)
  <2>1. file.tree_nodes[n].proof = GetProof(HashTree(nodes), n - 1)
    BY <1>3, <1>6
  <2>2. DOMAIN GetProof(HashTree(nodes), n - 1)
          = 1 .. (Len(HashTree(nodes)) - 1)
    BY DEF GetProof
  <2>3. QED
    BY <2>1, <2>2
<1>8. IsProven(file, n)
  BY <1>2, <1>6
<1>9. \E m \in Nat : DOMAIN file.tree_nodes[n].proof = 1 .. m
  BY <1>4, <1>7
<1>10. QED
  BY <1>5, <1>8, <1>9

\* The root commits to the leaves of the file and to nothing else, for a tree of
\* any size.
THEOREM CommitmentCorrect == Spec => []RootCommitsToItsLeaves
<1>1. TreeInv => RootCommitsToItsLeaves
  <2> SUFFICES ASSUME TreeInv, file # NoFile PROVE RootCommitsToItsLeaves
    BY DEF RootCommitsToItsLeaves
  <2> DEFINE tree == Tree([n \in DOMAIN file.tree_nodes |->
                             NodeHash(file.tree_nodes[n].leaf)])
  <2>1. Len(tree) \in Nat
    <3>1. PICK rows \in Seq(CsvEntries) : FileOf(rows)
      BY DEF TreeInv
    <3> DEFINE nodes == TreeNodes(rows)
    <3>2. /\ IsList(nodes)
          /\ Len(nodes) > 0
          /\ DOMAIN nodes = 1 .. Len(nodes)
          /\ DOMAIN file.tree_nodes = 1 .. Len(nodes)
          /\ \A n \in 1 .. Len(nodes) :
                file.tree_nodes[n].leaf = Leaf(nodes[n])
      BY <3>1, FileShape
    <3> HIDE DEF nodes
    <3>3. [n \in DOMAIN file.tree_nodes |-> NodeHash(file.tree_nodes[n].leaf)]
            = Items(nodes)
      BY <3>2 DEF Items
    <3>4. tree = HashTree(nodes)
      BY <3>2, <3>3, HashTreeShape
    <3> HIDE DEF tree
    <3>5. QED
      BY <3>2, <3>4, HashTreeShape
  <2> HIDE DEF tree
  <2>2. ASSUME NEW claim \in Leaves(file)
        PROVE  \E n \in DOMAIN file.tree_nodes :
                  file.tree_nodes[n].leaf = claim /\ IsProven(file, n)
    BY LeafIsProven
  <2>3. ASSUME NEW claim \in AllClaims(file), NEW proof \in AllProofs(tree),
               Verify(proof, file.merkle_root, HashLeaf(NodeHash(claim)))
        PROVE  claim \in Leaves(file)
    <3>1. PICK m \in 0 .. Len(tree) - 1 : proof \in [1 .. m -> AllHashes(tree)]
      BY <2>3 DEF AllProofs
    <3>2. m \in Nat /\ DOMAIN proof = 1 .. m
      BY <2>1, <3>1
    <3>3. claim = [claimant        |-> claim.claimant,
                   amount_unlocked |-> claim.amount_unlocked,
                   amount_locked   |-> claim.amount_locked]
      BY <2>3 DEF AllClaims
    <3>4. QED
      BY <2>3, <3>2, <3>3, ProvenIsLeaf
  <2>4. QED
    BY <2>2, <2>3 DEF RootCommitsToItsLeaves, tree
<1>2. QED
  BY <1>1, TreeInvariant, PTL

\* What a claimant may send: any wallet, any amounts, any sequence of values as
\* a proof, however long.
ClaimArgs == [claimant        : Wallet,
              amount_unlocked : Nat,
              amount_locked   : Nat]

IsAccepted(proof, claim) ==
    /\ \E m \in Nat : DOMAIN proof = 1 .. m
    /\ Verify(proof, file.merkle_root, HashLeaf(NodeHash(claim)))

\* The on-chain verify accepts some proof of a claim exactly when the claim is a
\* leaf of the file, whatever is sent as a proof: for a program that was given
\* the root of the file, verification is membership.
THEOREM VerifyIsMembership ==
    Spec => [](file # NoFile =>
                 \A claim \in ClaimArgs :
                    (\E proof : IsAccepted(proof, claim))
                      <=> claim \in Leaves(file))
<1> DEFINE RootIsItsLeaves ==
             file # NoFile =>
               \A claim \in ClaimArgs :
                  (\E proof : IsAccepted(proof, claim))
                    <=> claim \in Leaves(file)
<1>1. ASSUME TreeInv PROVE RootIsItsLeaves
  <2> SUFFICES ASSUME file # NoFile, NEW claim \in ClaimArgs
               PROVE  (\E proof : IsAccepted(proof, claim))
                        <=> claim \in Leaves(file)
    OBVIOUS
  <2>1. ASSUME NEW proof, IsAccepted(proof, claim)
        PROVE  claim \in Leaves(file)
    <3>1. PICK m \in Nat : DOMAIN proof = 1 .. m
      BY <2>1 DEF IsAccepted
    <3>2. claim = [claimant        |-> claim.claimant,
                   amount_unlocked |-> claim.amount_unlocked,
                   amount_locked   |-> claim.amount_locked]
      BY DEF ClaimArgs
    <3>3. Verify(proof, file.merkle_root, HashLeaf(NodeHash(claim)))
      BY <2>1 DEF IsAccepted
    <3>4. QED
      BY <1>1, <3>1, <3>2, <3>3, ProvenIsLeaf
  <2>2. ASSUME claim \in Leaves(file)
        PROVE  \E proof : IsAccepted(proof, claim)
    <3>1. PICK n \in DOMAIN file.tree_nodes :
             /\ file.tree_nodes[n].leaf = claim
             /\ IsProven(file, n)
             /\ \E m \in Nat : DOMAIN file.tree_nodes[n].proof = 1 .. m
      BY <1>1, <2>2, LeafIsProven
    <3>2. IsAccepted(file.tree_nodes[n].proof, claim)
      BY <3>1 DEF IsAccepted, IsProven
    <3>3. QED
      BY <3>2
  <2>3. QED
    BY <2>1, <2>2
<1>2. QED
  BY <1>1, TreeInvariant, PTL

\* The leaves of one tree are leaves of another that has its root.
LEMMA RootHoldsLeaves ==
    ASSUME NEW rows \in Seq(CsvEntries), rows # <<>>,
           NEW other \in Seq(CsvEntries), other # <<>>,
           NewTree(rows).merkle_root = NewTree(other).merkle_root
    PROVE  LeavesOf(TreeNodes(rows)) \subseteq LeavesOf(TreeNodes(other))
<1> DEFINE nodes == TreeNodes(rows)
           tree == NewTree(rows)
           others == TreeNodes(other)
<1>1. /\ IsList(nodes) /\ Len(nodes) > 0
      /\ IsList(others) /\ Len(others) > 0
  BY NodesShape, FirstRowMakesANode
<1>2. tree.merkle_root = GetRoot(HashTree(others))
  BY NewTreeShape
<1>3. ASSUME NEW n \in 1 .. Len(nodes) PROVE Leaf(nodes[n]) \in LeavesOf(others)
  <2> DEFINE claim == Leaf(nodes[n])
             proof == GetProof(HashTree(nodes), n - 1)
             m == Len(HashTree(nodes)) - 1
  <2>1. /\ n \in DOMAIN tree.tree_nodes
        /\ tree.tree_nodes[n].leaf = claim
        /\ tree.tree_nodes[n].proof = proof
    BY NewTreeShape
  <2>2. IsProven(tree, n)
    BY <2>1, LeavesAreProven
  <2>3. m \in Nat
    BY <1>1, HashTreeShape
  <2>4. DOMAIN proof = 1 .. m
    BY DEF GetProof
  <2> HIDE DEF nodes, tree, others, claim, proof, m
  <2>5. Verify(proof, GetRoot(HashTree(others)), HashLeaf(NodeHash(claim)))
    BY <1>2, <2>1, <2>2 DEF IsProven
  <2>6. PICK k \in 1 .. Len(others) :
           /\ claim.claimant = Leaf(others[k]).claimant
           /\ claim.amount_unlocked = Leaf(others[k]).amount_unlocked
           /\ claim.amount_locked = Leaf(others[k]).amount_locked
    BY <1>1, <2>3, <2>4, <2>5, RootCommits
  <2>7. claim = Leaf(others[k])
    BY <2>6 DEF Leaf, claim
  <2>8. QED
    BY <2>7 DEF LeavesOf, claim
<1>4. QED
  BY <1>3 DEF LeavesOf

\* Trees of any two lists of rows that have the same root grant the same to the
\* same claimants and have the same caps.
THEOREM DeterminationCorrect == Spec => []RootDeterminesTheTree
<1>1. TreeInv => RootDeterminesTheTree
  <2> SUFFICES ASSUME TreeInv, file # NoFile, NewTreeIsOk(csv),
                      NewTree(csv).merkle_root = file.merkle_root
               PROVE  /\ Leaves(NewTree(csv)) = Leaves(file)
                      /\ NewTree(csv).max_num_nodes = file.max_num_nodes
                      /\ NewTree(csv).max_total_claim = file.max_total_claim
    BY DEF RootDeterminesTheTree
  <2>1. PICK rows \in Seq(CsvEntries) : FileOf(rows)
    BY DEF TreeInv
  <2>2. csv \in Seq(CsvEntries) /\ csv # <<>>
    BY OnlyOversizedFails DEF TreeInv
  <2>3. file = NewTree(rows) /\ rows # <<>>
    BY <2>1, OnlyOversizedFails DEF FileOf
  <2> DEFINE nodes == TreeNodes(rows)
             others == TreeNodes(csv)
             leaves == LeavesOf(nodes)
             fun == [leaf \in leaves |-> leaf.amount_unlocked + leaf.amount_locked]
  <2>4. LeavesOf(others) = leaves
    <3>1. LeavesOf(others) \subseteq leaves
      BY <2>2, <2>3, RootHoldsLeaves
    <3>2. leaves \subseteq LeavesOf(others)
      BY <2>2, <2>3, RootHoldsLeaves
    <3>3. QED
      BY <3>1, <3>2
  <2>5. \A leaf \in leaves :
           fun[leaf] = leaf.amount_unlocked + leaf.amount_locked
    OBVIOUS
  <2> HIDE DEF leaves, fun
  <2>6. /\ Len(nodes) = Cardinality(leaves)
        /\ MaxTotalClaim(nodes) = SumFunctionOnSet(fun, leaves)
    BY <2>5, CapsOfLeaves DEF leaves
  <2>7. /\ Len(others) = Cardinality(leaves)
        /\ MaxTotalClaim(others) = SumFunctionOnSet(fun, leaves)
    BY <2>2, <2>4, <2>5, CapsOfLeaves
  <2>8. /\ Leaves(file) = leaves
        /\ file.max_num_nodes = Len(nodes)
        /\ file.max_total_claim = MaxTotalClaim(nodes)
    BY <2>3, NewTreeShape DEF leaves
  <2>9. /\ Leaves(NewTree(csv)) = leaves
        /\ NewTree(csv).max_num_nodes = Len(others)
        /\ NewTree(csv).max_total_claim = MaxTotalClaim(others)
    BY <2>2, <2>4, NewTreeShape
  <2>10. QED
    BY <2>6, <2>7, <2>8, <2>9
<1>2. QED
  BY <1>1, TreeInvariant, PTL

\* A CSV is refused only when it is empty, grants more than a u64 counts or
\* names too many claimants, whatever the shape of its tree.
THEOREM RefusalCorrect == Spec => []OnlyOversizedCsvIsRefused
<1>1. TreeInv => OnlyOversizedCsvIsRefused
  BY OnlyOversizedFails DEF TreeInv, OnlyOversizedCsvIsRefused
<1>2. QED
  BY <1>1, TreeInvariant, PTL

\* The tree of a CSV grants every claimant the sum of his rows, and its caps are
\* the number of claimants and the sum of all rows.
THEOREM GrantsCorrect == Spec => []TreeGrantsItsRows
<1>1. TreeInv => TreeGrantsItsRows
  <2> SUFFICES ASSUME TreeInv PROVE TreeGrantsItsRows
    OBVIOUS
  <2> DEFINE nodes == TreeNodes(csv)
             granted(w) == [claimant        |-> w,
                            amount_unlocked |-> GrantedUnlocked(csv, w),
                            amount_locked   |-> GrantedLocked(csv, w)]
  <2>1. csv \in Seq(CsvEntries)
    BY DEF TreeInv
  <2>2. /\ \A n \in 1 .. Len(nodes) :
              /\ AmountUnlocked(nodes[n])
                   = GrantedUnlocked(csv, nodes[n].claimant)
              /\ AmountLocked(nodes[n]) = GrantedLocked(csv, nodes[n].claimant)
        /\ {nodes[n].claimant : n \in 1 .. Len(nodes)} = ClaimantsOf(csv)
    BY <2>1, NodesShape
  <2>3. /\ Leaves(NewTree(csv)) = LeavesOf(nodes)
        /\ NewTree(csv).max_num_nodes = Cardinality(ClaimantsOf(csv))
        /\ NewTree(csv).max_total_claim = GrantedInTotal(csv)
    BY <2>1, NewTreeShape, CapsOfRows
  <2> HIDE DEF nodes
  <2>4. \A n \in 1 .. Len(nodes) : Leaf(nodes[n]) = granted(nodes[n].claimant)
    BY <2>2 DEF Leaf
  <2> HIDE DEF granted
  <2>5. LeavesOf(nodes) = {granted(w) : w \in ClaimantsOf(csv)}
    BY <2>2, <2>4 DEF LeavesOf
  <2>6. QED
    BY <2>3, <2>5 DEF TreeGrantsItsRows, granted
<1>2. QED
  BY <1>1, TreeInvariant, PTL

==============================================================================
