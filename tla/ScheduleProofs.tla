---------------------------- MODULE ScheduleProofs ----------------------------
(***************************************************************************)
(* The claim of MCVesting, withdrawn from at any instants of any schedule, *)
(* for every width of the words.                                           *)
(***************************************************************************)
EXTENDS MCVesting, VestingProofs

\* What the quotient of two numbers is: the greatest number of which the
\* product with the divisor does not exceed the dividend.
LEMMA QuotientIsFloor ==
    ASSUME NEW x \in Nat, NEW y \in Nat, y > 0
    PROVE  /\ x \div y \in Nat
           /\ (x \div y) * y <= x
           /\ x < ((x \div y) + 1) * y
<1>1. x \div y \in Nat
  BY SMT
<1>2. (x \div y) * y <= x /\ x < (x \div y) * y + y
  BY SMT
<1>3. QED
  BY <1>1, <1>2, SMT

\* What has been withdrawn had been unlocked.
ScheduleInv ==
    /\ cs \in ClaimStatus
    /\ curr_ts \in 0 .. MaxI64
    /\ start_ts \in 0 .. MaxI64
    /\ end_ts \in 0 .. MaxI64
    /\ start_ts < end_ts
    /\ cs.locked_amount_withdrawn
         <= UnlockedAmount(cs, curr_ts, start_ts, end_ts)

LEMMA InstantsFit ==
    \A t \in 0 .. MaxI64 : t \in I64 /\ t \in Nat
BY WidthAssumption DEF I64

\* The unlocked amount does not depend on what is withdrawn.
LEMMA WithdrawnDoesNotVest ==
    ASSUME NEW c1, NEW c2, c1.locked_amount = c2.locked_amount,
           NEW t, NEW start, NEW end
    PROVE  UnlockedAmount(c1, t, start, end) = UnlockedAmount(c2, t, start, end)
BY DEF UnlockedAmount

LEMMA InitSchedule == Init => ScheduleInv
<1> SUFFICES ASSUME Init PROVE ScheduleInv
  OBVIOUS
<1>1. /\ cs \in ClaimStatus /\ cs.locked_amount_withdrawn = 0
      /\ curr_ts \in 0 .. MaxI64
      /\ start_ts \in 0 .. MaxI64
      /\ end_ts \in 0 .. MaxI64
      /\ start_ts < end_ts
  BY WidthAssumption DEF Init, ClaimStatus, U64
<1>2. /\ UnlockedAmount(cs, curr_ts, start_ts, end_ts) \in U64
  BY <1>1, InstantsFit, UnlockedIsBounded
<1>3. QED
  BY <1>1, <1>2, AmountsAreNatural DEF ScheduleInv, U64

\* Time unlocks more.
LEMMA AdvanceSchedule == ASSUME ScheduleInv, Advance PROVE ScheduleInv'
<1>1. /\ cs \in ClaimStatus
      /\ curr_ts \in I64 /\ start_ts \in I64 /\ end_ts \in I64
      /\ curr_ts' \in 0 .. MaxI64 /\ curr_ts' \in I64
      /\ curr_ts <= curr_ts'
      /\ cs' = cs /\ start_ts' = start_ts /\ end_ts' = end_ts
  <2>1. curr_ts' \in 0 .. MaxI64 /\ curr_ts <= curr_ts'
    BY WidthAssumption DEF ScheduleInv, Advance
  <2>2. QED
    BY <2>1, InstantsFit DEF ScheduleInv, Advance
<1>2. UnlockedAmount(cs, curr_ts, start_ts, end_ts)
        <= UnlockedAmount(cs, curr_ts', start_ts, end_ts)
  BY <1>1, UnlockedIsMonotone
<1>3. /\ cs.locked_amount_withdrawn \in Int
      /\ UnlockedAmount(cs, curr_ts, start_ts, end_ts) \in Int
      /\ UnlockedAmount(cs, curr_ts', start_ts, end_ts) \in Int
  BY <1>1, UnlockedIsBounded, AmountsAreNatural DEF ClaimStatus
<1>4. cs.locked_amount_withdrawn
        <= UnlockedAmount(cs, curr_ts', start_ts, end_ts)
  BY <1>2, <1>3 DEF ScheduleInv
<1>5. QED
  BY <1>1, <1>4 DEF ScheduleInv

\* A withdrawal takes what is unlocked, to the last token.
LEMMA WithdrawSchedule == ASSUME ScheduleInv, Withdraw PROVE ScheduleInv'
<1> DEFINE unlocked == UnlockedAmount(cs, curr_ts, start_ts, end_ts)
<1>1. /\ cs \in ClaimStatus
      /\ curr_ts \in I64 /\ start_ts \in I64 /\ end_ts \in I64
      /\ curr_ts' = curr_ts /\ start_ts' = start_ts /\ end_ts' = end_ts
  BY InstantsFit DEF ScheduleInv, Withdraw
<1>2. unlocked \in U64 /\ unlocked \in Int
      /\ cs.locked_amount_withdrawn \in Int
  BY <1>1, UnlockedIsBounded, AmountsAreNatural DEF ClaimStatus
<1>3. cs' = [cs EXCEPT !.locked_amount_withdrawn = unlocked]
  <2>1. cs' = [cs EXCEPT !.locked_amount_withdrawn =
                 @ + (unlocked - cs.locked_amount_withdrawn)]
    BY DEF Withdraw, AmountWithdrawable
  <2> HIDE DEF unlocked
  <2>2. cs.locked_amount_withdrawn + (unlocked - cs.locked_amount_withdrawn)
          = unlocked
    BY <1>2
  <2>3. QED
    BY <2>1, <2>2
<1>4. /\ cs' \in ClaimStatus
      /\ cs'.locked_amount = cs.locked_amount
      /\ cs'.locked_amount_withdrawn = unlocked
  <2> HIDE DEF unlocked
  <2>1. QED
    BY <1>1, <1>2, <1>3 DEF ClaimStatus
<1>5. UnlockedAmount(cs', curr_ts, start_ts, end_ts) = unlocked
  BY <1>4, WithdrawnDoesNotVest
<1>6. QED
  <2> HIDE DEF unlocked
  <2>1. QED
    BY <1>1, <1>2, <1>4, <1>5 DEF ScheduleInv

LEMMA ScheduleInvariant == Spec => []ScheduleInv
<1>1. ScheduleInv /\ [Next]_vars => ScheduleInv'
  <2> SUFFICES ASSUME ScheduleInv, [Next]_vars PROVE ScheduleInv'
    OBVIOUS
  <2>1. CASE UNCHANGED vars
    BY <2>1 DEF vars, ScheduleInv
  <2>2. CASE Next
    BY <2>2, AdvanceSchedule, WithdrawSchedule DEF Next
  <2>3. QED
    BY <2>1, <2>2
<1>2. QED
  BY InitSchedule, <1>1, PTL DEF Spec

\* The unlocked amount is the locked amount times the elapsed share of the
\* schedule, rounded down, at every instant before, within and after it: the
\* cast of the quotient to u64 loses nothing.
THEOREM ProportionCorrect == Spec => []VestsInProportion
<1>1. ASSUME ScheduleInv PROVE VestsInProportion
  <2> DEFINE amount == UnlockedAmount(cs, curr_ts, start_ts, end_ts)
             total  == end_ts - start_ts
             locked == cs.locked_amount
             product == Elapsed * locked
  <2>1. /\ cs \in ClaimStatus
        /\ curr_ts \in I64 /\ start_ts \in I64 /\ end_ts \in I64
        /\ curr_ts \in Nat /\ start_ts \in Nat /\ end_ts \in Nat
        /\ start_ts < end_ts
    BY <1>1, InstantsFit DEF ScheduleInv
  <2>2. /\ total \in Nat /\ total > 0
        /\ locked \in Nat
    BY <2>1, AmountsAreNatural DEF ClaimStatus
  <2>3. CASE Vests(curr_ts, start_ts, end_ts)
    <3>1. Elapsed = curr_ts - start_ts /\ Elapsed \in Nat
      BY <2>1, <2>3 DEF Vests, Elapsed
    <3>2. product \in Nat
      BY <2>2, <3>1, ProductIsMonotone
    <3>3. amount = product \div total
      BY <2>1, <2>3, <3>1, NoTruncation
    <3> HIDE DEF amount, total, product
    <3>4. amount * total <= product /\ product < (amount + 1) * total
      BY <2>2, <3>2, <3>3, QuotientIsFloor
    <3>5. QED
      BY <3>4 DEF VestsInProportion, amount, total, product
  <2>4. CASE ~Vests(curr_ts, start_ts, end_ts) /\ curr_ts < start_ts
    <3>1. amount = 0 /\ Elapsed = 0
      BY <2>1, <2>4 DEF UnlockedAmount, Elapsed
    <3> HIDE DEF amount, total, locked
    <3>2. amount * total = 0 /\ Elapsed * locked = 0
          /\ (amount + 1) * total = total
      BY <2>2, <3>1
    <3>3. amount * total <= Elapsed * locked
          /\ Elapsed * locked < (amount + 1) * total
      BY <2>2, <3>2
    <3>4. QED
      BY <3>3 DEF VestsInProportion, amount, total, locked
  <2>5. CASE ~Vests(curr_ts, start_ts, end_ts) /\ ~(curr_ts < start_ts)
    <3>1. amount = locked /\ Elapsed = total
      BY <2>1, <2>5 DEF UnlockedAmount, Elapsed, Vests
    <3> HIDE DEF amount, total, locked
    <3>2. amount * total = Elapsed * locked
          /\ (amount + 1) * total = Elapsed * locked + total
          /\ Elapsed * locked \in Nat
      BY <2>2, <3>1, SMT
    <3>3. amount * total <= Elapsed * locked
          /\ Elapsed * locked < (amount + 1) * total
      <4> DEFINE p == Elapsed * locked
      <4>1. p \in Nat /\ amount * total = p /\ (amount + 1) * total = p + total
        BY <3>2
      <4> HIDE DEF p
      <4>2. amount * total <= p /\ p < (amount + 1) * total
        BY <2>2, <4>1
      <4>3. QED
        BY <4>2 DEF p
    <3>4. QED
      BY <3>3 DEF VestsInProportion, amount, total, locked
  <2>6. QED
    BY <2>3, <2>4, <2>5
<1>2. QED
  BY <1>1, ScheduleInvariant, PTL

\* No checked operation of amount_withdrawable fails, whenever and however
\* often the claim was withdrawn from before: the comments on the safety of its
\* arithmetic, for words of every width.
THEOREM ArithmeticCorrect == Spec => []NoArithmeticError
<1>1. ASSUME ScheduleInv PROVE NoArithmeticError
  BY <1>1, UnlockedNeverOverflows
  DEF ScheduleInv, NoArithmeticError, AmountWithdrawableIsOk
<1>2. QED
  BY <1>1, ScheduleInvariant, PTL

===============================================================================
