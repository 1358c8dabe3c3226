---------------------------- MODULE VestingProofs ----------------------------
(***************************************************************************)
(* Facts about the vesting arithmetic, for every word size.                *)
(***************************************************************************)
EXTENDS Vesting, TLAPS

\* A fraction x / y of integers, rounded down, of at most n is at most n.
LEMMA QuotientIsBounded ==
    ASSUME NEW x \in Nat, NEW y \in Nat, y > 0, NEW n \in Nat, x <= y * n
    PROVE  x \div y \in 0 .. n
BY SMT

\* Rounding down preserves order.
LEMMA QuotientIsMonotone ==
    ASSUME NEW x1 \in Nat, NEW x2 \in Nat, x1 <= x2, NEW y \in Nat, y > 0
    PROVE  x1 \div y <= x2 \div y
BY SMT

\* An amount is a natural number.
LEMMA AmountsAreNatural == \A n \in U64 : n \in Nat /\ n \in Int
BY WidthAssumption DEF U64

\* An instant is an integer.
LEMMA InstantsAreIntegers == \A t \in I64 : t \in Int
BY DEF I64

\* The cast to u64 keeps every amount that fits.
LEMMA CastKeepsAmounts ==
    ASSUME NEW n \in U64 PROVE AsU64(n) = n
BY WidthAssumption, SMT DEF AsU64, U64

\* Multiplication preserves order, in either factor.
LEMMA ProductIsMonotone ==
    ASSUME NEW a \in Nat, NEW b \in Nat, a <= b, NEW n \in Nat
    PROVE  a * n \in Nat /\ a * n <= b * n
BY SMT

\* The comment of unlocked_amount: no truncation can occur.  Inside the
\* schedule the cast value is the quotient, and at most the locked amount.
LEMMA NoTruncation ==
    ASSUME NEW cs \in ClaimStatus, NEW curr_ts \in I64,
           NEW start_ts \in I64, NEW end_ts \in I64,
           Vests(curr_ts, start_ts, end_ts)
    PROVE  LET quotient == ((curr_ts - start_ts) * cs.locked_amount)
                              \div (end_ts - start_ts)
           IN  /\ quotient \in 0 .. cs.locked_amount
               /\ UnlockedAmount(cs, curr_ts, start_ts, end_ts) = quotient
<1> DEFINE elapsed == curr_ts - start_ts
           total   == end_ts - start_ts
           locked  == cs.locked_amount
<1>1. /\ elapsed \in Nat
      /\ total \in Nat
      /\ total > 0
      /\ elapsed <= total
  BY WidthAssumption DEF Vests, I64
<1>2. locked \in U64 /\ locked \in Nat
  BY WidthAssumption DEF ClaimStatus, U64
<1>3. elapsed * locked \in Nat /\ elapsed * locked <= total * locked
  BY <1>1, <1>2, ProductIsMonotone
<1>4. (elapsed * locked) \div total \in 0 .. locked
  BY <1>1, <1>2, <1>3, QuotientIsBounded
<1>5. (elapsed * locked) \div total \in U64
  BY <1>2, <1>4, WidthAssumption DEF U64
<1>6. AsU64((elapsed * locked) \div total) = (elapsed * locked) \div total
  BY <1>5, CastKeepsAmounts
<1>7. QED
  BY <1>4, <1>6 DEF UnlockedAmount

\* What is unlocked is an amount, and at most the locked amount.
LEMMA UnlockedIsBounded ==
    ASSUME NEW cs \in ClaimStatus, NEW curr_ts \in I64,
           NEW start_ts \in I64, NEW end_ts \in I64
    PROVE  /\ UnlockedAmount(cs, curr_ts, start_ts, end_ts)
                \in 0 .. cs.locked_amount
           /\ UnlockedAmount(cs, curr_ts, start_ts, end_ts) \in U64
<1>1. cs.locked_amount \in U64 /\ cs.locked_amount \in Nat
  BY WidthAssumption DEF ClaimStatus, U64
<1>2. UnlockedAmount(cs, curr_ts, start_ts, end_ts) \in 0 .. cs.locked_amount
  <2>1. CASE Vests(curr_ts, start_ts, end_ts)
    BY <2>1, NoTruncation
  <2>2. CASE ~Vests(curr_ts, start_ts, end_ts)
    BY <2>2, <1>1 DEF UnlockedAmount
  <2>3. QED
    BY <2>1, <2>2
<1>3. QED
  BY <1>1, <1>2, WidthAssumption DEF U64

\* What is unlocked never shrinks as time passes.
LEMMA UnlockedIsMonotone ==
    ASSUME NEW cs \in ClaimStatus, NEW now \in I64, NEW later \in I64,
           now <= later, NEW start_ts \in I64, NEW end_ts \in I64
    PROVE  UnlockedAmount(cs, now, start_ts, end_ts)
             <= UnlockedAmount(cs, later, start_ts, end_ts)
<1> DEFINE Unlocked(t) == UnlockedAmount(cs, t, start_ts, end_ts)
<1>1. cs.locked_amount \in Nat
  BY WidthAssumption DEF ClaimStatus, U64
<1>2. Unlocked(now) \in 0 .. cs.locked_amount
      /\ Unlocked(later) \in 0 .. cs.locked_amount
  BY UnlockedIsBounded
<1>3. CASE now < start_ts
  BY <1>2, <1>3 DEF UnlockedAmount, Vests, I64
<1>4. CASE later >= end_ts /\ later >= start_ts
  <2>1. Unlocked(later) = cs.locked_amount
    BY <1>4, WidthAssumption DEF UnlockedAmount, Vests, I64
  <2>2. QED
    BY <2>1, <1>1, <1>2
<1>5. CASE now >= start_ts /\ later < end_ts
  <2>1. Vests(now, start_ts, end_ts) /\ Vests(later, start_ts, end_ts)
    BY <1>5, WidthAssumption DEF Vests, I64
  <2> DEFINE Product(t) == (t - start_ts) * cs.locked_amount
             total      == end_ts - start_ts
  <2>2. now - start_ts \in Nat /\ later - start_ts \in Nat
        /\ now - start_ts <= later - start_ts /\ total \in Nat /\ total > 0
    BY <1>5, WidthAssumption DEF I64
  <2>3. Product(now) \in Nat /\ Product(now) <= Product(later)
    BY <2>2, <1>1, ProductIsMonotone
  <2>4. Product(later) \in Nat
    BY <2>2, <1>1, ProductIsMonotone
  <2>5. Product(now) \div total <= Product(later) \div total
    BY <2>2, <2>3, <2>4, QuotientIsMonotone
  <2>6. Unlocked(now) = Product(now) \div total
        /\ Unlocked(later) = Product(later) \div total
    BY <2>1, NoTruncation
  <2>7. QED
    BY <2>5, <2>6
<1>6. QED
  BY <1>3, <1>4, <1>5, WidthAssumption DEF I64

\* No checked operation of unlocked_amount fails for a schedule that starts
\* after the epoch: the claim of the comment on multiplication safety.
LEMMA UnlockedNeverOverflows ==
    ASSUME NEW cs \in ClaimStatus, NEW curr_ts \in 0 .. MaxI64,
           NEW start_ts \in 0 .. MaxI64, NEW end_ts \in 0 .. MaxI64
    PROVE  UnlockedAmountIsOk(cs, curr_ts, start_ts, end_ts)
<1> SUFFICES ASSUME Vests(curr_ts, start_ts, end_ts)
             PROVE  /\ curr_ts - start_ts \in I64
                    /\ end_ts - start_ts \in I64
                    /\ (curr_ts - start_ts) * cs.locked_amount <= MaxU128
                    /\ end_ts - start_ts # 0
  BY DEF UnlockedAmountIsOk
<1>1. /\ curr_ts - start_ts \in 0 .. MaxI64
      /\ end_ts - start_ts \in 0 .. MaxI64
      /\ end_ts - start_ts # 0
  BY WidthAssumption DEF Vests
<1>2. /\ curr_ts - start_ts \in Nat
      /\ curr_ts - start_ts <= MaxU64
      /\ cs.locked_amount \in Nat
      /\ cs.locked_amount <= MaxU64
      /\ MaxU64 \in Nat
  BY <1>1, WidthAssumption DEF ClaimStatus, U64
<1>3. (curr_ts - start_ts) * cs.locked_amount <= MaxU64 * cs.locked_amount
  BY <1>2, ProductIsMonotone
<1>4. cs.locked_amount * MaxU64 <= MaxU64 * MaxU64
  BY <1>2, ProductIsMonotone
<1>5. MaxU64 * MaxU64 <= MaxU128
  BY <1>2, SMT DEF MaxU128
<1>6. (curr_ts - start_ts) * cs.locked_amount <= MaxU128
  <2> DEFINE l == cs.locked_amount
             e == curr_ts - start_ts
  <2>1. e * l \in Nat /\ MaxU64 * l \in Nat /\ MaxU64 * l = l * MaxU64
        /\ MaxU64 * MaxU64 \in Nat /\ MaxU128 \in Int
    BY <1>2, SMT DEF MaxU128
  <2> HIDE DEF l, e
  <2>2. e * l <= MaxU64 * l /\ l * MaxU64 <= MaxU64 * MaxU64
    BY <1>3, <1>4 DEF l, e
  <2>3. e * l <= MaxU128
    BY <2>1, <2>2, <1>5
  <2>4. QED
    BY <2>3 DEF l, e
<1>7. curr_ts - start_ts \in I64 /\ end_ts - start_ts \in I64
  BY <1>1, WidthAssumption DEF I64
<1>8. QED
  BY <1>1, <1>6, <1>7

==============================================================================
