------------------------------- MODULE Vesting -------------------------------
(***************************************************************************)
(* The vesting arithmetic of a claim (state/claim_status.rs): how much of  *)
(* the locked part of an entitlement is unlocked at a given chain time,    *)
(* and how much of that may still be withdrawn.                            *)
(*                                                                         *)
(* Amounts are u64, timestamps are i64, and the product of the two is      *)
(* taken in u128 and cast back.  The widths are parameters, so that TLC    *)
(* can reach every boundary with small words.                              *)
(***************************************************************************)
EXTENDS Integers

CONSTANTS
    MaxU64,     \* u64::MAX
    MaxI64      \* i64::MAX

\* What the two's complement widths guarantee, and all that is used of them.
ASSUME WidthAssumption ==
    /\ MaxU64 \in Nat
    /\ MaxI64 \in Nat
    /\ MaxI64 < MaxU64

U64 == 0 .. MaxU64
I64 == (-MaxI64 - 1) .. MaxI64

\* Mutant: the product is taken in u64.
MaxU128_U64 == MaxU64

MaxU128 == (MaxU64 + 1) * (MaxU64 + 1) - 1

\* `n as u64`: the cast keeps the low-order word.
AsU64(n) == n % (MaxU64 + 1)

ClaimStatus == [locked_amount           : U64,
                locked_amount_withdrawn : U64,
                unlocked_amount         : U64]

------------------------------------------------------------------------------
\* The branch of unlocked_amount that computes a fraction.
Vests(curr_ts, start_ts, end_ts) == start_ts <= curr_ts /\ curr_ts < end_ts

\* unlocked_amount returns Ok: no checked_sub, checked_mul or checked_div of
\* the vesting branch fails.
UnlockedAmountIsOk(cs, curr_ts, start_ts, end_ts) ==
    Vests(curr_ts, start_ts, end_ts) =>
        /\ curr_ts - start_ts \in I64
        /\ end_ts - start_ts \in I64
        /\ (curr_ts - start_ts) * cs.locked_amount <= MaxU128
        /\ end_ts - start_ts # 0

\* The value of unlocked_amount, when it is Ok.
\* Mutant: the schedule is measured from the epoch instead of start_ts.
UnlockedAmount_FromEpoch(cs, curr_ts, start_ts, end_ts) ==
    IF Vests(curr_ts, start_ts, end_ts)
      THEN AsU64((curr_ts * cs.locked_amount) \div end_ts)
      ELSE IF curr_ts < start_ts THEN 0 ELSE cs.locked_amount

UnlockedAmount(cs, curr_ts, start_ts, end_ts) ==
    IF Vests(curr_ts, start_ts, end_ts)
      THEN AsU64(((curr_ts - start_ts) * cs.locked_amount)
                   \div (end_ts - start_ts))
      ELSE IF curr_ts < start_ts THEN 0 ELSE cs.locked_amount

\* amount_withdrawable returns Ok: in addition its own checked_sub succeeds.
AmountWithdrawableIsOk(cs, curr_ts, start_ts, end_ts) ==
    /\ UnlockedAmountIsOk(cs, curr_ts, start_ts, end_ts)
    /\ cs.locked_amount_withdrawn
         <= UnlockedAmount(cs, curr_ts, start_ts, end_ts)

\* The value of amount_withdrawable, when it is Ok.
AmountWithdrawable(cs, curr_ts, start_ts, end_ts) ==
    UnlockedAmount(cs, curr_ts, start_ts, end_ts) - cs.locked_amount_withdrawn

==============================================================================
