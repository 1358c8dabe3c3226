------------------------------ MODULE MCVesting ------------------------------
(***************************************************************************)
(* The vesting arithmetic over every grant and schedule of a small word    *)
(* size: one claim, withdrawn from at any instants of its schedule.        *)
(***************************************************************************)
EXTENDS Vesting

VARIABLES cs, curr_ts, start_ts, end_ts

vars == <<cs, curr_ts, start_ts, end_ts>>

\* The schedules new_distributor accepts start after the present and end later.
Init ==
    /\ cs \in [locked_amount : U64,
               locked_amount_withdrawn : {0},
               unlocked_amount : {0}]
    /\ curr_ts = 0
    /\ start_ts \in 1 .. MaxI64
    /\ end_ts \in (start_ts + 1) .. MaxI64

Advance ==
    /\ curr_ts < MaxI64
    /\ curr_ts' = curr_ts + 1
    /\ UNCHANGED <<cs, start_ts, end_ts>>

\* The part of handle_claim_locked that concerns the claim alone.
Withdraw ==
    LET amount == AmountWithdrawable(cs, curr_ts, start_ts, end_ts)
    IN  /\ AmountWithdrawableIsOk(cs, curr_ts, start_ts, end_ts)
        /\ amount > 0
        /\ cs.locked_amount_withdrawn + amount <= cs.locked_amount
        /\ cs' = [cs EXCEPT !.locked_amount_withdrawn = @ + amount]
        /\ UNCHANGED <<curr_ts, start_ts, end_ts>>

Next == Advance \/ Withdraw

Spec == Init /\ [][Next]_vars

------------------------------------------------------------------------------
\* The time into the schedule, within its bounds.
Elapsed ==
    CASE curr_ts < start_ts -> 0
      [] curr_ts > end_ts   -> end_ts - start_ts
      [] OTHER              -> curr_ts - start_ts

\* unlocked_amount is the share of locked_amount that the elapsed time is of
\* the whole schedule, rounded down: the greatest amount that does not exceed
\* it.  In particular the cast to u64 never truncates, as the comment claims.
VestsInProportion ==
    LET amount == UnlockedAmount(cs, curr_ts, start_ts, end_ts)
        total  == end_ts - start_ts
    IN  /\ amount * total <= Elapsed * cs.locked_amount
        /\ Elapsed * cs.locked_amount < (amount + 1) * total

\* No word overflows, and no withdrawal at an earlier instant makes the
\* subtraction in amount_withdrawable fail at a later one.
NoArithmeticError == AmountWithdrawableIsOk(cs, curr_ts, start_ts, end_ts)

==============================================================================
