---------------------- MODULE MerkleDistributorRefinement ----------------------
(***************************************************************************)
(* The on-chain program keeps the promise of VestingGrants.                *)
(***************************************************************************)
EXTENDS MerkleDistributor

\* The terms of an airdrop, as VestingGrants knows them.
TermsOf(list, start, end, until) ==
    [list |-> list, start |-> start, end |-> end, until |-> until]

\* The absence of an account is neither the terms of an airdrop nor an address.
ASSUME NoTermsAssumption ==
    /\ NoAccount \notin [list : SUBSET Leaf, start : I64, end : I64, until : I64]
    /\ NoAccount \notin Distributor

\* The entry a claim was made with.
EntryOf(d, w) ==
    [claimant        |-> w,
     amount_unlocked |-> claim_status[d][w].unlocked_amount,
     amount_locked   |-> claim_status[d][w].locked_amount]

\* Tokens in a vault count from the moment its distributor exists.
Grants == INSTANCE VestingGrants WITH
    Airdrop <- Distributor,
    Terms   <- {TermsOf(args.root, args.start_vesting_ts, args.end_vesting_ts,
                        args.clawback_start_ts) : args \in NewDistributorArgs},
    Delay   <- SECONDS_PER_DAY,
    None    <- NoAccount,
    now     <- clock,
    terms   <- [d \in Distributor |->
                  IF Exists(d)
                    THEN TermsOf(distributor[d].root, distributor[d].start_ts,
                                 distributor[d].end_ts,
                                 distributor[d].clawback_start_ts)
                    ELSE NoAccount],
    granted <- [d \in Distributor |-> {EntryOf(d, w) : w \in ClaimsOn(d)}],
    paid    <- [d \in Distributor |-> [w \in Wallet |-> Paid(d, w)]],
    fund    <- [d \in Distributor |-> IF Exists(d) THEN balance[d] ELSE 0],
    closed  <- {d \in Distributor : ClawedBack(d)}

\* Every behaviour of the program - instructions with their accounts, counters,
\* caps and checked arithmetic, among transfers and tampering by anybody - is
\* one of VestingGrants: vaults lose tokens to grants and to the closing only,
\* each entry is granted once, what is paid is exactly the vested share, and
\* nothing closes before its time.
KeepsThePromise == Grants!Spec

==============================================================================
