----------------------------- MODULE MCApiServer -----------------------------
(***************************************************************************)
(* Instances of ApiServer for TLC: one claimant, one distributor, and a    *)
(* tree file that may be another than the distributor's.                   *)
(***************************************************************************)
EXTENDS ApiServer, TLC

CONSTANTS alice, aliceGold, d1, gold

MCOwnerOf == [a \in TokenAccount |-> alice]

MCMintOf == [a \in TokenAccount \cup Distributor |-> gold]

MCInitialBalance == [a \in TokenAccount |-> 3]

MCTime == 0 .. 4

TreeGranting(u, l) ==
    {[claimant |-> alice, amount_unlocked |-> u, amount_locked |-> l]}

\* The file of the distributor, one of other grants, one without alice.
MCTrees == {TreeGranting(1, 2), TreeGranting(3, 0), {}}

MCArgs ==
    {[root              |-> TreeGranting(1, 2),
      max_total_claim   |-> 3,
      max_num_nodes     |-> 1,
      start_vesting_ts  |-> 1,
      end_vesting_ts    |-> 3,
      clawback_start_ts |-> 4]}
==============================================================================
