------------------------ MODULE MCMerkleDistributor ------------------------
(***************************************************************************)
(* Instances of MerkleDistributor for TLC.  A day lasts two units of time, *)
(* the clock shows 0 .. 7, words hold 0 .. 8.                              *)
(***************************************************************************)
EXTENDS MerkleDistributorRefinement, TLC

CONSTANTS alice, bob, aliceGold, bobGold, bobSilver, d1, gold, silver

MCOwnerOf == [a \in TokenAccount |-> IF a = aliceGold THEN alice ELSE bob]

MCMintOf ==
    [a \in TokenAccount \cup Distributor |->
        IF a = bobSilver THEN silver ELSE gold]

\* Enough to fund the larger tree below, with a token to spare.
MCInitialBalance ==
    [a \in TokenAccount |->
        CASE a = aliceGold -> 6 [] a = bobGold -> 0 [] a = bobSilver -> 1]

MCTime == 0 .. 7

Grant(w, u, l) == [claimant |-> w, amount_unlocked |-> u, amount_locked |-> l]

\* One leaf each.
FairTree == {Grant(alice, 1, 3), Grant(bob, 1, 0)}

\* A tree nobody combined: alice has two leaves.
DoubledTree == FairTree \cup {Grant(alice, 0, 2)}

Terms(root, total, nodes, start, end, clawback) ==
    [root              |-> root,
     max_total_claim   |-> total,
     max_num_nodes     |-> nodes,
     start_vesting_ts  |-> start,
     end_vesting_ts    |-> end,
     clawback_start_ts |-> clawback]

\* What the CLI passes for FairTree.
ConsistentTerms == Terms(FairTree, 5, 2, 1, 4, 6)

\* Terms that new_distributor must refuse, one per check.
RefusedTerms ==
    {Terms(FairTree, 5, 2, 4, 4, 6),      \* start is not before end
     Terms(FairTree, 5, 2, 0, 3, 5),      \* start is not in the future
     Terms(FairTree, 5, 2, 1, 4, 3),      \* clawback before end
     Terms(FairTree, 5, 2, 1, 4, 5),      \* clawback too soon after end
     Terms(FairTree, 5, 2, 1, 6, 7)}      \* end + a day overflows

MCArgs ==
    RefusedTerms \cup
    {ConsistentTerms,
     Terms(DoubledTree, 4, 2, 1, 4, 6),   \* cap below the tree's total
     Terms(FairTree, 5, 1, 2, 3, 7)}      \* fewer nodes than leaves

FewArgs == {ConsistentTerms}
=============================================================================
