------------------------------- MODULE MCCli -------------------------------
(***************************************************************************)
(* Instances of Cli for TLC: two wallets, one distributor, a small tree,   *)
(* and one process beside everything else wallets do.                      *)
(***************************************************************************)
EXTENDS Cli, TLC

CONSTANTS alice, bob, aliceGold, d1, gold, s1

MCOwnerOf == [a \in TokenAccount |-> alice]

MCMintOf == [a \in TokenAccount \cup Distributor |-> gold]

MCInitialBalance == [a \in TokenAccount |-> 2]

MCTime == 0 .. 3

MCAta == [w \in {alice} |-> aliceGold]

Grant(w, u, l) == [claimant |-> w, amount_unlocked |-> u, amount_locked |-> l]

MCTree == {Grant(alice, 1, 1)}

Terms(root, total) ==
    [root              |-> root,
     max_total_claim   |-> total,
     max_num_nodes     |-> 1,
     start_vesting_ts  |-> 1,
     end_vesting_ts    |-> 2,
     clawback_start_ts |-> 3]

TheTerms == Terms(MCTree, 2)

\* Somebody else may create another distributor at the same address.
MCArgs == {TheTerms, Terms(MCTree, 1)}

\* alice claims, creates the distributor, claws back, hands over.
MCCommands ==
    {[command |-> "claim", keypair |-> alice],
     [command |-> "new-distributor", keypair |-> alice,
      clawback_receiver_token_account |-> aliceGold, args |-> TheTerms],
     [command |-> "clawback", clawback_keypair |-> alice],
     [command |-> "set-admin", keypair |-> alice, new_admin |-> bob]}
=============================================================================
