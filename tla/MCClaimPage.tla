----------------------------- MODULE MCClaimPage -----------------------------
(***************************************************************************)
(* An instance of ClaimPage for TLC: a browser with two wallets, a tree of *)
(* three leaves.                                                           *)
(***************************************************************************)
EXTENDS ClaimPage, TLC

CONSTANTS alice, bob, carol

MCTree == (alice :> <<2, 1>>) @@ (bob :> <<0, 3>>) @@ (carol :> <<1, 1>>)
==============================================================================
