------------------------ MODULE MCAirdropMerkleTree ------------------------
(***************************************************************************)
(* Instances of AirdropMerkleTree for TLC.  No order on wallets is used    *)
(* anywhere, so that they may be permuted.                                 *)
(***************************************************************************)
EXTENDS AirdropMerkleTree, TLC

Row(w, u, l, category) ==
    [pubkey          |-> w,
     amount_unlocked |-> u,
     amount_locked   |-> l,
     category        |-> category]

\* Claimants alike: only the shape of the tree matters.
PlainRows == {Row(w, 1, 0, "Staker") : w \in Wallet}

\* Amounts and categories: three rows may overflow the word.
MixedRows ==
    {Row(w, a[1], a[2], c) :
        w \in Wallet, a \in {<<1, 0>>, <<0, 1>>, <<1, 3>>}, c \in Category}

\* An amount whose tokens do not fit a word.
LargeRows == {Row(w, u, 0, "Staker") : w \in Wallet, u \in {1, 5}}

\* Bound: rows are added or dropped only while the file is up to date, so that
\* the CSV is at most one edit ahead of it.
FileIsFresh == file = NoFile \/ (NewTreeIsOk(csv) /\ file = NewTree(csv))

Symmetry == Permutations(Wallet)
=============================================================================
