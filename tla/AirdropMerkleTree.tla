------------------------- MODULE AirdropMerkleTree -------------------------
(***************************************************************************)
(* The airdrop tree (merkle-tree/src/airdrop_merkle_tree.rs, tree_node.rs, *)
(* csv_entry.rs): from the rows of a CSV to the tree file whose root goes  *)
(* on chain and whose proofs the API server and the command line hand out. *)
(*                                                                         *)
(* create-merkle-tree may be run again whenever the CSV has changed, and   *)
(* replaces the file.  A run that panics leaves the file as it was: it is  *)
(* opened only once the tree has been validated.                           *)
(***************************************************************************)
EXTENDS MerkleTree

CONSTANTS
    Wallet,         \* claimants
    MaxU64,         \* u64::MAX
    TokenUnit,      \* 10^MINT_DECIMALS
    MaxTreeNodes,   \* 2^32 - 1
    CsvEntries,     \* the rows a CSV may hold
    MaxRows,        \* bound on the length of the CSV
    NoFile          \* no tree file has been written yet

U64 == 0 .. MaxU64

Category == {"Staker", "Validator", "Searcher"}

CsvEntry == [pubkey          : Wallet,
             amount_unlocked : U64,
             amount_locked   : U64,
             category        : Category]

ASSUME TreeAssumption ==
    /\ IsFiniteSet(Wallet)
    /\ MaxU64 \in Nat
    /\ TokenUnit \in Nat \ {0}
    /\ MaxTreeNodes \in Nat
    /\ MaxRows \in Nat
    /\ \A entry \in CsvEntries : entry \in CsvEntry

VARIABLES
    csv,    \* the rows of the CSV
    file    \* the tree file, or NoFile

vars == <<csv, file>>

------------------------------------------------------------------------------
(* Tree nodes: an amount for every category, locked and unlocked.          *)

\* ui_amount_to_token_amount: the product is not checked, and the release
\* build the README asks for keeps its low-order word.
TokenAmount(amount) == (amount * TokenUnit) % (MaxU64 + 1)

Only(category, amount) ==
    [c \in Category |-> IF c = category THEN amount ELSE 0]

TreeNode(entry) ==
    [claimant       |-> entry.pubkey,
     total_unlocked |-> Only(entry.category, TokenAmount(entry.amount_unlocked)),
     total_locked   |-> Only(entry.category, TokenAmount(entry.amount_locked))]

Plus(f, g) == [c \in Category |-> f[c] + g[c]]

\* The step of AirdropMerkleTree::new for one tree node: it is added to the
\* node of its claimant, if there is one already.
\* Mutant: a later row of the claimant replaces the earlier ones.
Combined_Replaces(nodes, node) ==
    IF \E n \in DOMAIN nodes : nodes[n].claimant = node.claimant
      THEN [n \in DOMAIN nodes |->
              IF nodes[n].claimant = node.claimant THEN node ELSE nodes[n]]
      ELSE Append(nodes, node)

Combined(nodes, node) ==
    IF \E n \in DOMAIN nodes : nodes[n].claimant = node.claimant
      THEN [n \in DOMAIN nodes |->
              IF nodes[n].claimant # node.claimant
                THEN nodes[n]
                ELSE [nodes[n] EXCEPT
                        !.total_unlocked = Plus(@, node.total_unlocked),
                        !.total_locked   = Plus(@, node.total_locked)]]
      ELSE Append(nodes, node)

TreeNodes(rows) ==
    FoldLeft(Combined, <<>>, [n \in DOMAIN rows |-> TreeNode(rows[n])])

AmountUnlocked(node) == SumFunction(node.total_unlocked)

AmountLocked(node) == SumFunction(node.total_locked)

TotalAmount(node) == AmountUnlocked(node) + AmountLocked(node)

\* What the root commits to for a claimant.
Leaf(node) == [claimant        |-> node.claimant,
               amount_unlocked |-> AmountUnlocked(node),
               amount_locked   |-> AmountLocked(node)]

\* TreeNode::hash.
\* Mutant: the unlocked amount is left out.
NodeHash_NoUnlocked(leaf) == <<leaf.claimant, leaf.amount_locked>>

NodeHash(leaf) == <<leaf.claimant, leaf.amount_unlocked, leaf.amount_locked>>

MaxTotalClaim(nodes) ==
    SumFunction([n \in DOMAIN nodes |-> TotalAmount(nodes[n])])

HashTree(nodes) == Tree([n \in DOMAIN nodes |-> NodeHash(Leaf(nodes[n]))])

------------------------------------------------------------------------------
(* The airdrop tree of some rows.                                          *)

\* AirdropMerkleTree::new, when it returns Ok.
NewTree(rows) ==
    LET nodes == TreeNodes(rows)
        tree  == HashTree(nodes)
    IN  [merkle_root     |-> GetRoot(tree),
         max_num_nodes   |-> Len(nodes),
         max_total_claim |-> MaxTotalClaim(nodes),
         tree_nodes      |-> [n \in DOMAIN nodes |->
                                [leaf  |-> Leaf(nodes[n]),
                                 proof |-> GetProof(tree, n - 1)]]]

\* No checked_add of new overflows.  Amounts are not negative, so that a sum
\* that fits its word was built up from partial sums that fit theirs.
\* Mutant: the amounts of a claimant are checked, their sum over all is not.
NoOverflow_PerNode(nodes) ==
    \A n \in DOMAIN nodes : TotalAmount(nodes[n]) \in U64

NoOverflow(nodes) ==
    /\ \A n \in DOMAIN nodes :
        /\ \A c \in Category :
              /\ nodes[n].total_unlocked[c] \in U64
              /\ nodes[n].total_locked[c] \in U64
        /\ AmountUnlocked(nodes[n]) \in U64
        /\ AmountLocked(nodes[n]) \in U64
        /\ TotalAmount(nodes[n]) \in U64
    /\ MaxTotalClaim(nodes) \in U64

\* A claimant of the tree presents his leaf with its proof.
IsProven(tree, n) ==
    Verify(tree.tree_nodes[n].proof, tree.merkle_root,
           HashLeaf(NodeHash(tree.tree_nodes[n].leaf)))

\* The page (App.js, handleClaim) sends the first two hashes of the proof; an
\* element that is not there cannot be encoded.
PageMayClaim(tree, n) ==
    LET proof == tree.tree_nodes[n].proof
    IN  /\ Len(proof) >= 2
        /\ Verify(SubSeq(proof, 1, 2), tree.merkle_root,
                  HashLeaf(NodeHash(tree.tree_nodes[n].leaf)))

\* validate, verify_proof included.  Its comparisons of max_num_nodes and
\* max_total_claim with the values they were just given are left out.
IsValid(tree) ==
    /\ tree.max_num_nodes <= MaxTreeNodes
    /\ \A m, n \in DOMAIN tree.tree_nodes : m # n =>
          tree.tree_nodes[m].leaf.claimant # tree.tree_nodes[n].leaf.claimant
    /\ \A n \in DOMAIN tree.tree_nodes : IsProven(tree, n)

\* new_from_csv returns Ok: new neither panics nor fails.
NewTreeIsOk(rows) ==
    /\ NoOverflow(TreeNodes(rows))
    /\ HasRoot(HashTree(TreeNodes(rows)))
    /\ IsValid(NewTree(rows))

------------------------------------------------------------------------------
Init ==
    /\ csv = <<>>
    /\ file = NoFile

\* The operator edits the CSV.
AddRow(entry) ==
    /\ Len(csv) < MaxRows
    /\ csv' = Append(csv, entry)
    /\ UNCHANGED file

DropRow(n) ==
    /\ csv' = RemoveAt(csv, n)
    /\ UNCHANGED file

\* process_create_merkle_tree.
CreateMerkleTree ==
    /\ NewTreeIsOk(csv)
    /\ file' = NewTree(csv)
    /\ UNCHANGED csv

Next ==
    \/ \E entry \in CsvEntries : AddRow(entry)
    \/ \E n \in DOMAIN csv : DropRow(n)
    \/ CreateMerkleTree

Spec == Init /\ [][Next]_vars

------------------------------------------------------------------------------
(* What the properties are about.                                          *)

RowsOf(rows, w) == {n \in DOMAIN rows : rows[n].pubkey = w}

ClaimantsOf(rows) == {rows[n].pubkey : n \in DOMAIN rows}

\* What the rows of a claimant grant him, in tokens.
GrantedUnlocked(rows, w) ==
    MapThenSumSet(LAMBDA n : TokenAmount(rows[n].amount_unlocked), RowsOf(rows, w))

GrantedLocked(rows, w) ==
    MapThenSumSet(LAMBDA n : TokenAmount(rows[n].amount_locked), RowsOf(rows, w))

GrantedInTotal(rows) ==
    MapThenSumSet(LAMBDA w : GrantedUnlocked(rows, w) + GrantedLocked(rows, w),
                  ClaimantsOf(rows))

Leaves(tree) == {tree.tree_nodes[n].leaf : n \in DOMAIN tree.tree_nodes}

AllHashes(tree) == UNION {Range(tree[k]) : k \in DOMAIN tree}

\* Every proof made of hashes of the tree, up to its height.
AllProofs(tree) ==
    UNION {[1 .. k -> AllHashes(tree)] : k \in 0 .. Len(tree) - 1}

\* Leaves somebody might claim with: any claimant, any amount of the tree.
AllClaims(tree) ==
    [claimant        : Wallet,
     amount_unlocked : {leaf.amount_unlocked : leaf \in Leaves(tree)} \cup {0},
     amount_locked   : {leaf.amount_locked : leaf \in Leaves(tree)} \cup {0}]

------------------------------------------------------------------------------
(* Properties.                                                             *)

\* The tree file is the tree of some rows.
TypeOK ==
    /\ csv \in Seq(CsvEntries) /\ Len(csv) <= MaxRows
    /\ file # NoFile =>
        /\ file.max_num_nodes \in 1 .. MaxRows
        /\ file.max_total_claim \in U64
        /\ \A leaf \in Leaves(file) : leaf.amount_unlocked \in U64
                                      /\ leaf.amount_locked \in U64

\* The root commits to the leaves of the file and to nothing else: the proof in
\* the file proves each of them, and no proof that can be put together from the
\* hashes of the tree proves any other claim.
RootCommitsToItsLeaves ==
    file # NoFile =>
        LET tree == Tree([n \in DOMAIN file.tree_nodes |->
                            NodeHash(file.tree_nodes[n].leaf)])
        IN  \A claim \in AllClaims(file) :
              IF claim \in Leaves(file)
                THEN \E n \in DOMAIN file.tree_nodes :
                        file.tree_nodes[n].leaf = claim /\ IsProven(file, n)
                ELSE ~ \E proof \in AllProofs(tree) :
                        Verify(proof, file.merkle_root, HashLeaf(NodeHash(claim)))

\* If the tree of the CSV has the root of the file, it is the tree of the file:
\* it grants the same to the same claimants and has the same size and total,
\* although the last node of an odd level is hashed with itself.  It is what
\* new-distributor relies on when it takes equal roots for equal trees.
RootDeterminesTheTree ==
    file # NoFile /\ NewTreeIsOk(csv) =>
        LET tree == NewTree(csv)
        IN  tree.merkle_root = file.merkle_root =>
              /\ Leaves(tree) = Leaves(file)
              /\ tree.max_num_nodes = file.max_num_nodes
              /\ tree.max_total_claim = file.max_total_claim

\* The tree of the CSV has one leaf per claimant, which grants the sum of his
\* rows whatever their order and categories, and the caps the distributor gets
\* are the number of leaves and the sum of all.
TreeGrantsItsRows ==
    NewTreeIsOk(csv) =>
        LET tree == NewTree(csv)
        IN  /\ Leaves(tree) =
                {[claimant        |-> w,
                  amount_unlocked |-> GrantedUnlocked(csv, w),
                  amount_locked   |-> GrantedLocked(csv, w)] :
                 w \in ClaimantsOf(csv)}
            /\ tree.max_num_nodes = Cardinality(ClaimantsOf(csv))
            /\ tree.max_total_claim = GrantedInTotal(csv)

\* A CSV is refused only when it is empty, grants more tokens than a u64 counts
\* or names too many claimants: validate never fails, whatever the shape of the
\* tree, and no partial sum overflows when the total does not.
OnlyOversizedCsvIsRefused ==
    NewTreeIsOk(csv) <=>
        /\ csv # <<>>
        /\ GrantedInTotal(csv) \in U64
        /\ Cardinality(ClaimantsOf(csv)) <= MaxTreeNodes

\* README: "Users interact with the UI to claim their available balances".
PageProvesEveryLeaf ==
    file # NoFile => \A n \in DOMAIN file.tree_nodes : PageMayClaim(file, n)

\* Comment of ui_amount_to_token_amount: "Converts a ui amount to a token amount
\* (with decimals)".
GrantsAreWorthTheirRows ==
    NewTreeIsOk(csv) =>
        \A w \in ClaimantsOf(csv) :
            GrantedUnlocked(csv, w) =
                TokenUnit * MapThenSumSet(LAMBDA n : csv[n].amount_unlocked,
                                          RowsOf(csv, w))

=============================================================================
