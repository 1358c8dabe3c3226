----------------------------- MODULE MerkleTree -----------------------------
(***************************************************************************)
(* The hash tree (merkle-tree/src/merkle_tree.rs, utils.rs) and the        *)
(* verification of a proof against its root (verify/src/lib.rs).           *)
(*                                                                         *)
(* A hash is the term it is the hash of: no two inputs collide.  Sorted    *)
(* hashing puts the smaller of two siblings first, so that the hash of a   *)
(* pair depends on the two and not on their order: it is the hash of a     *)
(* set.  A tree is the sequence of its levels, leaves first; the code      *)
(* stores the same levels one after the other in one vector.               *)
(***************************************************************************)
EXTENDS Naturals, Sequences, SequencesExt

LEAF_PREFIX == 0
INTERMEDIATE_PREFIX == 1

HashLeaf(data) == <<LEAF_PREFIX, data>>

HashIntermediate(l, r) == <<INTERMEDIATE_PREFIX, {l, r}>>

NextLevelLen(level_len) == IF level_len = 1 THEN 0 ELSE (level_len + 1) \div 2

\* The sibling of the node at the (zero-based) index of its level.
Sibling(level, index) ==
    IF index % 2 = 1
      THEN level[index]
      ELSE IF index + 1 < Len(level)
             THEN level[index + 2]
             ELSE level[index + 1]       \* last of an odd level: itself

\* The level above: the hashes of the pairs (2i, 2i + 1).
Parents(level) ==
    [n \in 1 .. NextLevelLen(Len(level)) |->
        HashIntermediate(level[2 * n - 1], Sibling(level, 2 * n - 2))]

\* MerkleTree::new: the levels, from the leaves up to the root.
Tree(items) ==
    LET level[k \in Nat] ==
            IF k = 0 THEN [n \in DOMAIN items |-> HashLeaf(items[n])]
                     ELSE Parents(level[k - 1])
        levels == {k \in 0 .. Len(items) : level[k] # <<>>}
    IN  [n \in 1 .. Cardinality(levels) |-> level[n - 1]]

\* get_root is None for the tree of no items.
HasRoot(tree) == tree # <<>>

GetRoot(tree) == Last(tree)[1]

\* node_index of find_path: the index of the node k levels above the leaf.
NodeIndex(index) ==
    LET node_index[k \in Nat] ==
            IF k = 0 THEN index ELSE node_index[k - 1] \div 2
    IN  node_index

\* get_proof(find_path(index)): the siblings on the way up, root excluded.
\* Mutant: the last sibling is left out.
GetProof_NoTop(tree, index) ==
    [k \in 1 .. Len(tree) - 2 |-> Sibling(tree[k], NodeIndex(index)[k - 1])]

GetProof(tree, index) ==
    [k \in 1 .. Len(tree) - 1 |-> Sibling(tree[k], NodeIndex(index)[k - 1])]

\* The proof leads from the leaf to the root.
Verify(proof, root, leaf) == FoldLeft(HashIntermediate, leaf, proof) = root

=============================================================================
