--------------------------- MODULE AppendOnlyTree ---------------------------
(***************************************************************************)
(* What a mirror of an append-only Merkle tree promises its readers: a     *)
(* sequence of leaves that only ever grows at its end.  The root of a      *)
(* LeanIMT is a function of that sequence and is not modelled apart from   *)
(* it (src/pool/pool.tree.ts, "order is the contract").                    *)
(***************************************************************************)
EXTENDS Naturals, Sequences

CONSTANT Leaf
VARIABLE tree

Init == tree = <<>>

\* One or more leaves are inserted, in order; what is in the tree stays where it is.
Insert ==
    /\ tree' \in Seq(Leaf)
    /\ Len(tree') > Len(tree)
    /\ SubSeq(tree', 1, Len(tree)) = tree

Spec == Init /\ [][Insert]_tree
=============================================================================
