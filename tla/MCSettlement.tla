---------------------------- MODULE MCSettlement ----------------------------
(* Three proposals whose windows close one after the other.                *)
EXTENDS Settlement

CONSTANTS p1, p2, p3

MCDeadline == [p \in {p1, p2, p3} |-> CASE p = p1 -> 0 [] p = p2 -> 1 [] p = p3 -> 2]
=============================================================================
