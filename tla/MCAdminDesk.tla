----------------------------- MODULE MCAdminDesk -----------------------------
(* One role, which one of two contracts grants at the start, two copies,   *)
(* which the script seeds, and a text that encodes none.                   *)
EXTENDS AdminDesk

CONSTANTS r1, k1, c1, c2, x1

MCTTL == [k \in {k1} |-> 1]
MCSeeds == <<c1, c2>>
MCContracts == <<"engine", "factory">>
MCInitially == {{"factory"}}
=============================================================================
