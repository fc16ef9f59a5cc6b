----------------------------- MODULE MCRelayBoot -----------------------------
(* Two selectors, one retry, two operators, a balance that is low or not.   *)
EXTENDS RelayBoot

CONSTANTS p1, p2
=============================================================================
