--------------------------- MODULE MCPoolWithdraw ---------------------------
(* Interchangeable withdrawals.                                            *)
EXTENDS PoolWithdraw

CONSTANTS w1, w2, w3
=============================================================================
