--------------------------- MODULE MCTradeLedger ---------------------------
(* Two accounts on a three-outcome market, so that a short has two legs    *)
(* and its cost does not always divide.                                    *)
EXTENDS TradeLedger, TLC

CONSTANTS a1, a2

AccountSymmetry == Permutations({a1, a2})
=============================================================================
