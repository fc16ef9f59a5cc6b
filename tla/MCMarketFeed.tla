---------------------------- MODULE MCMarketFeed ----------------------------
(* The detail lives one tick, the list two.                                *)
EXTENDS MarketFeed

CONSTANTS c1, r1

MCKeys == {"detail", "list"}
MCTTL == [detail |-> 1, list |-> 2]
=============================================================================
