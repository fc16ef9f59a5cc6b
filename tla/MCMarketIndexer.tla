-------------------------- MODULE MCMarketIndexer --------------------------
(* Small chains for MarketIndexer: one or two markets, blocks of at most   *)
(* two events, and the engine's, the resolver's and the block list's logs. *)
EXTENDS MarketIndexer

CONSTANTS m1, m2

Event(k, m) == [kind |-> k, market |-> m]

\* Two markets' lives in few blocks: created (with a trade, or after another market's), traded,
\* proposed, redeemed; m1 may be created before the start block.
MCBodies == {
    <<>>,
    <<Event("MarketCreated", m1), Event("Bought", m1)>>,
    <<Event("Shorted", m1), Event("MarketCreated", m2)>>,
    <<Event("Redeemed", m2), Event("Proposed", m1)>>}

\* One market, created with a first trade.
MCOneTrade == {<<>>, <<Event("MarketCreated", m1), Event("Bought", m1)>>}
=============================================================================
