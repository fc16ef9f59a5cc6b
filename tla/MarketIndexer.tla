--------------------------- MODULE MarketIndexer ---------------------------
(***************************************************************************)
(* The market indexer: the loop of src/chain/indexer.service.ts that turns *)
(* a growing, reorganising chain into an ordered stream of logs, and the   *)
(* write discipline of src/chain/event-processor.service.ts, which applies *)
(* each log as several separately awaited database writes.                 *)
(*                                                                         *)
(* A block is a sequence of events, a log is an event at its place in the  *)
(* chain, and a handler is the sequence of the writes it awaits.  What the *)
(* writes store is the subject of TradeLedger and ResolutionMirror; here a *)
(* write is remembered only as having landed once, or (for a counter       *)
(* increment) more than once.                                              *)
(***************************************************************************)
EXTENDS Integers, Sequences, FiniteSets

CONSTANTS
    Markets,         \* on-chain markets of the one engine
    BlockBodies,     \* what a new block may hold: sequences of events
    StartBlock,      \* cfg.chain.startBlock
    Confirmations,   \* cfg.chain.confirmations
    BatchBlocks,     \* cfg.chain.batchBlocks
    MaxLogRequests,  \* MAX_LOG_REQUESTS_IN_FLIGHT
    Streams,         \* this.streams.length
    MaxHead,         \* bound: the chain stops growing here
    MaxReorgs,       \* bound: reorganisations of the unstable tip
    MaxFaults        \* bound: failed ticks and process crashes

(***************************************************************************)
(* Events of the three contracts, by the writes their handlers make.       *)
(***************************************************************************)
EngineKinds   == {"MarketCreated", "MarketMetadataPublished", "Bought", "Sold", "Shorted",
                  "MarketResolved", "MarketInvalidated", "Redeemed", "SeedRedeemed"}
ResolverKinds == {"Proposed", "Disputed", "Finalized", "Arbitrated", "Slashed",
                  "ProposalAbandoned", "DisputeReset"}
BlocklistKinds == {"Banned", "Unbanned"}
Kinds  == EngineKinds \cup ResolverKinds \cup BlocklistKinds
Events == [kind : Kinds, market : Markets]

ASSUME ChainAssumption == BlockBodies \subseteq Seq(Events)
ASSUME ConfigAssumption ==
    /\ StartBlock \in Nat
    /\ Confirmations \in Nat
    /\ BatchBlocks \in Nat \ {0}
    /\ MaxLogRequests \in Nat
    /\ Streams \in Nat \ {0}
ASSUME BoundAssumption == MaxHead \in Nat /\ MaxReorgs \in Nat /\ MaxFaults \in Nat

(***************************************************************************)
(* A handler's awaited writes, in order.  In the two-outcome markets of    *)
(* this module a short has one leg.                                        *)
(***************************************************************************)
Writes(kind) ==
    CASE kind = "MarketCreated" -> <<"category", "market", "draft">>
      [] kind = "MarketMetadataPublished" -> <<"category", "copy", "labels">>
      [] kind \in {"Bought", "Sold"} -> <<"trade", "pot", "shares", "position">>
      [] kind = "Shorted" -> <<"trade", "shares", "position", "pot">>
      [] kind \in {"MarketResolved", "MarketInvalidated"} -> <<"status">>
      [] kind = "Redeemed" -> <<"realized", "pot">>
      [] kind = "SeedRedeemed" -> <<"pot">>
      [] kind \in ResolverKinds -> <<"proposal">>
      [] OTHER -> <<"ban">>

WriteNames == {"category", "market", "draft", "copy", "labels", "trade", "pot", "shares",
               "position", "status", "realized", "proposal", "ban"}

\* Columns written with { increment } or { decrement }: a second landing counts twice.
Increments == {"pot", "shares", "position", "realized"}

\* Handlers that start with marketRef() and drop the event when the market is unknown.
NeedsMarket(kind) == kind \in EngineKinds \ {"MarketCreated"}
IsTrade(kind) == kind \in {"Bought", "Sold", "Shorted"}

(***************************************************************************)
(* Logs, and their place in the chain.                                     *)
(***************************************************************************)
LogRecord == [block : Nat, index : Nat, ev : Events]

\* The logs of blocks a..b of a chain, as getLogs returns them.
Logs(c, a, b) ==
    UNION {{[block |-> n, index |-> i, ev |-> c[n][i]] : i \in DOMAIN c[n]} : n \in DOMAIN c \cap a..b}

\* The order in which the chain emitted two logs.
Before(x, y) == x.block < y.block \/ (x.block = y.block /\ x.index < y.index)

(***************************************************************************)
(* The contracts: a market's logs follow its one MarketCreated.  (External) *)
(***************************************************************************)
Creation(c, a, b, l) ==
    {m \in Logs(c, a, b) :
        m.ev = [kind |-> "MarketCreated", market |-> l.ev.market] /\ Before(m, l)}

Legal(c) ==
    \A l \in Logs(c, 0, Len(c)) :
        /\ l.ev.kind \in (EngineKinds \ {"MarketCreated"}) \cup ResolverKinds =>
              Creation(c, 0, Len(c), l) # {}
        /\ l.ev.kind = "MarketCreated" => Creation(c, 0, Len(c), l) = {}

\* The deepest block of a chain that no reorganisation replaces any more.  (External: the chain
\* is trusted to keep blocks that are Confirmations deep.)
Finalised(head) == IF head > Confirmations THEN head - Confirmations ELSE 0

(***************************************************************************)
(* The arithmetic of a tick.                                               *)
(***************************************************************************)
Lesser(a, b) == IF a < b THEN a ELSE b

\* byChainOrder comparing log indices alone.
ByLogIndexOnly(x, y) == x.index < y.index \/ (x.index = y.index /\ x.block < y.block)
\* byChainOrder: block first, then position within the block.
ByChainOrder(x, y) == IF x.block = y.block THEN x.index < y.index ELSE x.block < y.block

SafeHeadAtTip(head) == head
SafeHead(head) == IF head > Confirmations THEN head - Confirmations ELSE 0

MaxRanges == IF MaxLogRequests \div Streams > 1 THEN MaxLogRequests \div Streams ELSE 1

\* plan(): up to MaxRanges contiguous ranges, the last one cut at the safe head.
Plan(from, safe) ==
    {[from |-> from + k * BatchBlocks, to |-> Lesser(from + k * BatchBlocks + BatchBlocks - 1, safe)] :
        k \in {j \in 0..(MaxRanges - 1) : from + j * BatchBlocks <= safe}}

\* ranges[ranges.length - 1].to
PlanEnd(from, safe) == Lesser(from + MaxRanges * BatchBlocks - 1, safe)

-----------------------------------------------------------------------------
VARIABLES
    chain,      \* the canonical chain; block n is chain[n]
    final,      \* history: the highest block some head so far has finalised
    reorgs,     \* bound counter
    faults,     \* bound counter
    cursor,     \* indexer_cursor.lastBlock; StartBlock - 1 stands for "no row"
    pc,         \* where the tick is: "idle", "fetch", "apply", "refresh"
    from, to,   \* the span of the running tick
    pending,    \* ranges whose getLogs has not answered
    batch,      \* logs fetched and not yet fully applied
    step,       \* writes of the first log of the batch that have landed
    touched,    \* markets whose prices this tick must refresh
    applied,    \* database: <<log, write>> that have landed
    doubled,    \* database: increments that have landed more than once
    stale,      \* markets whose stored prices are older than an applied trade
    unread      \* history: markets with a swallowed price read since they were last priced

vars == <<chain, final, reorgs, faults, cursor, pc, from, to, pending, batch, step, touched,
          applied, doubled, stale, unread>>
chainVars == <<chain, final, reorgs>>
dbVars == <<applied, doubled, stale, unread>>
spanVars == <<from, to>>

Known(m) == \E w \in applied : w[2] = "market" /\ w[1].ev.market = m

\* The log the for-loop of processBatch is at.
First(l) == l \in batch /\ \A x \in batch \ {l} : ByChainOrder(l, x)

Complete(l) == \A i \in 1..Len(Writes(l.ev.kind)) : <<l, Writes(l.ev.kind)[i]>> \in applied

-----------------------------------------------------------------------------
Init ==
    /\ chain = <<>> /\ final = 0 /\ reorgs = 0 /\ faults = 0
    /\ cursor = StartBlock - 1
    /\ pc = "idle" /\ from = 0 /\ to = 0
    /\ pending = {} /\ batch = {} /\ step = 0 /\ touched = {}
    /\ applied = {} /\ doubled = {} /\ stale = {} /\ unread = {}

NewBlock ==
    /\ Len(chain) < MaxHead
    /\ \E body \in BlockBodies : chain' = Append(chain, body)
    /\ Legal(chain')
    /\ final' = IF Finalised(Len(chain')) > final THEN Finalised(Len(chain')) ELSE final
    /\ UNCHANGED <<reorgs, faults, cursor, pc, from, to, pending, batch, step, touched, dbVars>>

\* The tip is replaced.  Confirmations is the depth the chain is trusted to keep: no block some
\* head has left that far behind is ever replaced.
Reorg ==
    /\ reorgs < MaxReorgs
    /\ \E keep \in final..(Len(chain) - 1), body \in BlockBodies :
          chain' = Append(SubSeq(chain, 1, keep), body)
    /\ Legal(chain')
    /\ reorgs' = reorgs + 1
    /\ final' = IF Finalised(Len(chain')) > final THEN Finalised(Len(chain')) ELSE final
    /\ UNCHANGED <<faults, cursor, pc, from, to, pending, batch, step, touched, dbVars>>

\* tick() without its "nothing new that is final yet" return.
StartTickUnguarded ==
    LET safe == SafeHead(Len(chain)) IN
    /\ pc = "idle"
    /\ pc' = "fetch"
    /\ from' = cursor + 1
    /\ to' = PlanEnd(cursor + 1, safe)
    /\ pending' = Plan(cursor + 1, safe)
    /\ UNCHANGED <<chainVars, faults, cursor, batch, step, touched, dbVars>>
\* tick(): read the head and the cursor, and plan.  With nothing newly safe the tick returns and
\* changes nothing, so only the other outcome is a step.
StartTick ==
    LET safe == SafeHead(Len(chain)) IN
    /\ pc = "idle"
    /\ cursor + 1 <= safe
    /\ pc' = "fetch"
    /\ from' = cursor + 1
    /\ to' = PlanEnd(cursor + 1, safe)
    /\ pending' = Plan(cursor + 1, safe)
    /\ UNCHANGED <<chainVars, faults, cursor, batch, step, touched, dbVars>>

\* One of the concurrent getLogs answers, from the chain as it is then.
FetchRange ==
    /\ pc = "fetch"
    /\ \E r \in pending :
          /\ pending' = pending \ {r}
          /\ batch' = batch \cup Logs(chain, r.from, r.to)
    /\ pc' = IF pending' = {} THEN "apply" ELSE "fetch"
    /\ UNCHANGED <<chainVars, faults, cursor, spanVars, step, touched, dbVars>>

\* The handler's first read finds no market row: the event is dropped with a warning.
DropUnknown ==
    /\ pc = "apply"
    /\ \E l \in batch :
          /\ First(l) /\ step = 0
          /\ NeedsMarket(l.ev.kind) /\ ~Known(l.ev.market)
          /\ batch' = batch \ {l}
    /\ UNCHANGED <<chainVars, faults, cursor, pc, spanVars, pending, step, touched, dbVars>>

\* A handler that treats an already recorded trade as nothing new to price.
WriteNextPricingNewTrades ==
    /\ pc = "apply"
    /\ \E l \in batch :
          LET name == Writes(l.ev.kind)[step + 1]
              last == step + 1 = Len(Writes(l.ev.kind))
          IN  /\ First(l)
              /\ NeedsMarket(l.ev.kind) => Known(l.ev.market)
              /\ applied' = applied \cup {<<l, name>>}
              /\ doubled' = IF name \in Increments /\ <<l, name>> \in applied
                            THEN doubled \cup {<<l, name>>} ELSE doubled
              /\ step' = IF last THEN 0 ELSE step + 1
              /\ batch' = IF last THEN batch \ {l} ELSE batch
              /\ touched' = IF last /\ IsTrade(l.ev.kind) /\ <<l, name>> \notin applied
                            THEN touched \cup {l.ev.market} ELSE touched
              /\ stale' = IF IsTrade(l.ev.kind) THEN stale \cup {l.ev.market} ELSE stale
    /\ UNCHANGED <<chainVars, faults, cursor, pc, spanVars, pending, unread>>
\* The next awaited write of the log the loop is at.
WriteNext ==
    /\ pc = "apply"
    /\ \E l \in batch :
          LET name == Writes(l.ev.kind)[step + 1]
              last == step + 1 = Len(Writes(l.ev.kind))
          IN  /\ First(l)
              /\ NeedsMarket(l.ev.kind) => Known(l.ev.market)
              /\ applied' = applied \cup {<<l, name>>}
              /\ doubled' = IF name \in Increments /\ <<l, name>> \in applied
                            THEN doubled \cup {<<l, name>>} ELSE doubled
              /\ step' = IF last THEN 0 ELSE step + 1
              /\ batch' = IF last THEN batch \ {l} ELSE batch
              /\ touched' = IF last /\ IsTrade(l.ev.kind)
                            THEN touched \cup {l.ev.market} ELSE touched
              /\ stale' = IF IsTrade(l.ev.kind) THEN stale \cup {l.ev.market} ELSE stale
    /\ UNCHANGED <<chainVars, faults, cursor, pc, spanVars, pending, unread>>

\* Every log of the batch is in: refresh the touched markets' prices.
BatchApplied ==
    /\ pc = "apply" /\ batch = {}
    /\ pc' = "refresh"
    /\ UNCHANGED <<chainVars, faults, cursor, spanVars, pending, batch, step, touched, dbVars>>

\* refreshPrices(): the chain answers and the vector is stored.
RefreshPrice ==
    /\ pc = "refresh"
    /\ \E m \in touched : touched' = touched \ {m} /\ stale' = stale \ {m} /\ unread' = unread \ {m}
    /\ UNCHANGED <<chainVars, faults, cursor, pc, spanVars, pending, batch, step, applied, doubled>>

\* refreshPrices(): the read fails; the failure is logged and swallowed.
RefreshFails ==
    /\ pc = "refresh" /\ faults < MaxFaults
    /\ \E m \in touched : touched' = touched \ {m} /\ unread' = unread \cup {m}
    /\ faults' = faults + 1
    /\ UNCHANGED <<chainVars, cursor, pc, spanVars, pending, batch, step, applied, doubled, stale>>

\* saveCursor(to): the tick's last write.
SaveCursor ==
    /\ pc = "refresh" /\ touched = {}
    /\ cursor' = to
    /\ pc' = "idle" /\ from' = 0 /\ to' = 0
    /\ UNCHANGED <<chainVars, faults, pending, batch, step, touched, dbVars>>

\* A failed tick whose cursor was saved all the same (a finally around saveCursor).
AbortTickSavingCursor ==
    /\ pc # "idle" /\ faults < MaxFaults
    /\ faults' = faults + 1
    /\ cursor' = to
    /\ pc' = "idle" /\ from' = 0 /\ to' = 0
    /\ pending' = {} /\ batch' = {} /\ step' = 0 /\ touched' = {}
    /\ UNCHANGED <<chainVars, dbVars>>
\* A failed tick that leaves the running flag set, so that loop() returns at once for ever.
AbortTickStillRunning ==
    /\ pc # "idle" /\ faults < MaxFaults
    /\ faults' = faults + 1
    /\ pc' = "running" /\ from' = 0 /\ to' = 0
    /\ pending' = {} /\ batch' = {} /\ step' = 0 /\ touched' = {}
    /\ UNCHANGED <<chainVars, cursor, dbVars>>
\* An await of the tick throws (an RPC call, a database write, a Redis publish), or the process
\* dies: the tick's memory is gone, the database keeps what landed, and loop() starts over from
\* the stored cursor.
AbortTick ==
    /\ pc # "idle" /\ faults < MaxFaults
    /\ faults' = faults + 1
    /\ pc' = "idle" /\ from' = 0 /\ to' = 0
    /\ pending' = {} /\ batch' = {} /\ step' = 0 /\ touched' = {}
    /\ UNCHANGED <<chainVars, cursor, dbVars>>

Tick == StartTick \/ FetchRange \/ DropUnknown \/ WriteNext \/ BatchApplied \/ RefreshPrice \/ SaveCursor
Next == NewBlock \/ Reorg \/ Tick \/ RefreshFails \/ AbortTick

\* loop() reschedules itself after every tick, failed or not, so a tick that can move does.
Fairness == WF_vars(Tick)
Spec == Init /\ [][Next]_vars
FairSpec == Spec /\ Fairness

-----------------------------------------------------------------------------
(***************************************************************************)
(* Properties                                                              *)
(***************************************************************************)

\* The types of the indexer's state; a tick runs over a non-empty span that starts after the cursor.
TypeOK ==
    /\ chain \in Seq(Seq(Events))
    /\ final \in Nat
    /\ reorgs \in Nat /\ faults \in Nat
    /\ cursor \in Int /\ cursor >= StartBlock - 1
    /\ pc \in {"idle", "fetch", "apply", "refresh"}
    /\ from \in Nat /\ to \in Nat
    /\ pc # "idle" => from = cursor + 1 /\ from <= to
    /\ pending \subseteq [from : Nat, to : Nat]
    /\ batch \subseteq LogRecord
    /\ step \in 0..3
    /\ touched \subseteq Markets
    /\ applied \subseteq LogRecord \X WriteNames
    /\ doubled \subseteq applied
    /\ stale \subseteq Markets
    /\ unread \subseteq Markets

\* A log whose handler has a market row to work on: its market was created where the indexer looks.
Due(l) == NeedsMarket(l.ev.kind) => Creation(chain, StartBlock, Len(chain), l) # {}

\* "Advances the cursor only after a batch fully commits": the cursor never passes the safe head,
\* and every write of every log at or below it has landed, whatever ticks failed on the way.
CursorSound ==
    /\ cursor > StartBlock - 1 => cursor <= final
    /\ \A l \in Logs(chain, StartBlock, cursor) : Due(l) => Complete(l)

\* processBatch applies logs in chain order and aborts at the first failure: the logs that have
\* left any trace in the database are a prefix of the chain, all of them whole but the last.
PrefixApplied ==
    \A w \in applied : \A l \in Logs(chain, StartBlock, Len(chain)) :
        Due(l) /\ Before(l, w[1]) => Complete(l)

\* "Never the unstable tip": no write in the database stems from a block a reorganisation within
\* the confirmation depth has replaced.
AppliedCanonical == \A w \in applied : w[1] \in Logs(chain, StartBlock, final)

\* The market row of a log exists when its handler looks for it: ranges fetched concurrently, two
\* contracts and a replay never bring a market's log in front of its creation, so marketRef()
\* drops only the events of markets older than the configured start block.
NothingDropped == pc = "apply" => \A l \in batch : First(l) /\ Due(l) /\ NeedsMarket(l.ev.kind) => Known(l.ev.market)

\* Stored prices lag an applied trade only while its span is still to be committed (and so will
\* be refreshed), or after a price read whose failure refreshPrices swallowed.
PricesFollowTrades ==
    \A m \in stale \ unread :
        \E w \in applied : IsTrade(w[1].ev.kind) /\ w[1].ev.market = m /\ w[1].block > cursor

\* README: the indexer "is idempotent ..., so re-scans never duplicate".  It is not so for the
\* counters: the pot, share and position increments of a replayed log land again.
NeverDoubled == doubled = {}

\* Once the chain rests and ticks stop failing, the cursor reaches the safe head and stays there.
CatchesUp == <>[](cursor >= SafeHead(Len(chain)))
=============================================================================
