----------------------------- MODULE MarketFeed -----------------------------
(***************************************************************************)
(* What clients see of a market that changes: the cached reads of          *)
(* src/markets/markets.service.ts, the order in which the handlers of      *)
(* src/chain/event-processor.service.ts write, drop the cache and publish, *)
(* and the fan-out of src/realtime/realtime.gateway.ts.                    *)
(*                                                                         *)
(* One market and one list it appears in.  Its rows have a version, which  *)
(* every write raises; a view is the version it was read at.  A status     *)
(* change, a trade and a redemption are handled differently: a status      *)
(* change drops both cached views before it is published, a trade is       *)
(* published at once and drops only the detail, and only when its prices   *)
(* could be read, and a redemption is not published.                       *)
(***************************************************************************)
EXTENDS ReadCache, Sequences, SequencesExt

CONSTANTS
    Clients,    \* readers that may also hold a socket
    MaxWrites,  \* bound: logs handled
    MaxFaults   \* bound: failed ticks, lost subscriptions

ASSUME FeedAssumption ==
    /\ MaxWrites \in Nat /\ MaxFaults \in Nat
    /\ Keys = {"detail", "list"} /\ Clients \subseteq Readers

VARIABLES
    version,    \* of the market's rows
    statusAt,   \* the version written by the last status change
    announced,  \* history: announced[k]: the last version whose handler has dropped k and is done
    handler,    \* the handler that is running, at which step, with which keys still to drop
    bus,        \* published status changes that the gateway has not relayed
    room,       \* clients that joined the market's room
    aware,      \* clients that have been told of the last status change
    synced,     \* history: clients whose view was read after they joined, with nothing lost since
    counts,     \* history: reads under way that will make their client synced
    tainted,    \* history: of them, clients last served an entry that had been overtaken
    writes, faults

marketVars == <<version, statusAt, announced, handler, writes>>
clientVars == <<bus, room, aware, synced, counts, tainted>>
vars == <<cacheVars, marketVars, clientVars, faults>>

Kinds == {"status", "trade", "redeem"}
Handling(at) == handler.at = at
Idle == [at |-> "idle", kind |-> "none", todo |-> {}]

-----------------------------------------------------------------------------
Init ==
    /\ CacheInit
    /\ version = 0 /\ statusAt = 0 /\ announced = [k \in Keys |-> 0]
    /\ handler = Idle
    /\ bus = <<>> /\ room = {} /\ aware = {}
    /\ synced = {} /\ counts = {} /\ tainted = {}
    /\ writes = 0 /\ faults = 0

(* ---- the handlers ---- *)

\* The rows a handler writes.  The log of a tick that failed is handled again.
Writes(kind) ==
    /\ \/ Handling("idle") /\ writes < MaxWrites /\ writes' = writes + 1
       \/ Handling("retry") /\ kind = handler.kind /\ UNCHANGED writes
    /\ version' = version + 1
    /\ statusAt' = IF kind = "status" THEN version + 1 ELSE statusAt
    /\ aware' = IF kind = "status" THEN {} ELSE aware
    /\ age' = Renewed(Keys)
    /\ handler' = IF kind = "trade" THEN [at |-> "traded", kind |-> kind, todo |-> {}]
                  ELSE [at |-> "dropping", kind |-> kind, todo |-> Keys]
    /\ UNCHANGED <<cache, fill, announced, bus, room, synced, counts, tainted, faults>>

\* publishMarket(Trade): nothing has been dropped.
PublishTrade ==
    /\ Handling("traded")
    /\ handler' = [handler EXCEPT !.at = "refresh"]
    /\ UNCHANGED <<cacheVars, version, statusAt, announced, writes, clientVars, faults>>

\* refreshPrices: the chain's prices are written and the detail is to be dropped ...
WritePrices ==
    /\ Handling("refresh")
    /\ version' = version + 1
    /\ age' = Renewed(Keys)
    /\ handler' = [handler EXCEPT !.at = "dropping", !.todo = {"detail"}]
    /\ UNCHANGED <<cache, fill, statusAt, announced, writes, clientVars, faults>>

\* ... or they cannot be read, and both cached views stay.
PricesUnread ==
    /\ Handling("refresh")
    /\ handler' = Idle
    /\ UNCHANGED <<cacheVars, version, statusAt, announced, writes, clientVars, faults>>

\* invalidate issues both deletions at once; each lands on its own.
DropKey(k) ==
    /\ Handling("dropping") /\ k \in handler.todo
    /\ Drop({k}) /\ fill' = Overtaken(k, version)
    /\ handler' = [handler EXCEPT !.todo = @ \ {k}]
    /\ UNCHANGED <<age, version, statusAt, announced, writes, clientVars, faults>>

Dropped == IF handler.kind = "trade" THEN {"detail"} ELSE Keys

\* Mutant: the status is published as soon as it is written, and the cache dropped meanwhile.
FinishEarly ==
    /\ Handling("dropping")
    /\ announced' = [k \in Keys |-> IF k \in Dropped THEN version ELSE announced[k]]
    /\ bus' = IF handler.kind = "status" THEN Append(bus, statusAt) ELSE bus
    /\ handler' = Idle
    /\ UNCHANGED <<cacheVars, version, statusAt, writes, room, aware, synced, counts, tainted, faults>>

\* The handler publishes, unless it is a redemption's, and is done.  The messages of trades and
\* prices are left out of the bus: what clients are asked to know is the status.
Finish ==
    /\ Handling("dropping") /\ handler.todo = {}
    /\ announced' = [k \in Keys |-> IF k \in Dropped THEN version ELSE announced[k]]
    /\ bus' = IF handler.kind = "status" THEN Append(bus, statusAt) ELSE bus
    /\ handler' = Idle
    /\ UNCHANGED <<cacheVars, version, statusAt, writes, room, aware, synced, counts, tainted, faults>>

\* An exception or a crash: the indexer starts over from its cursor, with this log.
TickAborts ==
    /\ ~ Handling("idle") /\ ~ Handling("retry")
    /\ faults < MaxFaults /\ faults' = faults + 1
    /\ handler' = [handler EXCEPT !.at = "retry"]
    /\ UNCHANGED <<cacheVars, version, statusAt, announced, writes, clientVars>>

(* ---- GET /markets and GET /markets/:id ---- *)

\* c is given the market as of version v, from a read that makes it synced or not.
Told(c, v, sure, stale) ==
    IF c \notin Clients THEN UNCHANGED <<aware, synced, tainted>> ELSE
    /\ aware' = IF v >= statusAt THEN aware \cup {c} ELSE aware
    /\ synced' = IF sure THEN synced \cup {c} ELSE synced
    /\ tainted' = IF stale /\ c \in synced' THEN tainted \cup {c} ELSE tainted \ {c}

\* getById finds an entry.
Hits(c) ==
    /\ ~ Reading(c) /\ Cached("detail")
    /\ Told(c, cache["detail"].value, c \in room, cache["detail"].raced)
    /\ UNCHANGED <<cacheVars, marketVars, bus, room, counts, faults>>

\* getById or list finds none ...
FindsNone(c, k) ==
    /\ Misses(c, k, Nothing)
    /\ counts' = counts \ {c}
    /\ UNCHANGED <<cache, age, marketVars, bus, room, aware, synced, tainted, faults>>

\* ... and reads the rows, whatever the cache holds by then.
ReadsRows(c) ==
    /\ Reading(c) /\ fill[c].value = Nothing
    /\ fill' = [fill EXCEPT ![c].value = version]
    /\ counts' = IF c \in room /\ fill[c].key = "detail" THEN counts \cup {c} ELSE counts \ {c}
    /\ UNCHANGED <<cache, age, marketVars, bus, room, aware, synced, tainted, faults>>

\* The view is cached, then answered.
Answers(c) ==
    /\ fill[c].value # Nothing /\ Stores(c)
    /\ IF fill[c].key = "detail"
       THEN Told(c, fill[c].value, c \in counts, FALSE)
       ELSE UNCHANGED <<aware, synced, tainted>>
    /\ counts' = counts \ {c}
    /\ UNCHANGED <<age, marketVars, bus, room, faults>>

\* The database or Redis throws: the client gets an error.
AnswersError(c) ==
    /\ ReadFails(c)
    /\ counts' = counts \ {c}
    /\ UNCHANGED <<cache, age, marketVars, bus, room, aware, synced, tainted, faults>>

(* ---- the gateway ---- *)

\* onSubscribe
Joins(c) ==
    /\ c \in Clients \ room
    /\ room' = room \cup {c}
    /\ UNCHANGED <<cacheVars, marketVars, bus, aware, synced, counts, tainted, faults>>

\* onUnsubscribe, and a socket that is gone.
Leaves(c) ==
    /\ c \in room
    /\ room' = room \ {c} /\ synced' = synced \ {c} /\ counts' = counts \ {c} /\ tainted' = tainted \ {c}
    /\ UNCHANGED <<cacheVars, marketVars, bus, aware, faults>>

\* Mutant: only clients that have read the market are sent its changes.
RelaysToSynced ==
    /\ bus # <<>>
    /\ aware' = IF Head(bus) >= statusAt THEN aware \cup (room \cap synced) ELSE aware
    /\ bus' = Tail(bus)
    /\ UNCHANGED <<cacheVars, marketVars, room, synced, counts, tainted, faults>>

\* relay: who is in the room when the message arrives is sent it.
Relays ==
    /\ bus # <<>>
    /\ aware' = IF Head(bus) >= statusAt THEN aware \cup room ELSE aware
    /\ bus' = Tail(bus)
    /\ UNCHANGED <<cacheVars, marketVars, room, synced, counts, tainted, faults>>

\* The subscriber's connection breaks: Redis keeps nothing for it, and no client is told.
SubscriptionLost ==
    /\ faults < MaxFaults /\ faults' = faults + 1
    /\ bus' = <<>> /\ synced' = {} /\ counts' = {} /\ tainted' = {}
    /\ UNCHANGED <<cacheVars, marketVars, room, aware>>

TimePasses == Tick /\ UNCHANGED <<marketVars, clientVars, faults>>

-----------------------------------------------------------------------------
Handler ==
    \/ \E kind \in Kinds : Writes(kind)
    \/ PublishTrade \/ WritePrices \/ PricesUnread \/ Finish \/ TickAborts
    \/ \E k \in Keys : DropKey(k)

Reader(c) ==
    \/ Hits(c) \/ ReadsRows(c) \/ Answers(c) \/ AnswersError(c) \/ Joins(c) \/ Leaves(c)
    \/ \E k \in Keys : FindsNone(c, k)

Next == Handler \/ Relays \/ SubscriptionLost \/ TimePasses \/ \E c \in Readers : Reader(c)

Spec == Init /\ [][Next]_vars

-----------------------------------------------------------------------------
(* Properties *)

\* Every variable stays in its type.
TypeOK ==
    /\ CacheTypeOK(0..version)
    /\ version \in Nat /\ statusAt \in 0..version /\ announced \in [Keys -> 0..version]
    /\ handler.at \in {"idle", "retry", "traded", "refresh", "dropping"} /\ handler.todo \subseteq Keys
    /\ bus \in Seq(0..version) /\ aware \subseteq Clients
    /\ room \subseteq Clients /\ synced \subseteq room /\ counts \subseteq room /\ tainted \subseteq synced

\* Once a handler that drops a view is done (MarketsService.invalidate, applyPrices), a cached view
\* is older than what it wrote only if its read was overtaken by the handler.
StaleOnlyIfOvertaken ==
    \A k \in Keys : Cached(k) /\ cache[k].value < announced[k] => cache[k].raced

\* No cached view is out of date for longer than its time to live and the time its read took
\* (LIST_TTL, DETAIL_TTL): whether it was overtaken, never dropped (a trade, in the list), or left by
\* a failed tick or an unread price.
StaleForAtMost ==
    \A k \in Keys : Cached(k) /\ cache[k].value # version => age[k] <= Reach(k)

\* A client that joins a market's room and then reads the market misses no change of its status
\* (onSubscribe, relay, announceResolution): once the change has been handled and relayed the client
\* knows it, from the view or from the message, unless a subscription was lost since, or the view came
\* from an entry that somebody's overtaken read had left in the cache.
NoStatusMissed ==
    \A c \in synced :
        handler.kind # "status" /\ bus = <<>> /\ c \notin tainted => c \in aware
=============================================================================
