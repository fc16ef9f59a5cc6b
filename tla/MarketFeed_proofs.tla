-------------------------- MODULE MarketFeed_proofs --------------------------
(***************************************************************************)
(* Proofs about MarketFeed: a cached view of a market is out of date only  *)
(* if its read was overtaken, and for no longer than its time to live and  *)
(* the read, and a client that joins and then reads misses no status, for  *)
(* any readers, clients, writes and failures.                              *)
(*                                                                         *)
(* What a reader holds between its read and its store is what makes the    *)
(* two properties inductive: FillAge and FillSwept say of it what CacheAge *)
(* and CacheSwept say of an entry.                                         *)
(***************************************************************************)
EXTENDS MarketFeed, TLAPS, SequenceTheorems

-----------------------------------------------------------------------------
CacheType ==
    /\ cache \in [Keys -> [value: Nat \cup {Nothing}, ttl: Nat, raced: BOOLEAN]]
    /\ \A k \in Keys : cache[k].ttl <= TTL[k]
    /\ age \in [Keys -> Nat] /\ \A k \in Keys : age[k] <= Old(k)

FillType ==
    fill \in [Readers -> [key: Keys \cup {Nothing}, value: Nat \cup {Nothing}, lag: 0..MaxLag, raced: BOOLEAN]]

HandlerType ==
    /\ version \in Nat
    /\ announced \in [Keys -> Nat] /\ \A k \in Keys : announced[k] <= version
    /\ handler \in [at: {"idle", "retry", "traded", "refresh", "dropping"},
                    kind: Kinds \cup {"none"}, todo: SUBSET Keys]
    /\ handler.at \in {"traded", "refresh"} => handler.kind = "trade"

FeedType == CacheType /\ FillType /\ HandlerType

\* A reader's value was overtaken after it was read, an entry's while it was read or later.
FillAge ==
    \A r \in Readers : Reading(r) /\ fill[r].value \notin {Nothing, version} => age[fill[r].key] <= fill[r].lag
CacheAge ==
    \A k \in Keys : Cached(k) /\ cache[k].value # version => age[k] <= Reach(k) - cache[k].ttl

\* The running handler has dropped k already.
Swept(k) == handler.at = "dropping" /\ k \in Dropped \ handler.todo

\* Version v of k is out of date for all that a handler has dropped.
Overdue(k, v) == v < announced[k] \/ (Swept(k) /\ v < version)

FillSwept ==
    \A r \in Readers : Reading(r) /\ fill[r].value # Nothing /\ Overdue(fill[r].key, fill[r].value)
                       => fill[r].raced
CacheSwept ==
    \A k \in Keys : Cached(k) /\ Overdue(k, cache[k].value) => cache[k].raced

FeedInv == FeedType /\ FillAge /\ CacheAge /\ FillSwept /\ CacheSwept

\* What the steps below calculate with.
LEMMA Lives ==
    /\ MaxLag \in Nat
    /\ \A k \in Keys : TTL[k] \in Nat \ {0} /\ Reach(k) = TTL[k] + MaxLag /\ Old(k) = TTL[k] + MaxLag + 1
    /\ \A k \in Keys : Old(k) \in Nat
BY CacheAssumption DEF Reach, Old

\* Nothing is cached, read or handled at the start.
LEMMA FeedInit == Init => FeedInv
<1> SUFFICES ASSUME Init PROVE FeedInv
  OBVIOUS
<1> USE DEF Init, CacheInit
<1>1. CacheType
  <2>1. ASSUME NEW k \in Keys PROVE Old(k) \in Nat /\ 0 <= TTL[k] /\ Old(k) <= Old(k)
    BY Lives, TTL[k] \in Nat
  <2> QED BY <2>1 DEF CacheType, NoEntry
<1>2. FillType
  BY Lives DEF FillType, NoFill
<1>3. HandlerType
  BY DEF HandlerType, Idle, Kinds
<1>4. FillAge /\ CacheAge /\ FillSwept /\ CacheSwept
  BY DEF FillAge, CacheAge, FillSwept, CacheSwept, Reading, Cached, NoEntry, NoFill
<1> QED BY <1>1, <1>2, <1>3, <1>4 DEF FeedInv, FeedType

\* A handler that writes makes every view recent, and has dropped nothing yet.
LEMMA RowsWritten ==
    ASSUME FeedInv, UNCHANGED <<cache, fill, announced>>, version' = version + 1,
           age' = Renewed(Keys), HandlerType', \A k \in Keys : ~ Swept(k)'
    PROVE  FeedInv'
<1>1. age' = [k \in Keys |-> 0]
  BY DEF Renewed
<1>2. CacheType' /\ FillType'
  BY <1>1, Lives DEF FeedInv, FeedType, CacheType, FillType, Old
<1>3. FillAge'
  BY <1>1, Lives DEF FeedInv, FeedType, FillType, FillAge, Reading
<1>4. CacheAge'
  <2> SUFFICES ASSUME NEW k \in Keys PROVE 0 <= Reach(k) - cache[k].ttl
    BY <1>1 DEF CacheAge, Cached, Reach
  <2>1. cache[k].ttl \in Nat /\ cache[k].ttl <= TTL[k]
    BY DEF FeedInv, FeedType, CacheType
  <2> QED BY <2>1, Lives
<1>5. FillSwept' /\ CacheSwept'
  BY DEF FeedInv, FeedType, FillType, FillSwept, CacheSwept, Overdue, Reading, Cached
<1> QED BY <1>2, <1>3, <1>4, <1>5 DEF FeedInv, FeedType

\* The first writes of a handler, for any kind of log.
LEMMA WritesKeeps ==
    ASSUME FeedInv, NEW kind \in Kinds, Writes(kind)
    PROVE  FeedInv'
<1> USE DEF Writes
<1>1. HandlerType'
  BY DEF FeedInv, FeedType, HandlerType
<1>2. \A k \in Keys : ~ Swept(k)'
  BY DEF Swept, Dropped
<1> QED BY <1>1, <1>2, RowsWritten

\* refreshPrices() writes the market once more and leaves only the detail to drop.
LEMMA WritePricesKeeps ==
    ASSUME FeedInv, WritePrices
    PROVE  FeedInv'
<1> USE DEF WritePrices, clientVars
<1>1. HandlerType /\ handler.kind = "trade"
  BY DEF FeedInv, FeedType, HandlerType, Handling
<1>2. handler'.kind = "trade" /\ handler'.todo = {"detail"}
  BY <1>1 DEF HandlerType
<1>3. HandlerType'
  <2>1. handler' \in [at: {"idle", "retry", "traded", "refresh", "dropping"},
                      kind: Kinds \cup {"none"}, todo: SUBSET Keys]
    BY <1>1, FeedAssumption DEF HandlerType
  <2>2. handler'.at = "dropping"
    BY <1>1 DEF HandlerType
  <2>3. version' \in Nat /\ announced' \in [Keys -> Nat] /\ \A k \in Keys : announced'[k] <= version'
    BY <1>1 DEF HandlerType
  <2> QED BY <2>1, <2>2, <2>3 DEF HandlerType
<1>4. \A k \in Keys : ~ Swept(k)'
  BY <1>2 DEF Swept, Dropped
<1> QED BY <1>3, <1>4, RowsWritten

\* A step of a handler that writes no rows, and drops nothing.
LEMMA HandlerMoves ==
    ASSUME FeedInv, UNCHANGED <<cacheVars, version, announced>>, HandlerType',
           \A k \in Keys : Swept(k)' => Swept(k)
    PROVE  FeedInv'
BY DEF FeedInv, FeedType, CacheType, FillType, HandlerType, FillAge, CacheAge, FillSwept, CacheSwept,
       Overdue, Reading, Cached, cacheVars

\* A trade that is published has dropped nothing.
LEMMA PublishTradeKeeps ==
    ASSUME FeedInv, PublishTrade
    PROVE  FeedInv'
<1> USE DEF PublishTrade
<1>1. HandlerType
  BY DEF FeedInv, FeedType
<1>2. handler'.at = "refresh" /\ handler'.kind = handler.kind /\ handler.kind = "trade"
      /\ handler' \in [at: {"idle", "retry", "traded", "refresh", "dropping"},
                       kind: Kinds \cup {"none"}, todo: SUBSET Keys]
  BY <1>1 DEF HandlerType, Handling
<1>3. HandlerType'
  BY <1>1, <1>2 DEF HandlerType
<1> QED BY <1>2, <1>3, HandlerMoves DEF Swept

\* A handler that gives up, or a tick that starts over, has nothing left to drop.
LEMMA HandlerRests ==
    ASSUME FeedInv, PricesUnread \/ TickAborts
    PROVE  FeedInv'
<1>1. HandlerType
  BY DEF FeedInv, FeedType
<1>2. handler' \in [at: {"idle", "retry"}, kind: Kinds \cup {"none"}, todo: SUBSET Keys]
  BY <1>1 DEF PricesUnread, TickAborts, Idle, HandlerType
<1>3. UNCHANGED <<cacheVars, version, announced>>
  BY DEF PricesUnread, TickAborts
<1>4. HandlerType'
  BY <1>1, <1>2, <1>3 DEF HandlerType
<1>5. \A k \in Keys : ~ Swept(k)'
  BY <1>2 DEF Swept
<1> QED BY <1>3, <1>4, <1>5, HandlerMoves

\* A deletion overtakes every read under way of what was there before.
LEMMA DropKeyKeeps ==
    ASSUME FeedInv, NEW k \in Keys, DropKey(k)
    PROVE  FeedInv'
<1> USE DEF DropKey
<1>1. FeedType
  BY DEF FeedInv
<1>2. handler' \in [at: {"idle", "retry", "traded", "refresh", "dropping"},
                    kind: Kinds \cup {"none"}, todo: SUBSET Keys]
      /\ handler'.at = "dropping" /\ handler'.kind = handler.kind /\ handler'.todo = handler.todo \ {k}
  BY <1>1 DEF FeedType, HandlerType, Handling
<1>3. HandlerType'
  BY <1>1, <1>2 DEF FeedType, HandlerType
<1>4. \A j \in Keys : Swept(j)' => Swept(j) \/ j = k
  BY <1>2 DEF Swept, Dropped, Handling
<1>5. cache' = [j \in Keys |-> IF j = k THEN NoEntry ELSE cache[j]]
  BY DEF Drop
<1>6. CacheType'
  BY <1>1, <1>5, Lives DEF FeedType, CacheType, NoEntry, Old
<1> DEFINE hit(r) == fill[r].raced \/ (fill[r].key = k /\ fill[r].value \notin {Nothing, version})
<1>7. fill' = [r \in Readers |-> [fill[r] EXCEPT !.raced = hit(r)]] /\ \A r \in Readers : hit(r) \in BOOLEAN
  BY DEF Overtaken
<1> HIDE DEF hit
<1>8. /\ FillType'
      /\ \A r \in Readers :
           /\ fill'[r].key = fill[r].key /\ fill'[r].value = fill[r].value /\ fill'[r].lag = fill[r].lag
           /\ fill'[r].raced = hit(r)
  BY <1>1, <1>7 DEF FeedType, FillType
<1>9. FillAge' /\ CacheAge'
  BY <1>5, <1>8 DEF FeedInv, FillAge, CacheAge, Reading, Cached, NoEntry
<1>10. CacheSwept'
  <2> SUFFICES ASSUME NEW j \in Keys, Cached(j)', Overdue(j, cache[j].value)' PROVE cache'[j].raced
    BY DEF CacheSwept
  <2>1. j # k /\ cache'[j] = cache[j]
    BY <1>5 DEF Cached, NoEntry
  <2>2. Overdue(j, cache[j].value)
    BY <1>4, <2>1 DEF Overdue
  <2> QED BY <2>1, <2>2 DEF FeedInv, CacheSwept, Cached
<1>11. FillSwept'
  <2> SUFFICES ASSUME NEW r \in Readers, Reading(r)', fill'[r].value # Nothing,
                      Overdue(fill[r].key, fill[r].value)'
               PROVE  fill'[r].raced
    BY DEF FillSwept
  <2>1. fill[r].key \in Keys /\ fill[r].value \in Nat /\ version \in Nat
        /\ announced[fill[r].key] <= version /\ announced[fill[r].key] \in Nat
    BY <1>1, <1>8 DEF FeedType, FillType, HandlerType, Reading
  <2>2. CASE fill[r].key = k
    <3>1. fill[r].value \notin {Nothing, version}
      BY <1>8, <2>1 DEF Overdue
    <3> QED BY <1>8, <2>2, <3>1 DEF hit
  <2>3. CASE fill[r].key # k
    <3>1. Overdue(fill[r].key, fill[r].value)
      BY <1>4, <1>8, <2>1, <2>3 DEF Overdue
    <3> QED BY <1>8, <3>1 DEF FeedInv, FillSwept, Reading, hit
  <2> QED BY <2>2, <2>3
<1> QED BY <1>3, <1>6, <1>8, <1>9, <1>10, <1>11 DEF FeedInv, FeedType

\* A handler that is done has swept what it announces.
LEMMA FinishKeeps ==
    ASSUME FeedInv, Finish
    PROVE  FeedInv'
<1> USE DEF Finish
<1>1. FeedType /\ UNCHANGED <<cache, fill, age, version>>
  BY DEF FeedInv, cacheVars
<1>2. announced' = [k \in Keys |-> IF k \in Dropped THEN version ELSE announced[k]]
  OBVIOUS
<1>3. HandlerType' /\ handler'.at = "idle"
  BY <1>1, <1>2 DEF FeedType, HandlerType, Idle, Kinds
<1>4. ASSUME NEW k \in Keys, NEW v, Overdue(k, v)' PROVE Overdue(k, v)
  <2>1. v < announced'[k]
    BY <1>3, <1>4 DEF Overdue, Swept
  <2>2. CASE k \in Dropped
    BY <1>2, <2>1, <2>2 DEF Overdue, Swept, Handling
  <2>3. CASE k \notin Dropped
    BY <1>2, <2>1, <2>3 DEF Overdue
  <2> QED BY <2>2, <2>3
<1>5. CacheSwept'
  BY <1>1, <1>4 DEF FeedInv, CacheSwept, Cached
<1>6. FillSwept'
  BY <1>1, <1>4 DEF FeedInv, FeedType, FillType, FillSwept, Reading
<1>7. CacheType' /\ FillType' /\ FillAge' /\ CacheAge'
  BY <1>1 DEF FeedInv, FeedType, CacheType, FillType, FillAge, CacheAge, Reading, Cached
<1> QED BY <1>3, <1>5, <1>6, <1>7 DEF FeedInv, FeedType

\* A reader that misses has read nothing yet.
LEMMA FindsNoneKeeps ==
    ASSUME FeedInv, NEW c \in Readers, NEW k \in Keys, FindsNone(c, k)
    PROVE  FeedInv'
<1> USE DEF FindsNone, Misses
<1>1. FeedType /\ UNCHANGED <<cache, age, version, announced, handler>>
  BY DEF FeedInv, marketVars
<1>2. fill'[c] = [key |-> k, value |-> Nothing, lag |-> 0, raced |-> FALSE]
      /\ \A r \in Readers \ {c} : fill'[r] = fill[r]
  BY <1>1 DEF FeedType, FillType
<1>3. FillType'
  BY <1>1, Lives DEF FeedType, FillType
<1>4. CacheType' /\ HandlerType' /\ CacheAge' /\ CacheSwept'
  BY <1>1 DEF FeedInv, FeedType, CacheType, HandlerType, CacheAge, CacheSwept, Cached, Overdue, Swept,
              Dropped
<1>5. FillAge'
  BY <1>1, <1>2 DEF FeedInv, FillAge, Reading
<1>6. FillSwept'
  BY <1>1, <1>2 DEF FeedInv, FillSwept, Reading, Overdue, Swept, Dropped
<1> QED BY <1>3, <1>4, <1>5, <1>6 DEF FeedInv, FeedType

\* It reads the rows as they are.
LEMMA ReadsRowsKeeps ==
    ASSUME FeedInv, NEW c \in Readers, ReadsRows(c)
    PROVE  FeedInv'
<1> USE DEF ReadsRows
<1>1. FeedType /\ UNCHANGED <<cache, age, version, announced, handler>>
  BY DEF FeedInv, marketVars
<1>2. /\ fill'[c].key = fill[c].key /\ fill'[c].value = version /\ fill[c].key \in Keys
      /\ \A r \in Readers \ {c} : fill'[r] = fill[r]
  BY <1>1 DEF FeedType, FillType, Reading
<1>3. FillType'
  BY <1>1, Lives DEF FeedType, FillType, HandlerType
<1>4. CacheType' /\ HandlerType' /\ CacheAge' /\ CacheSwept'
  BY <1>1 DEF FeedInv, FeedType, CacheType, HandlerType, CacheAge, CacheSwept, Cached, Overdue, Swept,
              Dropped
<1>5. FillAge'
  BY <1>1, <1>2 DEF FeedInv, FillAge, Reading
<1>6. ~ Overdue(fill[c].key, version)
  BY <1>1, <1>2 DEF FeedType, HandlerType, Overdue
<1>7. FillSwept'
  <2> SUFFICES ASSUME NEW r \in Readers, Reading(r)', fill'[r].value # Nothing,
                      Overdue(fill[r].key, fill[r].value)'
               PROVE  fill'[r].raced
    BY DEF FillSwept
  <2>1. Overdue(fill'[r].key, fill'[r].value)
    BY <1>1 DEF Overdue, Swept, Dropped
  <2>2. r # c
    BY <1>2, <1>6, <2>1
  <2> QED BY <1>2, <2>1, <2>2 DEF FeedInv, FillSwept, Reading
<1> QED BY <1>3, <1>4, <1>5, <1>7 DEF FeedInv, FeedType

\* A store makes of the reader's value an entry, overtaken or not as the value was.
LEMMA AnswersKeeps ==
    ASSUME FeedInv, NEW c \in Readers, Answers(c)
    PROVE  FeedInv'
<1> DEFINE k == fill[c].key
<1>1. FeedType /\ UNCHANGED <<age, version, announced, handler>>
  BY DEF FeedInv, Answers, marketVars
<1>2. k \in Keys /\ fill[c].value \in Nat \cup {Nothing} /\ fill[c].lag \in 0..MaxLag
      /\ fill[c].raced \in BOOLEAN
  BY <1>1 DEF FeedType, FillType, Answers, Stores, Reading
<1>3. cache' = [cache EXCEPT ![k] = [value |-> fill[c].value, ttl |-> TTL[k], raced |-> fill[c].raced]]
      /\ fill' = [fill EXCEPT ![c] = NoFill]
  BY DEF Answers, Stores
<1>4. cache'[k] = [value |-> fill[c].value, ttl |-> TTL[k], raced |-> fill[c].raced]
      /\ \A j \in Keys \ {k} : cache'[j] = cache[j]
  BY <1>1, <1>2, <1>3 DEF FeedType, CacheType
<1>5. fill'[c] = NoFill /\ \A r \in Readers \ {c} : fill'[r] = fill[r]
  BY <1>1, <1>3 DEF FeedType, FillType
<1> HIDE DEF k
<1>6. CacheType'
  <2>1. TTL[k] \in Nat
    BY <1>2, Lives
  <2>2. cache' \in [Keys -> [value: Nat \cup {Nothing}, ttl: Nat, raced: BOOLEAN]]
    BY <1>1, <1>2, <1>3, <2>1 DEF FeedType, CacheType
  <2> QED BY <1>1, <1>4, <2>1, <2>2 DEF FeedType, CacheType, Old
<1>7. FillType'
  BY <1>1, <1>3, Lives DEF FeedType, FillType, NoFill
<1>8. HandlerType'
  BY <1>1 DEF FeedType, HandlerType
<1>9. FillAge'
  BY <1>1, <1>5 DEF FeedInv, FillAge, Reading, NoFill
<1>10. FillSwept'
  BY <1>1, <1>5 DEF FeedInv, FillSwept, Overdue, Swept, Dropped, Reading, NoFill
<1>11. Reading(c) /\ fill[c].value # Nothing
  BY DEF Answers, Stores
<1>12. CacheAge'
  <2> SUFFICES ASSUME NEW j \in Keys, Cached(j)', cache'[j].value # version
               PROVE  age[j] <= Reach(j) - cache'[j].ttl
    BY <1>1 DEF CacheAge, Reach
  <2>1. CASE j = k
    <3>1. age[k] <= fill[c].lag
      BY <1>4, <1>11, <2>1 DEF FeedInv, FillAge, k
    <3>2. age[k] \in Nat /\ TTL[k] \in Nat /\ Reach(k) = TTL[k] + MaxLag /\ cache'[k].ttl = TTL[k]
      BY <1>1, <1>2, <1>4, Lives DEF FeedType, CacheType
    <3> QED BY <1>2, <2>1, <3>1, <3>2, Lives
  <2>2. CASE j # k
    BY <1>4, <2>2 DEF FeedInv, CacheAge, Cached
  <2> QED BY <2>1, <2>2
<1>13. CacheSwept'
  <2> SUFFICES ASSUME NEW j \in Keys, Cached(j)', Overdue(j, cache[j].value)'
               PROVE  cache'[j].raced
    BY DEF CacheSwept
  <2>1. Overdue(j, cache'[j].value)
    BY <1>1 DEF Overdue, Swept, Dropped
  <2>2. CASE j = k
    BY <1>4, <1>11, <2>1, <2>2 DEF FeedInv, FillSwept, Cached, k
  <2>3. CASE j # k
    BY <1>4, <2>1, <2>3 DEF FeedInv, CacheSwept, Cached
  <2> QED BY <2>2, <2>3
<1> QED BY <1>6, <1>7, <1>8, <1>9, <1>10, <1>12, <1>13 DEF FeedInv, FeedType

\* A read that fails is forgotten.
LEMMA AnswersErrorKeeps ==
    ASSUME FeedInv, NEW c \in Readers, AnswersError(c)
    PROVE  FeedInv'
<1>1. FeedType /\ UNCHANGED <<cache, age, version, announced, handler>>
  BY DEF FeedInv, AnswersError, marketVars
<1>2. fill' = [fill EXCEPT ![c] = NoFill]
  BY DEF AnswersError, ReadFails
<1>3. fill'[c] = NoFill /\ \A r \in Readers \ {c} : fill'[r] = fill[r]
  BY <1>1, <1>2 DEF FeedType, FillType
<1>4. FillType'
  BY <1>1, <1>2, Lives DEF FeedType, FillType, NoFill
<1>5. CacheType' /\ HandlerType' /\ CacheAge' /\ CacheSwept'
  BY <1>1 DEF FeedInv, FeedType, CacheType, HandlerType, CacheAge, CacheSwept, Cached, Overdue, Swept,
              Dropped
<1>6. FillAge' /\ FillSwept'
  BY <1>1, <1>3 DEF FeedInv, FillAge, FillSwept, Overdue, Swept, Dropped, Reading, NoFill
<1> QED BY <1>4, <1>5, <1>6 DEF FeedInv, FeedType

\* A tick ages reads, entries and their sources alike.
LEMMA TimePassesKeeps ==
    ASSUME FeedInv, TimePasses
    PROVE  FeedInv'
<1>1. FeedType /\ UNCHANGED <<version, announced, handler>>
  BY DEF FeedInv, TimePasses, marketVars
<1>2. \A r \in Readers : Reading(r) => fill[r].lag < MaxLag
  BY DEF TimePasses, Tick
<1>3. fill' = [r \in Readers |-> IF Reading(r) THEN [fill[r] EXCEPT !.lag = fill[r].lag + 1] ELSE fill[r]]
  BY DEF TimePasses, Tick
<1>4. cache' = [k \in Keys |-> IF cache[k].ttl > 1 THEN [cache[k] EXCEPT !.ttl = cache[k].ttl - 1] ELSE NoEntry]
  BY DEF TimePasses, Tick
<1>5. \A k \in Keys : age'[k] <= age[k] + 1
  BY <1>1 DEF TimePasses, Tick, FeedType, CacheType
<1>6. ASSUME NEW r \in Readers
      PROVE  /\ fill'[r] \in [key: Keys \cup {Nothing}, value: Nat \cup {Nothing}, lag: 0..MaxLag, raced: BOOLEAN]
             /\ fill'[r].key = fill[r].key /\ fill'[r].value = fill[r].value
             /\ fill'[r].raced = fill[r].raced
             /\ Reading(r) => fill'[r].lag = fill[r].lag + 1
  <2>1. fill[r] \in [key: Keys \cup {Nothing}, value: Nat \cup {Nothing}, lag: 0..MaxLag, raced: BOOLEAN]
    BY <1>1 DEF FeedType, FillType
  <2>2. CASE Reading(r)
    <3>1. fill'[r] = [fill[r] EXCEPT !.lag = fill[r].lag + 1]
      BY <1>3, <2>2
    <3>2. fill[r].lag + 1 \in 0..MaxLag
      BY <1>2, <2>1, <2>2, Lives
    <3> QED BY <2>1, <2>2, <3>1, <3>2
  <2>3. CASE ~ Reading(r)
    BY <1>3, <2>1, <2>3
  <2> QED BY <2>2, <2>3
<1>7. ASSUME NEW k \in Keys
      PROVE  /\ cache'[k] \in [value: Nat \cup {Nothing}, ttl: Nat, raced: BOOLEAN]
             /\ cache'[k].ttl <= TTL[k]
             /\ cache'[k].value # Nothing =>
                  /\ cache'[k].value = cache[k].value /\ cache'[k].raced = cache[k].raced
                  /\ cache'[k].ttl = cache[k].ttl - 1
  <2>1. cache[k] \in [value: Nat \cup {Nothing}, ttl: Nat, raced: BOOLEAN] /\ cache[k].ttl <= TTL[k]
    BY <1>1 DEF FeedType, CacheType
  <2>2. CASE cache[k].ttl > 1
    <3>1. cache'[k] = [cache[k] EXCEPT !.ttl = cache[k].ttl - 1]
      BY <1>4, <2>2
    <3>2. cache[k].ttl - 1 \in Nat
      BY <2>1, <2>2
    <3> QED BY <2>1, <3>1, <3>2, Lives
  <2>3. CASE ~ (cache[k].ttl > 1)
    <3>1. cache'[k] = NoEntry
      BY <1>4, <2>3
    <3> QED BY <3>1, Lives DEF NoEntry
  <2> QED BY <2>2, <2>3
<1>8. FillType'
  BY <1>3, <1>6 DEF FillType
<1>9. CacheType'
  <2>1. age' \in [Keys -> Nat] /\ \A k \in Keys : age'[k] <= Old(k)
    <3>1. age' = [k \in Keys |-> IF age[k] < Old(k) THEN age[k] + 1 ELSE age[k]]
      BY DEF TimePasses, Tick
    <3> QED BY <1>1, <3>1, Lives DEF FeedType, CacheType
  <2> QED BY <1>4, <1>7, <2>1 DEF CacheType, Old
<1>10. HandlerType'
  BY <1>1 DEF FeedType, HandlerType
<1>11. FillAge'
  <2> SUFFICES ASSUME NEW r \in Readers, Reading(r)', fill'[r].value \notin {Nothing, version}
               PROVE  age'[fill[r].key] <= fill[r].lag + 1
    BY <1>1, <1>6 DEF FillAge, Reading
  <2>1. fill[r].key \in Keys /\ fill[r].lag \in 0..MaxLag /\ Reading(r)
    BY <1>1, <1>6 DEF FeedType, FillType, Reading
  <2>2. age[fill[r].key] <= fill[r].lag /\ age[fill[r].key] \in Nat
    BY <1>1, <1>6, <2>1 DEF FeedInv, FillAge, FeedType, CacheType
  <2>3. age'[fill[r].key] <= age[fill[r].key] + 1 /\ age'[fill[r].key] \in Nat
    BY <1>5, <1>9, <2>1 DEF CacheType
  <2> QED BY <2>1, <2>2, <2>3, Lives
<1>12. CacheAge'
  <2> SUFFICES ASSUME NEW k \in Keys, cache'[k].value # Nothing, cache'[k].value # version
               PROVE  age'[k] <= Reach(k) - cache'[k].ttl
    BY <1>1 DEF CacheAge, Cached, Reach
  <2>1. age[k] <= Reach(k) - cache[k].ttl
    BY <1>7 DEF FeedInv, CacheAge, Cached
  <2>2. age[k] \in Nat /\ age'[k] \in Nat /\ cache[k].ttl \in Nat /\ Reach(k) \in Nat
    BY <1>1, <1>9, Lives DEF FeedType, CacheType
  <2> QED BY <1>5, <1>7, <2>1, <2>2
<1>13. \A k, v : Overdue(k, v)' => Overdue(k, v)
  BY <1>1 DEF Overdue, Swept, Dropped
<1>14. FillSwept'
  BY <1>6, <1>13 DEF FeedInv, FillSwept, Reading
<1>15. CacheSwept'
  BY <1>7, <1>13 DEF FeedInv, CacheSwept, Cached
<1> QED BY <1>8, <1>9, <1>10, <1>11, <1>12, <1>14, <1>15 DEF FeedInv, FeedType

\* Sockets, messages and served entries change nothing that is cached.
LEMMA ClientsKeep ==
    ASSUME FeedInv, UNCHANGED <<cacheVars, version, announced, handler>>
    PROVE  FeedInv'
BY HandlerMoves DEF FeedInv, FeedType, HandlerType, Swept, Dropped

\* No step breaks the invariant.
LEMMA FeedStep == FeedInv /\ [Next]_vars => FeedInv'
<1> SUFFICES ASSUME FeedInv, [Next]_vars PROVE FeedInv'
  OBVIOUS
<1>1. CASE Handler
  BY <1>1, WritesKeeps, WritePricesKeeps, PublishTradeKeeps, HandlerRests, DropKeyKeeps, FinishKeeps
     DEF Handler
<1>2. ASSUME NEW c \in Readers, Reader(c) PROVE FeedInv'
  <2>1. CASE Hits(c) \/ Joins(c) \/ Leaves(c)
    BY <2>1, ClientsKeep DEF Hits, Joins, Leaves, marketVars
  <2> QED BY <1>2, <2>1, FindsNoneKeeps, ReadsRowsKeeps, AnswersKeeps, AnswersErrorKeeps DEF Reader
<1>3. CASE Relays \/ SubscriptionLost \/ UNCHANGED vars
  BY <1>3, ClientsKeep DEF Relays, SubscriptionLost, vars, marketVars
<1>4. CASE TimePasses
  BY <1>4, TimePassesKeeps
<1> QED BY <1>1, <1>2, <1>3, <1>4 DEF Next

\* For any readers, writes and failed ticks: a cached view that misses what a finished handler wrote
\* was read before the handler dropped the key and stored after (getJson, setJson, invalidate).
THEOREM StaleMeansOvertaken == Spec => []StaleOnlyIfOvertaken
<1>1. FeedInv => StaleOnlyIfOvertaken
  BY DEF FeedInv, CacheSwept, Overdue, StaleOnlyIfOvertaken
<1> QED BY <1>1, FeedInit, FeedStep, PTL DEF Spec

\* For any times to live and any bound on a read: no cached view is out of date for longer than the
\* two together (LIST_TTL, DETAIL_TTL).
THEOREM StalenessIsBounded == Spec => []StaleForAtMost
<1>1. FeedInv => StaleForAtMost
  <2> SUFFICES ASSUME FeedInv, NEW k \in Keys, Cached(k), cache[k].value # version
               PROVE  age[k] <= Reach(k)
    BY DEF StaleForAtMost
  <2>1. age[k] <= Reach(k) - cache[k].ttl /\ age[k] \in Nat /\ cache[k].ttl \in Nat
    BY DEF FeedInv, CacheAge, FeedType, CacheType
  <2> QED BY <2>1, Lives
<1> QED BY <1>1, FeedInit, FeedStep, PTL DEF Spec

-----------------------------------------------------------------------------
(* What clients are told *)

RoomType ==
    /\ statusAt \in Nat /\ statusAt <= version /\ bus \in Seq(Nat)
    /\ room \subseteq Clients /\ synced \subseteq room /\ counts \subseteq room
    /\ handler.at = "idle" => handler.kind # "status"

\* The last status is still to be published, or to be relayed.
Coming == handler.kind = "status" \/ (bus # <<>> /\ bus[Len(bus)] >= statusAt)

\* Otherwise a client that read after it joined knows the status ...
SyncedKnow == \A c \in synced : Coming \/ c \in tainted \/ c \in aware
\* ... and one that is reading knows it, or has read it.
CountsKnow == \A c \in counts : Coming \/ c \in aware \/ fill[c].value >= statusAt
\* Who has read after joining, and has read again, did so since it joined.
HasRead(c)  == Reading(c) /\ fill[c].key = "detail" /\ fill[c].value # Nothing
SyncedCount == \A c \in synced : HasRead(c) => c \in counts
\* A status that is not being handled has swept the detail.
StatusSwept == handler.kind # "status" => announced["detail"] >= statusAt

MissInv == FeedInv /\ RoomType /\ SyncedKnow /\ CountsKnow /\ SyncedCount /\ StatusSwept

\* Nobody has joined, and there has been no status.
LEMMA MissInit == Init => MissInv
<1> SUFFICES ASSUME Init PROVE MissInv
  OBVIOUS
<1>1. FeedInv
  BY FeedInit
<1>2. RoomType /\ SyncedKnow /\ CountsKnow /\ SyncedCount
  BY DEF Init, Idle, RoomType, SyncedKnow, CountsKnow, SyncedCount
<1>3. StatusSwept
  BY FeedAssumption DEF Init, StatusSwept
<1> QED BY <1>1, <1>2, <1>3 DEF MissInv

\* A status that is coming leaves nothing to be known yet.
LEMMA StatusComing ==
    ASSUME FeedInv', RoomType', Coming', SyncedCount', StatusSwept'
    PROVE  MissInv'
BY DEF MissInv, SyncedKnow, CountsKnow

\* A step that changes neither the status, nor what is coming, nor what clients hold.
LEMMA NothingTold ==
    ASSUME MissInv, FeedInv', RoomType', StatusSwept',
           UNCHANGED <<statusAt, room, aware, synced, counts, tainted>>, Coming => Coming',
           \A c \in Readers : fill'[c].key = fill[c].key /\ fill'[c].value = fill[c].value
    PROVE  MissInv'
<1>1. synced \subseteq Readers /\ counts \subseteq Readers
  BY FeedAssumption DEF MissInv, RoomType
<1> QED BY <1>1 DEF MissInv, SyncedKnow, CountsKnow, SyncedCount, HasRead, Reading

\* The handler's log is a change of status or another's.
LEMMA WritesTells ==
    ASSUME MissInv, FeedInv', NEW kind \in Kinds, Writes(kind)
    PROVE  MissInv'
<1> USE DEF Writes
<1>1. FeedType /\ RoomType
  BY DEF MissInv, FeedInv
<1>2. handler'.kind = kind /\ handler'.at # "idle"
  OBVIOUS
<1>3. CASE kind = "status"
  <2>1. RoomType' /\ StatusSwept'
    BY <1>1, <1>2, <1>3 DEF FeedType, HandlerType, RoomType, StatusSwept
  <2>2. SyncedCount'
    BY DEF MissInv, SyncedCount, HasRead, Reading
  <2> QED BY <1>2, <1>3, <2>1, <2>2, StatusComing DEF Coming
<1>4. CASE kind # "status"
  <2>1. handler.kind # "status"
    BY <1>1, <1>4 DEF RoomType, Handling
  <2>2. RoomType'
    BY <1>1, <1>2, <1>4 DEF FeedType, HandlerType, RoomType
  <2>3. StatusSwept' /\ (Coming => Coming')
    BY <1>4, <2>1 DEF MissInv, StatusSwept, Coming
  <2> QED BY <1>4, <2>2, <2>3, NothingTold
<1> QED BY <1>3, <1>4

\* A handler's step between its first writes and its last publishes no status.
LEMMA HandlerTells ==
    ASSUME MissInv, FeedInv',
           PublishTrade \/ WritePrices \/ PricesUnread \/ TickAborts \/ \E k \in Keys : DropKey(k)
    PROVE  MissInv'
<1>1. FeedType /\ RoomType
  BY DEF MissInv, FeedInv
<1>2. UNCHANGED <<statusAt, announced, room, aware, synced, counts, tainted, bus>>
      /\ (version' = version \/ version' = version + 1)
  BY DEF PublishTrade, WritePrices, PricesUnread, TickAborts, DropKey, clientVars
<1>3. \/ handler'.kind = handler.kind /\ handler'.at # "idle"
      \/ handler.kind = "trade" /\ handler' = Idle
  BY <1>1 DEF PublishTrade, WritePrices, PricesUnread, TickAborts, DropKey, Handling, FeedType, HandlerType
<1>4. RoomType'
  BY <1>1, <1>2, <1>3 DEF FeedType, HandlerType, RoomType, Idle
<1>5. StatusSwept' /\ (Coming => Coming')
  BY <1>2, <1>3 DEF MissInv, StatusSwept, Coming, Idle
<1>6. \A c \in Readers : fill'[c].key = fill[c].key /\ fill'[c].value = fill[c].value
  <2>1. ASSUME NEW k \in Keys, DropKey(k), NEW c \in Readers
        PROVE  fill'[c].key = fill[c].key /\ fill'[c].value = fill[c].value
    BY <1>1, <2>1 DEF DropKey, Overtaken, FeedType, FillType
  <2>2. CASE PublishTrade \/ WritePrices \/ PricesUnread \/ TickAborts
    BY <2>2 DEF PublishTrade, WritePrices, PricesUnread, TickAborts, cacheVars
  <2> QED BY <2>1, <2>2
<1> QED BY <1>2, <1>4, <1>5, <1>6, NothingTold

\* The last thing a handler of a status does is to publish it.
LEMMA FinishTells ==
    ASSUME MissInv, FeedInv', Finish
    PROVE  MissInv'
<1> USE DEF Finish
<1>1. FeedType /\ RoomType /\ FeedType'
  BY DEF MissInv, FeedInv
<1>2. handler' = Idle /\ UNCHANGED <<cacheVars, version, statusAt, room, aware, synced, counts, tainted>>
  OBVIOUS
<1>3. "detail" \in Keys /\ "detail" \in Dropped
  BY FeedAssumption DEF Dropped
<1>4. announced'["detail"] = version
  BY <1>3
<1>5. StatusSwept'
  BY <1>1, <1>2, <1>4 DEF StatusSwept, RoomType, FeedType, HandlerType
<1>6. CASE handler.kind = "status"
  <2>1. bus' = Append(bus, statusAt)
    BY <1>6
  <2>2. bus' \in Seq(Nat) /\ bus' # <<>> /\ bus'[Len(bus')] = statusAt
    BY <1>1, <2>1 DEF RoomType
  <2>3. RoomType'
    BY <1>1, <1>2, <2>2 DEF RoomType, Idle
  <2>4. Coming'
    BY <1>1, <1>2, <2>2 DEF Coming, RoomType
  <2>5. SyncedCount'
    BY <1>2 DEF MissInv, SyncedCount, HasRead, Reading, cacheVars
  <2> QED BY <1>5, <2>3, <2>4, <2>5, StatusComing
<1>7. CASE handler.kind # "status"
  <2>1. bus' = bus
    BY <1>7
  <2>2. RoomType' /\ (Coming => Coming')
    BY <1>1, <1>2, <1>7, <2>1 DEF RoomType, Coming, Idle
  <2> QED BY <1>2, <1>5, <2>2, NothingTold DEF cacheVars
<1> QED BY <1>6, <1>7

\* An entry that nobody overtook has the status, unless the status is coming.
LEMMA HitsTell ==
    ASSUME MissInv, FeedInv', NEW c \in Readers, Hits(c)
    PROVE  MissInv'
<1> DEFINE entry == cache["detail"]
<1>1. FeedType /\ RoomType
  BY DEF MissInv, FeedInv
<1>2. UNCHANGED <<cacheVars, marketVars, bus, room, counts>> /\ Cached("detail") /\ ~ Reading(c)
      /\ Told(c, entry.value, c \in room, entry.raced)
  BY DEF Hits
<1>3. "detail" \in Keys /\ entry.value \in Nat /\ statusAt \in Nat /\ announced["detail"] \in Nat
  BY <1>1, <1>2, FeedAssumption DEF FeedType, CacheType, HandlerType, RoomType, Cached
<1>4. ~ Coming /\ ~ entry.raced => entry.value >= statusAt
  BY <1>2, <1>3 DEF MissInv, FeedInv, CacheSwept, Overdue, StatusSwept, Coming
<1> HIDE DEF entry
<1>5. CASE c \notin Clients
  BY <1>1, <1>2, <1>5, NothingTold
     DEF Told, cacheVars, marketVars, MissInv, RoomType, Coming, StatusSwept
<1>6. CASE c \in Clients
  <2>1. /\ aware' = IF entry.value >= statusAt THEN aware \cup {c} ELSE aware
        /\ synced' = IF c \in room THEN synced \cup {c} ELSE synced
        /\ tainted' = IF entry.raced /\ c \in synced' THEN tainted \cup {c} ELSE tainted \ {c}
    BY <1>2, <1>6 DEF Told
  <2>2. RoomType' /\ StatusSwept' /\ (Coming' <=> Coming)
    BY <1>1, <1>2, <2>1 DEF MissInv, RoomType, StatusSwept, Coming, marketVars
  <2>3. SyncedKnow'
    <3> SUFFICES ASSUME NEW d \in synced', ~ Coming PROVE d \in tainted' \/ d \in aware'
      BY <2>2 DEF SyncedKnow
    <3>1. CASE d = c
      BY <1>4, <2>1, <3>1
    <3>2. CASE d # c
      BY <2>1, <3>2 DEF MissInv, SyncedKnow
    <3> QED BY <3>1, <3>2
  <2>4. CountsKnow'
    BY <1>2, <2>1, <2>2 DEF MissInv, CountsKnow, cacheVars, marketVars
  <2>5. SyncedCount'
    BY <1>2, <2>1 DEF MissInv, SyncedCount, cacheVars, HasRead, Reading
  <2> QED BY <2>2, <2>3, <2>4, <2>5 DEF MissInv
<1> QED BY <1>5, <1>6

\* Who has read nothing yet is told nothing.
LEMMA FindsNoneTells ==
    ASSUME MissInv, FeedInv', NEW c \in Readers, NEW k \in Keys, FindsNone(c, k)
    PROVE  MissInv'
<1> USE DEF FindsNone, Misses
<1>1. FeedType /\ RoomType
  BY DEF MissInv, FeedInv
<1>2. fill'[c].value = Nothing /\ \A r \in Readers \ {c} : fill'[r] = fill[r]
  BY <1>1 DEF FeedType, FillType
<1>3. UNCHANGED <<marketVars, bus, room, aware, synced, tainted>> /\ counts' = counts \ {c}
  OBVIOUS
<1>4. counts \cup synced \subseteq Readers
  BY <1>1, FeedAssumption DEF RoomType
<1>5. RoomType' /\ StatusSwept' /\ (Coming' <=> Coming)
  BY <1>1, <1>3 DEF MissInv, RoomType, StatusSwept, Coming, marketVars
<1>6. SyncedKnow' /\ CountsKnow'
  BY <1>2, <1>3, <1>4, <1>5 DEF MissInv, SyncedKnow, CountsKnow, marketVars
<1>7. SyncedCount'
  BY <1>2, <1>3, <1>4 DEF MissInv, SyncedCount, HasRead, Reading
<1> QED BY <1>5, <1>6, <1>7 DEF MissInv

\* What is read after joining is the status of the time, or the status is coming.
LEMMA ReadsRowsTells ==
    ASSUME MissInv, FeedInv', NEW c \in Readers, ReadsRows(c)
    PROVE  MissInv'
<1> USE DEF ReadsRows
<1>1. FeedType /\ RoomType
  BY DEF MissInv, FeedInv
<1>2. fill'[c].key = fill[c].key /\ fill'[c].value = version
      /\ \A r \in Readers \ {c} : fill'[r] = fill[r]
  BY <1>1 DEF FeedType, FillType
<1>3. UNCHANGED <<marketVars, bus, room, aware, synced, tainted>>
      /\ counts' = IF c \in room /\ fill[c].key = "detail" THEN counts \cup {c} ELSE counts \ {c}
  OBVIOUS
<1>4. RoomType' /\ StatusSwept' /\ (Coming' <=> Coming)
  BY <1>1, <1>3 DEF MissInv, RoomType, StatusSwept, Coming, marketVars
<1>5. SyncedKnow'
  BY <1>3, <1>4 DEF MissInv, SyncedKnow
<1>6. counts \cup synced \subseteq Readers
  BY <1>1, FeedAssumption DEF RoomType
<1>7. CountsKnow'
  <2> SUFFICES ASSUME NEW d \in counts', ~ Coming PROVE d \in aware \/ fill'[d].value >= statusAt
    BY <1>3, <1>4 DEF CountsKnow, marketVars
  <2>1. CASE d = c
    BY <1>1, <1>2, <2>1 DEF RoomType, FeedType, HandlerType
  <2>2. CASE d # c
    BY <1>2, <1>3, <1>6, <2>2 DEF MissInv, CountsKnow
  <2> QED BY <2>1, <2>2
<1>8. SyncedCount'
  <2> SUFFICES ASSUME NEW d \in synced, HasRead(d)' PROVE d \in counts'
    BY <1>3 DEF SyncedCount
  <2>1. CASE d = c
    BY <1>1, <1>2, <1>3, <2>1 DEF RoomType, HasRead
  <2>2. CASE d # c
    BY <1>2, <1>3, <1>6, <2>2 DEF MissInv, SyncedCount, HasRead, Reading
  <2> QED BY <2>1, <2>2
<1> QED BY <1>4, <1>5, <1>7, <1>8 DEF MissInv

\* An answer tells its client what was read.
LEMMA AnswersTell ==
    ASSUME MissInv, FeedInv', NEW c \in Readers, Answers(c)
    PROVE  MissInv'
<1>1. FeedType /\ RoomType
  BY DEF MissInv, FeedInv
<1>2. UNCHANGED <<marketVars, bus, room>> /\ counts' = counts \ {c} /\ Reading(c) /\ fill[c].value # Nothing
  BY DEF Answers, Stores
<1>3. fill'[c] = NoFill /\ \A r \in Readers \ {c} : fill'[r] = fill[r]
  BY <1>1 DEF Answers, Stores, FeedType, FillType
<1>4. counts \cup synced \subseteq Readers
  BY <1>1, FeedAssumption DEF RoomType
<1>5. /\ aware \subseteq aware' /\ synced' \subseteq synced \cup (counts \cap {c}) /\ tainted \ {c} \subseteq tainted'
      /\ c \in synced' /\ fill[c].key = "detail" /\ fill[c].value >= statusAt => c \in aware'
      /\ fill[c].key # "detail" => synced' = synced /\ tainted' = tainted
  BY <1>1, FeedAssumption DEF Answers, Told, RoomType
<1>6. RoomType' /\ StatusSwept' /\ (Coming' <=> Coming)
  BY <1>1, <1>2, <1>5 DEF MissInv, RoomType, StatusSwept, Coming, marketVars
<1>7. SyncedKnow'
  <2> SUFFICES ASSUME NEW d \in synced', ~ Coming PROVE d \in tainted' \/ d \in aware'
    BY <1>6 DEF SyncedKnow
  <2>1. CASE d = c /\ fill[c].key = "detail"
    <3>1. c \in counts
      BY <1>2, <1>5, <2>1 DEF MissInv, SyncedCount, HasRead
    <3>2. c \in aware \/ fill[c].value >= statusAt
      BY <3>1 DEF MissInv, CountsKnow
    <3> QED BY <1>5, <2>1, <3>2
  <2>2. CASE ~ (d = c /\ fill[c].key = "detail")
    BY <1>5, <2>2 DEF MissInv, SyncedKnow
  <2> QED BY <2>1, <2>2
<1>8. CountsKnow'
  BY <1>2, <1>3, <1>4, <1>5, <1>6 DEF MissInv, CountsKnow, marketVars
<1>9. SyncedCount'
  <2> SUFFICES ASSUME NEW d \in synced', HasRead(d)' PROVE d \in counts'
    BY DEF SyncedCount
  <2>1. d # c
    BY <1>3 DEF HasRead, Reading, NoFill
  <2> QED BY <1>2, <1>3, <1>4, <1>5, <2>1 DEF MissInv, SyncedCount, HasRead, Reading
<1> QED BY <1>6, <1>7, <1>8, <1>9 DEF MissInv

\* A client that is answered with an error is told nothing.
LEMMA AnswersErrorTells ==
    ASSUME MissInv, FeedInv', NEW c \in Readers, AnswersError(c)
    PROVE  MissInv'
<1>1. FeedType /\ RoomType
  BY DEF MissInv, FeedInv
<1>2. UNCHANGED <<marketVars, bus, room, aware, synced, tainted>> /\ counts' = counts \ {c}
  BY DEF AnswersError
<1>3. fill'[c] = NoFill /\ \A r \in Readers \ {c} : fill'[r] = fill[r]
  BY <1>1 DEF AnswersError, ReadFails, FeedType, FillType
<1>4. counts \cup synced \subseteq Readers
  BY <1>1, FeedAssumption DEF RoomType
<1>5. RoomType' /\ StatusSwept' /\ (Coming' <=> Coming)
  BY <1>1, <1>2 DEF MissInv, RoomType, StatusSwept, Coming, marketVars
<1>6. SyncedKnow' /\ CountsKnow'
  BY <1>2, <1>3, <1>4, <1>5 DEF MissInv, SyncedKnow, CountsKnow, marketVars
<1>7. SyncedCount'
  <2> SUFFICES ASSUME NEW d \in synced', HasRead(d)' PROVE d \in counts'
    BY DEF SyncedCount
  <2>1. d # c
    BY <1>3 DEF HasRead, Reading, NoFill
  <2> QED BY <1>2, <1>3, <1>4, <2>1 DEF MissInv, SyncedCount, HasRead, Reading
<1> QED BY <1>5, <1>6, <1>7 DEF MissInv

\* Who joins has read nothing yet, and who leaves is promised nothing any more.
LEMMA RoomTells ==
    ASSUME MissInv, FeedInv', NEW c, Joins(c) \/ Leaves(c)
    PROVE  MissInv'
<1>1. FeedType /\ RoomType
  BY DEF MissInv, FeedInv
<1>2. UNCHANGED <<cacheVars, marketVars, bus, aware>> /\ synced' \subseteq synced /\ counts' \subseteq counts
      /\ tainted \cap synced' \subseteq tainted' /\ counts \cap synced' \subseteq counts'
  BY <1>1 DEF Joins, Leaves, RoomType
<1>3. RoomType'
  BY <1>1 DEF RoomType, Joins, Leaves, marketVars
<1>4. StatusSwept' /\ (Coming' <=> Coming)
  BY <1>2 DEF MissInv, StatusSwept, Coming, marketVars
<1>5. SyncedKnow' /\ CountsKnow' /\ SyncedCount'
  BY <1>2, <1>4 DEF MissInv, SyncedKnow, CountsKnow, SyncedCount, HasRead, Reading, marketVars, cacheVars
<1> QED BY <1>3, <1>4, <1>5 DEF MissInv

\* What is left of a sequence without its head ends where it did.
LEMMA TailKeepsLast ==
    ASSUME NEW s \in Seq(Nat), s # <<>>
    PROVE  /\ Tail(s) \in Seq(Nat)
           /\ Tail(s) # <<>> => Tail(s)[Len(Tail(s))] = s[Len(s)]
           /\ Tail(s) = <<>> => Head(s) = s[Len(s)]
<1>1. /\ Len(s) \in Nat \ {0} /\ Head(s) = s[1] /\ Tail(s) \in Seq(Nat) /\ Len(Tail(s)) = Len(s) - 1
      /\ \A i \in 1..Len(Tail(s)) : Tail(s)[i] = s[i + 1]
  OBVIOUS
<1>2. Tail(s) = <<>> <=> Len(Tail(s)) = 0
  BY <1>1, EmptySeq
<1> QED BY <1>1, <1>2

\* A message with the last status is sent to everybody in the room, and any other leaves the last on
\* its way.
LEMMA RelaysTell ==
    ASSUME MissInv, FeedInv', Relays
    PROVE  MissInv'
<1> USE DEF Relays
<1>1. FeedType /\ RoomType
  BY DEF MissInv, FeedInv
<1>2. UNCHANGED <<cacheVars, marketVars, room, synced, counts, tainted>> /\ bus' = Tail(bus) /\ bus # <<>>
      /\ aware' = IF Head(bus) >= statusAt THEN aware \cup room ELSE aware
  OBVIOUS
<1>3. bus \in Seq(Nat) /\ bus' \in Seq(Nat) /\ (bus' # <<>> => bus'[Len(bus')] = bus[Len(bus)])
      /\ (bus' = <<>> => Head(bus) = bus[Len(bus)])
  BY <1>1, <1>2, TailKeepsLast DEF RoomType
<1>4. RoomType' /\ StatusSwept'
  BY <1>1, <1>2, <1>3 DEF MissInv, RoomType, StatusSwept, marketVars
<1>5. Coming => Coming' \/ room \subseteq aware'
  BY <1>2, <1>3 DEF Coming, marketVars
<1>6. aware \subseteq aware' /\ synced \subseteq room /\ counts \subseteq room
  BY <1>1, <1>2 DEF RoomType
<1>7. SyncedKnow' /\ CountsKnow'
  BY <1>2, <1>5, <1>6 DEF MissInv, SyncedKnow, CountsKnow, marketVars, cacheVars
<1>8. SyncedCount'
  BY <1>2 DEF MissInv, SyncedCount, HasRead, Reading, cacheVars
<1> QED BY <1>4, <1>7, <1>8 DEF MissInv

\* A lost subscription ends every promise.
LEMMA LostTells ==
    ASSUME MissInv, FeedInv', SubscriptionLost
    PROVE  MissInv'
<1> USE DEF SubscriptionLost
<1>1. RoomType' /\ StatusSwept'
  BY DEF MissInv, RoomType, StatusSwept, marketVars
<1>2. SyncedKnow' /\ CountsKnow' /\ SyncedCount'
  BY DEF SyncedKnow, CountsKnow, SyncedCount
<1> QED BY <1>1, <1>2 DEF MissInv

\* Time tells nobody anything.
LEMMA TimeTells ==
    ASSUME MissInv, FeedInv', TimePasses
    PROVE  MissInv'
<1>1. FeedType /\ UNCHANGED <<marketVars, clientVars>>
  BY DEF MissInv, FeedInv, TimePasses
<1>2. RoomType' /\ StatusSwept' /\ (Coming => Coming')
  BY <1>1 DEF MissInv, RoomType, StatusSwept, Coming, marketVars, clientVars
<1>3. \A c \in Readers : fill'[c].key = fill[c].key /\ fill'[c].value = fill[c].value
  BY <1>1 DEF TimePasses, Tick, FeedType, FillType
<1> QED BY <1>1, <1>2, <1>3, NothingTold DEF marketVars, clientVars

\* No step breaks the invariant.
LEMMA MissStep == MissInv /\ [Next]_vars => MissInv'
<1> SUFFICES ASSUME MissInv, [Next]_vars PROVE MissInv'
  OBVIOUS
<1>1. FeedInv'
  BY FeedStep DEF MissInv
<1>2. CASE Handler
  BY <1>1, <1>2, WritesTells, HandlerTells, FinishTells DEF Handler
<1>3. ASSUME NEW c \in Readers, Reader(c) PROVE MissInv'
  BY <1>1, <1>3, HitsTell, AnswersTell, AnswersErrorTells, RoomTells, FindsNoneTells, ReadsRowsTells
     DEF Reader
<1>4. CASE UNCHANGED vars
  <2>1. RoomType' /\ StatusSwept' /\ SyncedKnow' /\ CountsKnow' /\ SyncedCount'
    BY <1>4 DEF MissInv, RoomType, StatusSwept, SyncedKnow, CountsKnow, SyncedCount, Coming, HasRead, Reading,
                vars, cacheVars, marketVars, clientVars
  <2> QED BY <1>1, <2>1 DEF MissInv
<1> QED BY <1>1, <1>2, <1>3, <1>4, RelaysTell, LostTells, TimeTells DEF Next

\* For any clients, readers, logs and failures: who joins and then reads knows every status that has
\* been handled and relayed, short of a lost subscription or an overtaken entry (onSubscribe, relay).
THEOREM StatusesReachClients == Spec => []NoStatusMissed
<1>1. MissInv => NoStatusMissed
  BY DEF MissInv, SyncedKnow, Coming, NoStatusMissed
<1> QED BY <1>1, MissInit, MissStep, PTL DEF Spec
=============================================================================
