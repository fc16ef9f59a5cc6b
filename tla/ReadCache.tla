----------------------------- MODULE ReadCache ------------------------------
(***************************************************************************)
(* The cache half of src/redis/redis.service.ts: a value is looked up,     *)
(* read from its source on a miss, and stored with a time to live, in      *)
(* three awaited calls.  Nothing ties the store to the read: the source    *)
(* may change, and the key may be deleted, between the two.                *)
(*                                                                         *)
(* The modules that extend this one own the sources: MarketFeed caches     *)
(* markets, AdminDesk caches roles.                                        *)
(***************************************************************************)
EXTENDS Integers

CONSTANTS
    Keys,
    Readers,    \* requests served at the same time, one read each
    TTL,        \* TTL[k]: ticks an entry of k lives
    MaxLag,     \* ticks from a miss to the store of its value, at most (an assumption)
    Nothing     \* no value

ASSUME CacheAssumption == MaxLag \in Nat /\ TTL \in [Keys -> Nat \ {0}]

VARIABLES
    cache,  \* cache[k]: the entry of k
    fill,   \* fill[r]: the read of r that is under way after its miss, and the value it has so far
    age     \* history: age[k] ticks since the source of k changed, up to Old(k)

cacheVars == <<cache, fill, age>>

\* raced is a history flag: after the value was read and before it was stored, the key was deleted
\* because the source had changed.
NoEntry == [value |-> Nothing, ttl |-> 0, raced |-> FALSE]
NoFill  == [key |-> Nothing, value |-> Nothing, lag |-> 0, raced |-> FALSE]

Cached(k)  == cache[k].value # Nothing
Reading(r) == fill[r].key # Nothing

\* No entry outlives a change of its source by more than this.
Reach(k) == TTL[k] + MaxLag
Old(k)   == Reach(k) + 1

CacheInit ==
    /\ cache = [k \in Keys |-> NoEntry]
    /\ fill = [r \in Readers |-> NoFill]
    /\ age = [k \in Keys |-> Old(k)]

\* getJson misses; the caller goes on to its source with v.
Misses(r, k, v) ==
    /\ ~ Reading(r) /\ ~ Cached(k)
    /\ fill' = [fill EXCEPT ![r] = [key |-> k, value |-> v, lag |-> 0, raced |-> FALSE]]

\* Mutant: SET without EX; the entry stays for longer than anybody looks.
StoresForever(r) ==
    /\ Reading(r)
    /\ LET k == fill[r].key
       IN  cache' = [cache EXCEPT ![k] = [value |-> fill[r].value, ttl |-> Old(k) + 1, raced |-> fill[r].raced]]
    /\ fill' = [fill EXCEPT ![r] = NoFill]

\* setJson: whatever the key holds by now is replaced.
Stores(r) ==
    /\ Reading(r)
    /\ LET k == fill[r].key
       IN  cache' = [cache EXCEPT ![k] = [value |-> fill[r].value, ttl |-> TTL[k], raced |-> fill[r].raced]]
    /\ fill' = [fill EXCEPT ![r] = NoFill]

\* The source throws; nothing is stored.
ReadFails(r) ==
    /\ Reading(r)
    /\ fill' = [fill EXCEPT ![r] = NoFill]

\* del, delPattern
Drop(ks) == cache' = [k \in Keys |-> IF k \in ks THEN NoEntry ELSE cache[k]]

\* The source of the keys ks changes.
Renewed(ks) == [k \in Keys |-> IF k \in ks THEN 0 ELSE age[k]]

\* Reads of k under way that have read anything but v are overtaken.
Overtaken(k, v) ==
    [r \in Readers |-> [fill[r] EXCEPT !.raced = @ \/ (fill[r].key = k /\ fill[r].value \notin {Nothing, v})]]

\* One tick: entries run out, reads grow older.  Redis expires on its own clock.
Tick ==
    /\ \A r \in Readers : Reading(r) => fill[r].lag < MaxLag
    /\ cache' = [k \in Keys |-> IF cache[k].ttl > 1 THEN [cache[k] EXCEPT !.ttl = @ - 1] ELSE NoEntry]
    /\ fill' = [r \in Readers |-> IF Reading(r) THEN [fill[r] EXCEPT !.lag = @ + 1] ELSE fill[r]]
    /\ age' = [k \in Keys |-> IF age[k] < Old(k) THEN age[k] + 1 ELSE age[k]]

CacheTypeOK(Values) ==
    /\ cache \in [Keys -> [value: Values \cup {Nothing}, ttl: Nat, raced: BOOLEAN]]
    /\ fill \in [Readers -> [key: Keys \cup {Nothing}, value: Values \cup {Nothing}, lag: 0..MaxLag, raced: BOOLEAN]]
    /\ \A k \in Keys : cache[k].ttl \in 0..TTL[k] /\ age[k] \in 0..Old(k)
=============================================================================
