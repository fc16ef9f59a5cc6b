--------------------------- MODULE AdminDesk_proofs ---------------------------
(***************************************************************************)
(* Proofs about AdminDesk: how long a cached role may be wrong, what the   *)
(* handlers leave in the rows they are done with, and when the seeding     *)
(* script creates a copy twice, for any contracts, drafts, markets,        *)
(* interruptions and failures.                                             *)
(*                                                                         *)
(* Three inductive invariants: RoleInv for the role cache, DeskInv for the *)
(* rows and the drafts' owners, SeedInv for the script's creations.        *)
(***************************************************************************)
EXTENDS AdminDesk, TLAPS, FiniteSetTheorems

-----------------------------------------------------------------------------
(* The role cache *)

Answers == BOOLEAN \cup {Nothing}
Entry   == [value: Answers, ttl: Nat, raced: BOOLEAN]
Fill    == [key: Keys \cup {Nothing}, value: Answers, lag: 0..MaxLag, raced: BOOLEAN]

RoleType ==
    /\ cache \in [Keys -> Entry]
    /\ \A k \in Keys : cache[k].ttl <= TTL[k]
    /\ age \in [Keys -> Nat] /\ \A k \in Keys : age[k] <= Old(k)
    /\ fill \in [Readers -> Fill]
    /\ asked \in [Readers -> 0..Len(Contracts)]
    /\ grants \subseteq ToSet(Contracts)

\* The answer v agrees with the first n contracts; a grant ends the loop.
Agrees(v, n) ==
    \/ v = TRUE /\ Holds /\ n = Len(Contracts)
    \/ v = FALSE /\ \A i \in 1..n : Contracts[i] \notin grants

\* What a check holds is right so far, or what it asks has changed while it asked.
FillTrue ==
    \A r \in Readers :
        IF Reading(r) THEN Agrees(fill[r].value, asked[r]) \/ age[Role] <= fill[r].lag
        ELSE asked[r] = 0

\* A cached answer that is wrong was overtaken while it was asked for or later.
CacheTrue == Cached(Role) /\ cache[Role].value # Holds => age[Role] <= Reach(Role) - cache[Role].ttl

RoleInv == RoleType /\ FillTrue /\ CacheTrue

\* What the steps below calculate with.
LEMMA OneKey ==
    /\ Role \in Keys /\ \A k \in Keys : k = Role
    /\ MaxLag \in Nat /\ TTL[Role] \in Nat \ {0}
    /\ Reach(Role) = TTL[Role] + MaxLag /\ Old(Role) = TTL[Role] + MaxLag + 1
<1>1. Role \in Keys /\ \A k \in Keys : k = Role
  BY AdminAssumption DEF Role
<1> QED BY <1>1, CacheAssumption DEF Reach, Old

\* Nothing is cached or asked at the start.
LEMMA RoleInit == Init => RoleInv
<1> SUFFICES ASSUME Init PROVE RoleInv
  OBVIOUS
<1> USE DEF Init, CacheInit
<1>1. RoleType
  <2>1. ASSUME NEW k \in Keys PROVE Old(k) \in Nat /\ 0 <= TTL[k]
    <3>1. k = Role /\ TTL[k] \in Nat
      BY OneKey
    <3> QED BY <3>1, OneKey
  <2>2. Len(Contracts) \in Nat /\ grants \subseteq ToSet(Contracts)
    BY AdminAssumption
  <2> QED BY <2>1, <2>2, OneKey DEF RoleType, NoEntry, NoFill, Answers, Entry, Fill
<1>2. FillTrue /\ CacheTrue
  BY OneKey DEF FillTrue, CacheTrue, Reading, Cached, NoFill, NoEntry
<1> QED BY <1>1, <1>2 DEF RoleInv

\* A change or a failed read makes every earlier answer recent.
LEMMA RoleRenewed ==
    ASSUME RoleInv, UNCHANGED <<cache, fill>>, age' = Renewed(Keys), grants' \subseteq ToSet(Contracts),
           asked' \in [Readers -> 0..Len(Contracts)],
           \A r \in Readers : ~ Reading(r) => asked'[r] = asked[r]
    PROVE  RoleInv'
<1>1. age' = [k \in Keys |-> 0] /\ RoleType
  BY DEF Renewed, RoleInv
<1>2. RoleType'
  BY <1>1, OneKey DEF RoleType, Old
<1>3. age'[Role] = 0 /\ cache[Role].ttl \in Nat /\ cache[Role].ttl <= TTL[Role]
      /\ \A r \in Readers : fill[r].lag \in Nat
  BY <1>1, OneKey DEF RoleType, Entry, Fill
<1>4. FillTrue'
  BY <1>3 DEF RoleInv, FillTrue, Reading
<1>5. CacheTrue'
  BY <1>3, OneKey DEF CacheTrue, Reach
<1> QED BY <1>2, <1>4, <1>5 DEF RoleInv

\* A grant or a revocation.
LEMMA RoleChangesKeeps ==
    ASSUME RoleInv, NEW c \in ToSet(Contracts), RoleChanges(c)
    PROVE  RoleInv'
<1>1. grants' \subseteq ToSet(Contracts) /\ asked \in [Readers -> 0..Len(Contracts)]
  BY DEF RoleChanges, RoleInv, RoleType
<1> QED BY <1>1, RoleRenewed DEF RoleChanges

\* A contract that could not be read.
LEMMA ContractSilentKeeps ==
    ASSUME RoleInv, NEW r \in Readers, ContractSilent(r)
    PROVE  RoleInv'
<1>1. asked \in [Readers -> 0..Len(Contracts)] /\ asked[r] < Len(Contracts) /\ Len(Contracts) \in Nat
  BY AdminAssumption DEF ContractSilent, RoleInv, RoleType
<1>2. asked' \in [Readers -> 0..Len(Contracts)]
  BY <1>1 DEF ContractSilent
<1>3. grants' \subseteq ToSet(Contracts) /\ \A q \in Readers : ~ Reading(q) => asked'[q] = asked[q]
  BY <1>1 DEF ContractSilent, RoleInv, RoleType
<1> QED BY <1>2, <1>3, RoleRenewed DEF ContractSilent

\* A check that starts has asked nobody.
LEMMA AskRoleKeeps ==
    ASSUME RoleInv, NEW r \in Readers, AskRole(r)
    PROVE  RoleInv'
<1>1. RoleType /\ ~ Reading(r) /\ UNCHANGED <<cache, age, grants, asked>>
      /\ fill' = [fill EXCEPT ![r] = [key |-> Role, value |-> FALSE, lag |-> 0, raced |-> FALSE]]
  BY DEF AskRole, Misses, RoleInv, roleVars
<1>2. /\ fill'[r] = [key |-> Role, value |-> FALSE, lag |-> 0, raced |-> FALSE]
      /\ \A q \in Readers \ {r} : fill'[q] = fill[q]
  BY <1>1 DEF RoleType
<1>3. RoleType'
  <2>1. [key |-> Role, value |-> FALSE, lag |-> 0, raced |-> FALSE] \in Fill
    BY OneKey DEF Fill, Answers
  <2> QED BY <1>1, <2>1 DEF RoleType, Old
<1>4. asked[r] = 0
  BY <1>1 DEF RoleInv, FillTrue
<1>5. FillTrue'
  BY <1>1, <1>2, <1>4 DEF RoleInv, FillTrue, Agrees, Holds, Reading
<1>6. CacheTrue'
  BY <1>1 DEF RoleInv, CacheTrue, Cached, Holds
<1> QED BY <1>3, <1>5, <1>6 DEF RoleInv

\* An answer that agreed with the contracts before agrees with the next one too.
LEMMA AskContractKeeps ==
    ASSUME RoleInv, NEW r \in Readers, AskContract(r)
    PROVE  RoleInv'
<1> DEFINE n == asked[r] + 1
           granted == Contracts[n] \in grants
<1>1. RoleType /\ Reading(r) /\ UNCHANGED <<cache, age, grants>> /\ n \in 1..Len(Contracts) /\ asked[r] \in Nat
      /\ fill' = [fill EXCEPT ![r].value = granted]
      /\ asked' = [asked EXCEPT ![r] = IF granted THEN Len(Contracts) ELSE n]
  BY DEF AskContract, Grants, RoleInv, RoleType
<1>2. granted \in BOOLEAN
  OBVIOUS
<1>3. /\ fill'[r].key = fill[r].key /\ fill'[r].lag = fill[r].lag /\ fill'[r].value = granted
      /\ \A q \in Readers \ {r} : fill'[q] = fill[q] /\ asked'[q] = asked[q]
      /\ asked'[r] = IF granted THEN Len(Contracts) ELSE n
  BY <1>1 DEF RoleType, Fill
<1>4. RoleType'
  <2>1. fill' \in [Readers -> Fill]
    BY <1>1, <1>2 DEF RoleType, Fill, Answers
  <2>2. asked' \in [Readers -> 0..Len(Contracts)]
    BY <1>1 DEF RoleType
  <2> QED BY <1>1, <2>1, <2>2 DEF RoleType, Old
<1> HIDE DEF granted
<1>5. CASE granted
  <2>1. Holds' /\ fill'[r].value = TRUE
    BY <1>1, <1>3, <1>5 DEF granted, Holds
  <2>2. FillTrue'
    BY <1>1, <1>3, <2>1 DEF RoleInv, FillTrue, Agrees, Holds, Reading
  <2> QED BY <1>1, <1>4, <2>2 DEF RoleInv, CacheTrue, Cached, Holds
<1>6. CASE ~ granted
  <2>1. fill'[r].value = FALSE /\ Contracts[n] \notin grants /\ asked'[r] = n
    BY <1>2, <1>3, <1>6 DEF granted
  <2>2. Agrees(fill[r].value, asked[r]) => Agrees(fill[r].value, asked[r])'
    <3>1. Agrees(fill[r].value, asked[r]) => \A i \in 1..asked[r] : Contracts[i] \notin grants
      BY <1>1 DEF Agrees
    <3>2. (\A i \in 1..asked[r] : Contracts[i] \notin grants) => \A i \in 1..n : Contracts[i] \notin grants
      BY <1>1, <2>1
    <3> QED BY <1>1, <2>1, <3>1, <3>2 DEF Agrees
  <2>3. FillTrue'
    BY <1>1, <1>3, <2>1, <2>2 DEF RoleInv, FillTrue, Agrees, Holds, Reading
  <2> QED BY <1>1, <1>4, <2>3 DEF RoleInv, CacheTrue, Cached, Holds
<1> QED BY <1>5, <1>6

\* What is cached is what the last contract left of the answer.
LEMMA RoleAnsweredKeeps ==
    ASSUME RoleInv, NEW r \in Readers, RoleAnswered(r)
    PROVE  RoleInv'
<1> DEFINE entry == [value |-> fill[r].value, ttl |-> TTL[Role], raced |-> fill[r].raced]
<1>1. RoleType /\ Reading(r) /\ asked[r] = Len(Contracts) /\ UNCHANGED <<age, grants>>
      /\ cache' = [cache EXCEPT ![fill[r].key] = [value |-> fill[r].value, ttl |-> TTL[fill[r].key], raced |-> fill[r].raced]]
      /\ fill' = [fill EXCEPT ![r] = NoFill] /\ asked' = [asked EXCEPT ![r] = 0]
  BY DEF RoleAnswered, Stores, RoleInv
<1>2. fill[r] \in Fill
  BY <1>1 DEF RoleType
<1>3. fill[r].key = Role
  BY <1>1, <1>2, OneKey DEF Reading, Fill
<1>4. entry \in Entry /\ entry.ttl = TTL[Role] /\ entry.value = fill[r].value
  BY <1>2, OneKey DEF Fill, Entry
<1>5. cache' = [cache EXCEPT ![Role] = entry]
  BY <1>1, <1>3
<1> HIDE DEF entry
<1>6. cache' \in [Keys -> Entry] /\ cache'[Role] = entry
  BY <1>1, <1>4, <1>5, OneKey DEF RoleType
<1>7. /\ fill' \in [Readers -> Fill]
      /\ fill'[r] = NoFill /\ \A q \in Readers \ {r} : fill'[q] = fill[q]
  BY <1>1, OneKey DEF RoleType, NoFill, Fill, Answers
<1>8. RoleType'
  <2>1. \A k \in Keys : cache'[k].ttl <= TTL[k]
    BY <1>4, <1>6, OneKey
  <2>2. asked' \in [Readers -> 0..Len(Contracts)]
    BY <1>1, AdminAssumption DEF RoleType
  <2> QED BY <1>1, <1>6, <1>7, <2>1, <2>2 DEF RoleType, Old
<1>9. FillTrue'
  <2>1. asked'[r] = 0 /\ \A q \in Readers \ {r} : asked'[q] = asked[q]
    BY <1>1 DEF RoleType
  <2> QED BY <1>1, <1>7, <2>1 DEF RoleInv, FillTrue, Agrees, Holds, Reading, NoFill
<1>10. CacheTrue'
  <2>1. Agrees(fill[r].value, Len(Contracts)) => fill[r].value = Holds
    <3>1. (\A i \in 1..Len(Contracts) : Contracts[i] \notin grants) => ~ Holds
      BY <1>1 DEF RoleType, ToSet, Holds
    <3>2. ASSUME fill[r].value = TRUE, Holds PROVE fill[r].value = Holds
      BY <3>2 DEF Holds
    <3>3. ASSUME fill[r].value = FALSE, ~ Holds PROVE fill[r].value = Holds
      BY <3>3 DEF Holds
    <3> QED BY <3>1, <3>2, <3>3 DEF Agrees
  <2>2. fill[r].lag \in Nat /\ fill[r].lag <= MaxLag /\ age[Role] \in Nat
    BY <1>1, <1>2, OneKey DEF RoleType, Fill
  <2>3. fill[r].value = Holds \/ age[Role] <= fill[r].lag
    BY <1>1, <2>1 DEF RoleInv, FillTrue
  <2>4. age[Role] <= fill[r].lag => age[Role] <= Reach(Role) - TTL[Role]
    BY <2>2, OneKey
  <2>5. Holds' = Holds /\ Reach(Role)' = Reach(Role)
    BY <1>1 DEF Holds, Reach
  <2> QED BY <1>1, <1>4, <1>6, <2>3, <2>4, <2>5 DEF CacheTrue
<1> QED BY <1>8, <1>9, <1>10 DEF RoleInv

\* Everything that is wrong grows older, and an entry nearer its end.
LEMMA RoleTicks ==
    ASSUME RoleInv, TimePasses
    PROVE  RoleInv'
<1>1. RoleType /\ UNCHANGED <<grants, asked>> /\ Tick
  BY DEF TimePasses, RoleInv, roleVars
<1>2. /\ age[Role] \in Nat /\ age[Role] <= Old(Role) /\ cache[Role] \in Entry /\ cache[Role].ttl <= TTL[Role]
      /\ age'[Role] = IF age[Role] < Old(Role) THEN age[Role] + 1 ELSE age[Role]
      /\ age' = [k \in Keys |-> IF age[k] < Old(k) THEN age[k] + 1 ELSE age[k]]
  BY <1>1, OneKey DEF RoleType, Tick
<1>3. \A r \in Readers :
        /\ fill'[r] \in Fill
        /\ fill'[r].key = fill[r].key /\ fill'[r].value = fill[r].value
        /\ Reading(r) => fill'[r].lag = fill[r].lag + 1 /\ fill[r].lag \in Nat
  <2> TAKE r \in Readers
  <2>1. fill[r] \in Fill /\ MaxLag \in Nat
    BY <1>1, OneKey DEF RoleType
  <2>2. CASE Reading(r)
    <3>1. fill'[r] = [fill[r] EXCEPT !.lag = fill[r].lag + 1] /\ fill[r].lag < MaxLag
      BY <1>1, <2>2 DEF Tick
    <3> QED BY <2>1, <3>1 DEF Fill
  <2>3. CASE ~ Reading(r)
    BY <1>1, <2>1, <2>3 DEF Tick
  <2> QED BY <2>2, <2>3
<1>4. /\ cache'[Role] \in Entry /\ cache'[Role].ttl <= TTL[Role]
      /\ cache'[Role].value # Nothing =>
           cache'[Role].value = cache[Role].value /\ cache'[Role].ttl = cache[Role].ttl - 1
  <2>1. CASE cache[Role].ttl > 1
    <3>1. cache'[Role] = [cache[Role] EXCEPT !.ttl = cache[Role].ttl - 1]
      BY <1>1, <2>1, OneKey DEF Tick
    <3>2. TTL[Role] \in Nat
      BY OneKey
    <3> QED BY <1>2, <2>1, <3>1, <3>2 DEF Entry
  <2>2. CASE ~ cache[Role].ttl > 1
    <3>1. cache'[Role] = NoEntry
      BY <1>1, <2>2, OneKey DEF Tick
    <3>2. NoEntry \in Entry /\ NoEntry.ttl = 0 /\ NoEntry.value = Nothing /\ 0 <= TTL[Role]
      BY OneKey DEF NoEntry, Entry, Answers
    <3> QED BY <3>1, <3>2
  <2> QED BY <2>1, <2>2
<1>5. RoleType'
  <2>1. cache' \in [Keys -> Entry] /\ \A k \in Keys : cache'[k].ttl <= TTL[k]
    BY <1>1, <1>4, OneKey DEF Tick
  <2>2. age' \in [Keys -> Nat] /\ \A k \in Keys : age'[k] <= Old(k)
    BY <1>2, OneKey
  <2>3. fill' \in [Readers -> Fill]
    BY <1>1, <1>3 DEF Tick
  <2> QED BY <1>1, <2>1, <2>2, <2>3 DEF RoleType, Old
<1>6. FillTrue'
  <2> SUFFICES ASSUME NEW r \in Readers
               PROVE  IF Reading(r)' THEN Agrees(fill[r].value, asked[r])' \/ age'[Role] <= fill'[r].lag
                      ELSE asked'[r] = 0
    BY DEF FillTrue
  <2>1. Reading(r)' <=> Reading(r)
    BY <1>3 DEF Reading
  <2>2. Agrees(fill[r].value, asked[r]) => Agrees(fill[r].value, asked[r])'
    BY <1>1, <1>3 DEF Agrees, Holds
  <2>3. Reading(r) /\ age[Role] <= fill[r].lag => age'[Role] <= fill'[r].lag
    BY <1>2, <1>3, OneKey
  <2> QED BY <1>1, <2>1, <2>2, <2>3 DEF RoleInv, FillTrue
<1>7. CacheTrue'
  <2> SUFFICES ASSUME cache'[Role].value # Nothing, cache'[Role].value # Holds
               PROVE  age'[Role] <= Reach(Role) - cache'[Role].ttl
    BY <1>1 DEF CacheTrue, Cached, Reach, Holds
  <2>1. cache'[Role].value = cache[Role].value /\ cache'[Role].ttl = cache[Role].ttl - 1
    BY <1>4
  <2>2. age[Role] <= Reach(Role) - cache[Role].ttl
    BY <2>1 DEF RoleInv, CacheTrue, Cached
  <2>3. cache[Role].ttl \in Nat
    BY <1>2 DEF Entry
  <2> QED BY <1>2, <2>1, <2>2, <2>3, OneKey
<1> QED BY <1>5, <1>6, <1>7 DEF RoleInv

\* No step breaks the invariant.
LEMMA RoleStep == RoleInv /\ [Next]_vars => RoleInv'
<1> SUFFICES ASSUME RoleInv, [Next]_vars PROVE RoleInv'
  OBVIOUS
<1>1. ASSUME UNCHANGED <<cacheVars, grants, asked>> PROVE RoleInv'
  BY <1>1 DEF RoleInv, RoleType, FillTrue, CacheTrue, Agrees, Holds, Reading, Cached, Old, Reach, cacheVars
<1>2. ASSUME NEW r \in Readers, Guard(r) PROVE RoleInv'
  BY <1>2, AskRoleKeeps, AskContractKeeps, ContractSilentKeeps, RoleAnsweredKeeps DEF Guard
<1>3. CASE Handler \/ Script \/ CreationMined
  BY <1>1, <1>3 DEF Handler, FindDraft, UpsertMarket, AdoptDraft, RefuseText, WriteCopy, WriteLabels, SaveCursor, TickAborts,
     Script, SkipSeed, DraftSeed, SendCreation, CreationSeen, ScriptStops, CreationMined, roleVars
<1>4. CASE (\E c \in Copies : CreateDraft(c) \/ DraftShortMarket(c)) \/ \E t \in Texts : OperatorCreates(t)
  BY <1>1, <1>4 DEF CreateDraft, DraftShortMarket, OperatorCreates, roleVars
<1>5. CASE UNCHANGED vars
  BY <1>1, <1>5 DEF vars, roleVars
<1> QED BY <1>2, <1>3, <1>4, <1>5, RoleChangesKeeps, RoleTicks DEF Next

\* AdminAccessService.hasRole: a cached role is wrong for no longer than its time to live and the
\* reads it took, for any number of contracts, requests, grants and failed reads.
THEOREM RolesAreRecent == Spec => []RoleStaleForAtMost
<1>1. RoleInv => RoleStaleForAtMost
  <2> SUFFICES ASSUME RoleInv, Cached(Role), cache[Role].value # Holds PROVE age[Role] <= Reach(Role)
    BY DEF RoleStaleForAtMost
  <2>1. age[Role] <= Reach(Role) - cache[Role].ttl /\ age[Role] \in Nat /\ cache[Role].ttl \in Nat
    BY OneKey DEF RoleInv, CacheTrue, RoleType, Entry
  <2> QED BY <2>1, OneKey
<1> QED BY <1>1, RoleInit, RoleStep, PTL DEF Spec

-----------------------------------------------------------------------------
(* The rows and the drafts *)

MarketRow   == [text: Texts, by: {"operator", "script"}]
Shown       == [title: Copies \cup {Nothing}, labels: Copies \cup {Nothing}]
HandlerStep == [market: Nat \ {0}, at: {"find", "upsert", "adopt", "publish", "label"},
                seen: {"none", "free", "adopted"}]

DeskType ==
    /\ markets \in Seq(MarketRow) /\ rows \in Seq(Shown) /\ Len(rows) <= Len(markets) /\ drafted \subseteq Copies
    /\ adoptedBy \in [Copies -> Nat] /\ cursor \in Nat /\ handler \in HandlerStep
    /\ cursor < handler.market /\ handler.market <= Len(rows) + 1
    /\ handler.at # "find" => handler.market <= Len(markets)
    /\ handler.at \in {"adopt", "publish", "label"} => handler.market <= Len(rows)

\* A row says nothing yet, or what its market committed to.
RowsTrue ==
    \A n \in 1..Len(rows) : /\ rows[n].title \in {Nothing, Published(markets[n].text)}
                            /\ rows[n].labels \in {Nothing, Published(markets[n].text)}

\* The rows behind the handler say it all, and the one at the label step has its title.
RowsDone ==
    /\ \A n \in 1..Len(rows) :
          n < handler.market => rows[n].title = Published(markets[n].text) /\ rows[n].labels = Published(markets[n].text)
    /\ handler.at = "label" => rows[handler.market].title = Published(Text)

\* A draft that was read free still is, one that was read adopted is, and a draft is of a copy.
DraftKnown ==
    handler.at \in {"upsert", "adopt"} =>
        /\ handler.seen = "free" => adoptedBy[Text] = 0
        /\ handler.seen = "adopted" => adoptedBy[Text] # 0
        /\ handler.seen # "none" => Text \in Copies

DeskInv == DeskType /\ RowsTrue /\ RowsDone /\ DraftKnown

\* There is nothing to handle at the start.
LEMMA DeskInit == Init => DeskInv
<1> SUFFICES ASSUME Init PROVE DeskInv
  OBVIOUS
<1>1. /\ markets = <<>> /\ rows = <<>> /\ drafted = {} /\ adoptedBy = [c \in Copies |-> 0] /\ cursor = 0
      /\ handler = [market |-> 1, at |-> "find", seen |-> "none"]
  BY DEF Init
<1>2. handler \in HandlerStep /\ handler.market = 1 /\ handler.at = "find"
  BY <1>1 DEF HandlerStep
<1>3. Len(rows) = 0 /\ Len(markets) = 0 /\ markets \in Seq(MarketRow) /\ rows \in Seq(Shown)
  BY <1>1
<1> QED BY <1>1, <1>2, <1>3 DEF DeskInv, DeskType, RowsTrue, RowsDone, DraftKnown

\* A market more, or none, leaves the rows of the others what they were.
LEMMA DeskKept ==
    ASSUME DeskInv, UNCHANGED <<rows, adoptedBy, cursor, handler>>, drafted' \subseteq Copies,
           markets' = markets \/ \E m \in MarketRow : markets' = Append(markets, m)
    PROVE  DeskInv'
<1>1. DeskType
  BY DEF DeskInv
<1>2. /\ markets' \in Seq(MarketRow) /\ Len(markets) <= Len(markets') /\ Len(markets) \in Nat /\ Len(markets') \in Nat
      /\ \A n \in 1..Len(markets) : markets'[n] = markets[n]
  <2>1. markets \in Seq(MarketRow)
    BY <1>1 DEF DeskType
  <2>2. ASSUME NEW m \in MarketRow, markets' = Append(markets, m)
        PROVE  /\ markets' \in Seq(MarketRow) /\ Len(markets') = Len(markets) + 1
               /\ \A n \in 1..Len(markets) : markets'[n] = markets[n]
    BY <2>1, <2>2
  <2>3. CASE markets' = markets
    BY <2>1, <2>3
  <2>4. CASE \E m \in MarketRow : markets' = Append(markets, m)
    BY <2>1, <2>2, <2>4
  <2> QED BY <2>3, <2>4
<1>3. Len(rows) \in Nat /\ Len(rows) <= Len(markets) /\ handler.market \in Nat \ {0}
  BY <1>1 DEF DeskType, HandlerStep
<1>4. handler.at # "find" => Text' = Text
  BY <1>1, <1>2, <1>3 DEF DeskType, Text
<1>5. DeskType'
  BY <1>1, <1>2, <1>3 DEF DeskType
<1>6. RowsTrue' /\ RowsDone' /\ DraftKnown'
  BY <1>2, <1>3, <1>4 DEF DeskInv, RowsTrue, RowsDone, DraftKnown
<1> QED BY <1>5, <1>6 DEF DeskInv

\* The market that is handled is one that committed to a text.
LEMMA HandledText ==
    ASSUME DeskType, handler.market <= Len(markets)
    PROVE  Text \in Texts /\ handler.market \in 1..Len(markets) /\ Text = markets[handler.market].text
<1>1. handler.market \in 1..Len(markets)
  BY DEF DeskType, HandlerStep
<1>2. markets[handler.market] \in MarketRow
  BY <1>1 DEF DeskType
<1> QED BY <1>1, <1>2 DEF Text, MarketRow

\* createMarket reads the draft.
LEMMA FindDraftKeeps ==
    ASSUME DeskInv, FindDraft
    PROVE  DeskInv' /\ (handler'.seen = "none" <=> Text \notin drafted)
<1> USE DEF FindDraft, chainVars, tableVars
<1>1. DeskType /\ UNCHANGED <<markets, rows, drafted, adoptedBy, cursor>>
  BY DEF DeskInv
<1>2. handler.market \in Nat /\ drafted \subseteq Copies
  BY <1>1, HandledText DEF DeskType
<1>3. /\ handler' \in HandlerStep /\ handler'.at = "upsert" /\ handler'.market = handler.market
      /\ handler'.seen = IF Text \notin drafted THEN "none" ELSE IF adoptedBy[Text] = 0 THEN "free" ELSE "adopted"
  BY <1>1 DEF DeskType, HandlerStep
<1>4. DeskType'
  BY <1>1, <1>3 DEF DeskType
<1>5. Text' = Text
  BY <1>1, <1>3 DEF Text
<1>6. RowsTrue' /\ RowsDone' /\ DraftKnown'
  BY <1>1, <1>2, <1>3, <1>5 DEF DeskInv, RowsTrue, RowsDone, DraftKnown
<1> QED BY <1>3, <1>4, <1>6 DEF DeskInv

\* The upsert creates a row of the draft's copy, or leaves the row that is there.
LEMMA UpsertKeeps ==
    ASSUME DeskInv, UpsertMarket
    PROVE  DeskInv' /\ \A n \in 1..Len(rows) : n \in 1..Len(rows') /\ rows'[n] = rows[n]
<1> USE DEF UpsertMarket, chainVars
<1>1. DeskType /\ UNCHANGED <<markets, drafted, adoptedBy, cursor>> /\ handler.market <= Len(markets)
  BY DEF DeskInv, DeskType
<1>2. handler.market \in 1..Len(markets) /\ Text = markets[handler.market].text
      /\ (handler.seen # "none" => Text \in Copies)
  BY <1>1, HandledText DEF UpsertMarket, DeskInv, DraftKnown
<1>3. /\ handler' \in HandlerStep /\ handler'.at = "adopt" /\ handler'.market = handler.market
      /\ handler'.seen = handler.seen
  BY <1>1 DEF DeskType, HandlerStep
<1>4. Drafted \in Shown /\ Drafted.title \in {Nothing, Published(Text)} /\ Drafted.labels \in {Nothing, Published(Text)}
  BY <1>2 DEF Drafted, Blank, Shown, Published
<1>5. Len(rows) \in Nat /\ Len(markets) \in Nat /\ rows \in Seq(Shown) /\ handler.market <= Len(rows) + 1
      /\ Len(rows) <= Len(markets) /\ rows' = IF handler.market <= Len(rows) THEN rows ELSE Append(rows, Drafted)
  BY <1>1 DEF DeskType
<1>6. /\ rows' \in Seq(Shown) /\ Len(rows) <= Len(rows') /\ Len(rows') \in Nat /\ handler.market <= Len(rows')
      /\ Len(rows') <= Len(markets)
      /\ \A n \in 1..Len(rows) : rows'[n] = rows[n]
      /\ \A n \in 1..Len(rows') : n \notin 1..Len(rows) => n = handler.market /\ rows'[n] = Drafted
  <2>1. CASE handler.market <= Len(rows)
    BY <1>5, <2>1
  <2>2. CASE ~ handler.market <= Len(rows)
    <3>1. rows' = Append(rows, Drafted) /\ handler.market = Len(rows) + 1
      BY <1>2, <1>5, <2>2
    <3> QED BY <1>2, <1>4, <1>5, <3>1
  <2> QED BY <2>1, <2>2
<1>7. DeskType'
  BY <1>1, <1>3, <1>6 DEF DeskType
<1>8. Text' = Text
  BY <1>1, <1>3 DEF Text
<1>9. RowsTrue'
  BY <1>1, <1>2, <1>4, <1>6 DEF DeskInv, RowsTrue
<1>10. RowsDone'
  BY <1>1, <1>3, <1>6 DEF DeskInv, RowsDone
<1>11. DraftKnown'
  BY <1>1, <1>3, <1>8 DEF DeskInv, DraftKnown
<1>12. \A n \in 1..Len(rows) : n \in 1..Len(rows')
  BY <1>5, <1>6
<1> QED BY <1>6, <1>7, <1>9, <1>10, <1>11, <1>12 DEF DeskInv

\* A free draft is claimed, an adopted one is left alone.
LEMMA AdoptKeeps ==
    ASSUME DeskInv, AdoptDraft
    PROVE  /\ DeskInv'
           /\ \A c \in Copies : adoptedBy[c] # 0 => adoptedBy'[c] = adoptedBy[c]
           /\ handler.seen # "none" => adoptedBy'[Text] # 0
<1> USE DEF AdoptDraft, chainVars
<1>1. DeskType /\ UNCHANGED <<markets, rows, drafted, cursor>> /\ handler.market <= Len(markets)
  BY DEF DeskInv, DeskType
<1>2. handler.market \in 1..Len(markets) /\ handler.market \in Nat \ {0}
      /\ (handler.seen # "none" => Text \in Copies)
  BY <1>1, HandledText DEF DeskInv, DraftKnown
<1>3. handler' \in HandlerStep /\ handler'.at = "publish" /\ handler'.market = handler.market
  BY <1>1 DEF DeskType, HandlerStep
<1>4. adoptedBy' \in [Copies -> Nat]
  BY <1>1, <1>2 DEF DeskType
<1>5. DeskType'
  BY <1>1, <1>3, <1>4 DEF DeskType
<1>6. RowsTrue' /\ RowsDone' /\ DraftKnown'
  BY <1>1, <1>3 DEF DeskInv, RowsTrue, RowsDone, DraftKnown
<1>7. \A c \in Copies : adoptedBy[c] # 0 => adoptedBy'[c] = adoptedBy[c]
  BY <1>1, <1>2 DEF DeskInv, DeskType, DraftKnown
<1>8. handler.seen # "none" => adoptedBy'[Text] # 0
  BY <1>1, <1>2 DEF DeskInv, DeskType, DraftKnown, HandlerStep
<1> QED BY <1>5, <1>6, <1>7, <1>8 DEF DeskInv

\* A row that is replaced is the only one.
LEMMA RowReplaced ==
    ASSUME rows \in Seq(Shown), NEW n \in 1..Len(rows), NEW row \in Shown, rows' = [rows EXCEPT ![n] = row]
    PROVE  /\ rows' \in Seq(Shown) /\ Len(rows') = Len(rows) /\ rows'[n] = row
           /\ \A m \in 1..Len(rows) : m # n => rows'[m] = rows[m]
OBVIOUS

\* onMetadataPublished gives a row its title and then its labels, which it may have had, or leaves the
\* row of a text that encodes nothing as it is, and it is blank.
LEMMA PublishKeeps ==
    ASSUME DeskInv, RefuseText \/ WriteCopy \/ WriteLabels
    PROVE  DeskInv' /\ \A n \in 1..Len(rows) : n \in 1..Len(rows') /\ (rows[n].title # Nothing => rows'[n].title = rows[n].title)
<1> USE DEF RefuseText, WriteCopy, WriteLabels, NextMarket, chainVars, tableVars
<1>1. DeskType /\ UNCHANGED <<markets, drafted, adoptedBy, cursor>> /\ handler.market <= Len(markets)
      /\ handler.market <= Len(rows)
  BY DEF DeskInv, DeskType
<1> DEFINE copy == Published(Text)
<1>2. /\ handler.market \in 1..Len(rows) /\ Text = markets[handler.market].text
      /\ copy \in Copies \cup {Nothing} /\ handler.market \in Nat \ {0} /\ Len(rows) \in Nat
      /\ copy = Published(markets[handler.market].text)
  BY <1>1, HandledText DEF Published, DeskType
<1>a. Published(Text) = copy
  OBVIOUS
<1> HIDE DEF copy
<1>3. CASE WriteCopy
  <2>1. /\ rows' \in Seq(Shown) /\ Len(rows') = Len(rows)
        /\ rows'[handler.market].title = copy /\ rows'[handler.market].labels = rows[handler.market].labels
        /\ \A n \in 1..Len(rows) : n # handler.market => rows'[n] = rows[n]
    <3> DEFINE row == [rows[handler.market] EXCEPT !.title = copy]
    <3>1. rows \in Seq(Shown) /\ rows[handler.market] \in Shown
      BY <1>1, <1>2 DEF DeskType
    <3>2. row \in Shown /\ row.title = copy /\ row.labels = rows[handler.market].labels
      BY <1>2, <3>1 DEF Shown
    <3>3. rows' = [rows EXCEPT ![handler.market] = row]
      BY <1>2, <1>3, <1>a
    <3> HIDE DEF row
    <3> QED BY <1>2, <3>1, <3>2, <3>3, RowReplaced
  <2>2. handler' \in HandlerStep /\ handler'.at = "label" /\ handler'.market = handler.market
    BY <1>1, <1>3 DEF DeskType, HandlerStep
  <2>3. DeskType' /\ Text' = Text
    BY <1>1, <2>1, <2>2 DEF DeskType, Text
  <2>4. RowsTrue' /\ DraftKnown'
    BY <1>1, <1>2, <2>1, <2>2 DEF DeskInv, RowsTrue, DraftKnown
  <2>6. RowsDone'
    BY <1>1, <1>2, <1>a, <2>1, <2>2, <2>3 DEF DeskInv, RowsDone
  <2>5. \A n \in 1..Len(rows) : rows[n].title # Nothing => rows'[n].title = rows[n].title
    BY <1>2, <2>1 DEF DeskInv, RowsTrue
  <2> QED BY <2>1, <2>3, <2>4, <2>5, <2>6 DEF DeskInv
<1>4. CASE WriteLabels
  <2>1. /\ rows' \in Seq(Shown) /\ Len(rows') = Len(rows)
        /\ rows'[handler.market].labels = copy /\ rows'[handler.market].title = rows[handler.market].title
        /\ \A n \in 1..Len(rows) : n # handler.market => rows'[n] = rows[n]
    <3> DEFINE row == [rows[handler.market] EXCEPT !.labels = copy]
    <3>1. rows \in Seq(Shown) /\ rows[handler.market] \in Shown
      BY <1>1, <1>2 DEF DeskType
    <3>2. row \in Shown /\ row.labels = copy /\ row.title = rows[handler.market].title
      BY <1>2, <3>1 DEF Shown
    <3>3. rows' = [rows EXCEPT ![handler.market] = row]
      BY <1>2, <1>4, <1>a
    <3> HIDE DEF row
    <3> QED BY <1>2, <3>1, <3>2, <3>3, RowReplaced
  <2>2. handler' \in HandlerStep /\ handler'.at = "find" /\ handler'.market = handler.market + 1
    BY <1>2, <1>4 DEF HandlerStep
  <2>3. DeskType'
    BY <1>1, <1>2, <2>1, <2>2 DEF DeskType
  <2>4. rows[handler.market].title = copy
    BY <1>4, <1>a DEF DeskInv, RowsDone
  <2>5. RowsTrue' /\ DraftKnown'
    BY <1>1, <1>2, <2>1, <2>2, <2>4 DEF DeskInv, RowsTrue, DraftKnown
  <2>6. RowsDone'
    <3>1. ASSUME NEW n \in 1..Len(rows), n < handler.market + 1
          PROVE  rows'[n].title = Published(markets[n].text) /\ rows'[n].labels = Published(markets[n].text)
      <4>1. CASE n = handler.market
        BY <1>2, <2>1, <2>4, <4>1
      <4>2. CASE n # handler.market
        BY <1>2, <2>1, <3>1, <4>2 DEF DeskInv, RowsDone
      <4> QED BY <4>1, <4>2
    <3> QED BY <1>1, <2>1, <2>2, <3>1 DEF RowsDone
  <2> QED BY <2>1, <2>3, <2>5, <2>6 DEF DeskInv
<1>5. CASE RefuseText
  <2>1. /\ rows' = rows /\ copy = Nothing
        /\ rows[handler.market].title = copy /\ rows[handler.market].labels = copy
    BY <1>2, <1>5, <1>a DEF DeskInv, RowsTrue
  <2>2. handler' \in HandlerStep /\ handler'.at = "find" /\ handler'.market = handler.market + 1
    BY <1>2, <1>5 DEF HandlerStep
  <2>3. DeskType'
    BY <1>1, <1>2, <2>1, <2>2 DEF DeskType
  <2>4. RowsTrue' /\ DraftKnown'
    BY <1>1, <2>1, <2>2 DEF DeskInv, RowsTrue, DraftKnown
  <2>5. RowsDone'
    <3>1. ASSUME NEW n \in 1..Len(rows), n < handler.market + 1
          PROVE  rows[n].title = Published(markets[n].text) /\ rows[n].labels = Published(markets[n].text)
      <4>1. CASE n = handler.market
        BY <1>2, <2>1, <4>1
      <4>2. CASE n # handler.market
        BY <1>2, <3>1, <4>2 DEF DeskInv, RowsDone
      <4> QED BY <4>1, <4>2
    <3> QED BY <1>1, <2>1, <2>2, <3>1 DEF RowsDone
  <2> QED BY <2>1, <2>3, <2>4, <2>5 DEF DeskInv
<1> QED BY <1>3, <1>4, <1>5

\* The cursor follows the handler, and a tick that fails takes the handler back to it.
LEMMA CursorKeeps ==
    ASSUME DeskInv, SaveCursor \/ TickAborts
    PROVE  DeskInv'
<1> USE DEF SaveCursor, TickAborts, chainVars, tableVars
<1>1. DeskType /\ UNCHANGED <<markets, rows, drafted, adoptedBy>>
  BY DEF DeskInv
<1>2. handler.market \in Nat \ {0} /\ cursor \in Nat /\ cursor < handler.market /\ Len(rows) \in Nat
  BY <1>1 DEF DeskType, HandlerStep
<1>3. /\ handler' \in HandlerStep /\ handler'.at = "find" /\ handler'.market <= handler.market
      /\ cursor' \in Nat /\ cursor' < handler'.market /\ handler'.market \in Nat
  BY <1>1, <1>2 DEF DeskType, HandlerStep
<1>4. DeskType'
  BY <1>1, <1>2, <1>3 DEF DeskType
<1>5. RowsTrue' /\ RowsDone' /\ DraftKnown'
  BY <1>1, <1>2, <1>3 DEF DeskInv, RowsTrue, RowsDone, DraftKnown
<1> QED BY <1>4, <1>5 DEF DeskInv

\* The script creates what is on its list.
ScriptType ==
    /\ mempool \in Seq(Copies)
    /\ script \in [at: {"check", "send", "await"}, place: 1..Len(Seeds)]

\* A place on the list is a copy.
LEMMA SeedIsCopy == ScriptType => Seed \in Copies
BY AdminAssumption DEF ScriptType, Seed

\* The script starts at the head of its list.
LEMMA ScriptInit == Init => ScriptType
<1> SUFFICES ASSUME Init PROVE ScriptType
  OBVIOUS
<1>1. 1 \in 1..Len(Seeds)
  BY AdminAssumption
<1> QED BY <1>1 DEF Init, ScriptType, Off

\* Only the script and the chain touch its creations.
LEMMA ScriptStep == ScriptType /\ [Next]_vars => ScriptType'
<1> SUFFICES ASSUME ScriptType, [Next]_vars PROVE ScriptType'
  OBVIOUS
<1>1. CASE UNCHANGED <<mempool, script>>
  BY <1>1 DEF ScriptType
<1>2. /\ mempool \in Seq(Copies) /\ script \in [at: {"check", "send", "await"}, place: 1..Len(Seeds)]
      /\ Len(Seeds) \in Nat /\ 1 \in 1..Len(Seeds)
  BY AdminAssumption DEF ScriptType
<1>3. NextSeed \in [at: {"check", "send", "await"}, place: 1..Len(Seeds)]
      /\ Off \in [at: {"check", "send", "await"}, place: 1..Len(Seeds)]
  BY <1>2 DEF NextSeed, Off
<1>4. CASE Script
  <2>1. script' \in [at: {"check", "send", "await"}, place: 1..Len(Seeds)]
    BY <1>2, <1>3, <1>4 DEF Script, SkipSeed, DraftSeed, SendCreation, CreationSeen, ScriptStops
  <2>2. mempool' = mempool \/ mempool' = Append(mempool, Seed)
    BY <1>4 DEF Script, SkipSeed, DraftSeed, SendCreation, CreationSeen, ScriptStops, chainVars
  <2> QED BY <1>2, <2>1, <2>2, SeedIsCopy DEF ScriptType
<1>5. CASE CreationMined
  BY <1>2, <1>5 DEF CreationMined, scriptVars, ScriptType
<1>6. CASE Handler \/ TimePasses \/ UNCHANGED vars
  BY <1>1, <1>6 DEF Handler, FindDraft, UpsertMarket, AdoptDraft, RefuseText, WriteCopy, WriteLabels, SaveCursor, TickAborts,
     TimePasses, vars, chainVars, scriptVars
<1>7. CASE (\E c \in Copies : CreateDraft(c) \/ DraftShortMarket(c)) \/ \E t \in Texts : OperatorCreates(t)
  BY <1>1, <1>7 DEF CreateDraft, DraftShortMarket, OperatorCreates, chainVars, scriptVars
<1>8. ASSUME NEW c \in ToSet(Contracts), RoleChanges(c) PROVE ScriptType'
  BY <1>1, <1>8 DEF RoleChanges, chainVars, scriptVars
<1>9. ASSUME NEW r \in Readers, Guard(r) PROVE ScriptType'
  BY <1>1, <1>9 DEF Guard, AskRole, AskContract, ContractSilent, RoleAnswered, chainVars, scriptVars
<1> QED BY <1>4, <1>5, <1>6, <1>7, <1>8, <1>9 DEF Next

\* What no step takes back.
CopyKept ==
    /\ \A c \in Copies : adoptedBy[c] # 0 => adoptedBy'[c] = adoptedBy[c]
    /\ \A n \in DOMAIN rows : rows[n].title # Nothing => rows'[n].title = rows[n].title

\* No step breaks the invariant, and none takes back a claim or a title.
LEMMA DeskStep == ScriptType /\ DeskInv /\ [Next]_vars => DeskInv' /\ CopyKept
<1> SUFFICES ASSUME ScriptType, DeskInv, [Next]_vars PROVE DeskInv' /\ CopyKept
  OBVIOUS
<1>1. ASSUME UNCHANGED <<rows, adoptedBy>> PROVE CopyKept
  BY <1>1 DEF CopyKept
<1>2. DOMAIN rows = 1..Len(rows)
  BY DEF DeskInv, DeskType
<1>3. ASSUME UNCHANGED <<rows, adoptedBy, cursor, handler>>, drafted' \subseteq Copies,
             markets' = markets \/ \E m \in MarketRow : markets' = Append(markets, m)
      PROVE  DeskInv' /\ CopyKept
  BY <1>1, <1>3, DeskKept
<1>0. drafted \subseteq Copies /\ Seed \in Copies
  BY SeedIsCopy DEF DeskInv, DeskType
<1>4. ASSUME NEW c \in Copies, CreateDraft(c) \/ DraftShortMarket(c)
      PROVE  DeskInv' /\ CopyKept
  BY <1>0, <1>3, <1>4 DEF CreateDraft, DraftShortMarket, chainVars
<1>10. ASSUME NEW t \in Texts, OperatorCreates(t)
       PROVE  DeskInv' /\ CopyKept
  <2>1. [text |-> t, by |-> "operator"] \in MarketRow
    BY DEF MarketRow
  <2> QED BY <1>0, <1>3, <1>10, <2>1 DEF OperatorCreates, tableVars
<1>5. CASE Handler
  <2>1. CASE FindDraft
    BY <1>1, <2>1, FindDraftKeeps DEF FindDraft, tableVars
  <2>2. CASE UpsertMarket
    BY <1>2, <2>2, UpsertKeeps DEF CopyKept, UpsertMarket
  <2>3. CASE AdoptDraft
    BY <2>3, AdoptKeeps DEF CopyKept, AdoptDraft
  <2>4. CASE RefuseText \/ WriteCopy \/ WriteLabels
    BY <1>2, <2>4, PublishKeeps DEF CopyKept, RefuseText, WriteCopy, WriteLabels, tableVars
  <2>5. CASE SaveCursor \/ TickAborts
    BY <1>1, <2>5, CursorKeeps DEF SaveCursor, TickAborts, tableVars
  <2> QED BY <1>5, <2>1, <2>2, <2>3, <2>4, <2>5 DEF Handler
<1>6. CASE CreationMined
  <2>1. UNCHANGED <<rows, drafted, adoptedBy, cursor, handler>>
    BY <1>6 DEF CreationMined, tableVars
  <2>2. [text |-> Head(mempool), by |-> "script"] \in MarketRow
    BY <1>6 DEF CreationMined, ScriptType, MarketRow, Texts
  <2> QED BY <1>0, <1>3, <1>6, <2>1, <2>2 DEF CreationMined
<1>7. CASE Script \/ TimePasses \/ UNCHANGED vars
  BY <1>0, <1>3, <1>7 DEF Script, SkipSeed, DraftSeed, SendCreation, CreationSeen, ScriptStops, TimePasses, vars,
     chainVars, tableVars
<1>8. ASSUME NEW c \in ToSet(Contracts), RoleChanges(c) PROVE DeskInv' /\ CopyKept
  BY <1>0, <1>3, <1>8 DEF RoleChanges, chainVars, tableVars
<1>9. ASSUME NEW r \in Readers, Guard(r) PROVE DeskInv' /\ CopyKept
  BY <1>0, <1>3, <1>9 DEF Guard, AskRole, AskContract, ContractSilent, RoleAnswered, chainVars, tableVars
<1> QED BY <1>4, <1>5, <1>6, <1>7, <1>8, <1>9, <1>10 DEF Next

\* Both invariants hold throughout.
LEMMA DeskAlways == Spec => [](ScriptType /\ DeskInv)
<1>1. Init => ScriptType /\ DeskInv
  BY ScriptInit, DeskInit
<1>2. ScriptType /\ DeskInv /\ [Next]_vars => ScriptType' /\ DeskInv'
  BY ScriptStep, DeskStep
<1> QED BY <1>1, <1>2, PTL DEF Spec

\* createMarket and onMetadataPublished: every market behind the cursor shows the copy it committed to,
\* or nothing if its text encodes none, and no claim and no title is taken back, for any creations,
\* drafts and restarted ticks.
THEOREM CopiesAreServed == Spec => CopyIsServed
<1>1. DeskInv => \A n \in 1..cursor :
                    LET t == markets[n].text
                    IN  rows[n] = IF t \in Copies THEN [title |-> t, labels |-> t] ELSE Blank
  <2> SUFFICES ASSUME DeskInv, NEW n \in 1..cursor
               PROVE  rows[n] = IF markets[n].text \in Copies
                                THEN [title |-> markets[n].text, labels |-> markets[n].text] ELSE Blank
    OBVIOUS
  <2>1. /\ rows \in Seq(Shown) /\ cursor \in Nat /\ Len(rows) \in Nat /\ handler.market \in Nat
        /\ cursor < handler.market /\ handler.market <= Len(rows) + 1
    BY DEF DeskInv, DeskType, HandlerStep
  <2>2. n \in 1..Len(rows) /\ n < handler.market
    BY <2>1
  <2>3. /\ rows[n] \in Shown
        /\ rows[n].title = Published(markets[n].text) /\ rows[n].labels = Published(markets[n].text)
    BY <2>1, <2>2 DEF DeskInv, RowsDone
  <2>4. rows[n] = [title |-> Published(markets[n].text), labels |-> Published(markets[n].text)]
    BY <2>3 DEF Shown
  <2> QED BY <2>4 DEF Published, Blank
<1>2. ScriptType /\ DeskInv /\ [Next]_vars =>
        [/\ \A c \in Copies : adoptedBy[c] # 0 => adoptedBy'[c] = adoptedBy[c]
         /\ \A n \in DOMAIN rows : rows[n].title # Nothing => rows'[n].title = rows[n].title]_vars
  BY DeskStep DEF CopyKept
<1> QED BY <1>1, <1>2, DeskAlways, PTL DEF Spec, CopyIsServed

-----------------------------------------------------------------------------
(* The seeding script *)

\* The n-th market is the script's creation of c.
Own(n, c) == markets[n].text = c /\ markets[n].by = "script"

\* The script drafts before it creates, so the handlers of its markets find a draft.
DraftedFirst ==
    /\ \A n \in 1..Len(markets) : markets[n].by = "script" => markets[n].text \in drafted
    /\ \A i \in 1..Len(mempool) : mempool[i] \in drafted
    /\ script.at = "send" => Seed \in drafted
    /\ handler.at \in {"upsert", "adopt"} /\ markets[handler.market].by = "script" => handler.seen # "none"

\* The draft of a market of the script that was handled has an owner.
Owned ==
    \A n \in 1..Len(markets) : n \in Handled /\ markets[n].by = "script" => adoptedBy[markets[n].text] # 0

\* What was never created blindly is on chain, in the mempool or about to be sent once.
Once ==
    \A c \in Copies \ blind :
        /\ \A n, m \in 1..Len(markets) : Own(n, c) /\ Own(m, c) => n = m
        /\ \A i, j \in 1..Len(mempool) : mempool[i] = c /\ mempool[j] = c => i = j
        /\ \A i \in 1..Len(mempool), n \in 1..Len(markets) : mempool[i] = c => ~ Own(n, c)
        /\ script.at = "send" /\ Seed = c =>
             /\ \A i \in 1..Len(mempool) : mempool[i] # c
             /\ \A n \in 1..Len(markets) : ~ Own(n, c)

SeedInv == ScriptType /\ DeskInv /\ DraftedFirst /\ Owned /\ Once

\* There is nothing on chain at the start.
LEMMA SeedInit == Init => SeedInv
<1> SUFFICES ASSUME Init PROVE SeedInv
  OBVIOUS
<1>1. markets = <<>> /\ mempool = <<>> /\ script.at = "check" /\ handler.at = "find"
  BY DEF Init, Off
<1> QED BY <1>1, ScriptInit, DeskInit DEF SeedInv, DraftedFirst, Owned, Once

\* Drafts that are written meanwhile change nothing of it.
LEMMA SeedKept ==
    ASSUME SeedInv, ScriptType', DeskInv', UNCHANGED <<markets, mempool, script, blind, adoptedBy, cursor, handler>>,
           drafted \subseteq drafted'
    PROVE  SeedInv'
<1>1. Seed' = Seed
  BY DEF Seed
<1>2. DraftedFirst' /\ Once'
  BY <1>1 DEF SeedInv, DraftedFirst, Once, Own
<1>3. Owned'
  BY DEF SeedInv, Owned, Handled
<1> QED BY <1>2, <1>3 DEF SeedInv

\* The handlers own the draft of each market they are done with.
LEMMA SeedHandled ==
    ASSUME SeedInv, ScriptType', DeskInv', CopyKept, Handler
    PROVE  SeedInv'
<1>1. UNCHANGED <<markets, mempool, script, blind, drafted>>
  BY DEF Handler, FindDraft, UpsertMarket, AdoptDraft, RefuseText, WriteCopy, WriteLabels, SaveCursor, TickAborts, chainVars,
     tableVars, scriptVars
<1>2. Seed' = Seed
  BY <1>1 DEF Seed
<1>3. Once'
  BY <1>1, <1>2 DEF SeedInv, Once, Own
<1>4. /\ DeskType /\ handler.market \in Nat \ {0} /\ cursor \in Nat /\ cursor < handler.market
      /\ markets \in Seq(MarketRow) /\ Len(markets) \in Nat /\ DOMAIN markets = 1..Len(markets)
      /\ \A n \in 1..Len(markets) : markets[n].by = "script" => markets[n].text \in Copies
  <2>1. DeskType /\ markets \in Seq(MarketRow)
    BY DEF SeedInv, DeskInv, DeskType
  <2>2. \A n \in 1..Len(markets) : markets[n] \in MarketRow
    BY <2>1
  <2> QED BY <2>1, <2>2 DEF DeskType, HandlerStep, MarketRow, SeedInv, DraftedFirst
<1>5. ASSUME handler'.at \in {"upsert", "adopt"} /\ markets[handler'.market].by = "script" => handler'.seen # "none"
      PROVE  DraftedFirst'
  BY <1>1, <1>2, <1>5 DEF SeedInv, DraftedFirst
<1>6. ASSUME \A n \in 1..Len(markets) : n \in Handled' => n \in Handled
      PROVE  Owned'
  BY <1>1, <1>4, <1>6 DEF SeedInv, Owned, CopyKept
<1>7. \A n \in 1..Len(markets) :
        /\ n \in Handled <=> \/ n < handler.market \/ n <= cursor
                             \/ n = handler.market /\ handler.at \in {"publish", "label"}
        /\ n \in Handled' <=> \/ n < handler'.market \/ n <= cursor'
                              \/ n = handler'.market /\ handler'.at \in {"publish", "label"}
  BY <1>1, <1>4 DEF Handled
<1>8. CASE FindDraft
  <2>1. handler'.at = "upsert" /\ handler'.market = handler.market /\ cursor' = cursor
    BY <1>4, <1>8 DEF FindDraft, tableVars, DeskType, HandlerStep
  <2>2. handler'.seen = "none" <=> Text \notin drafted
    BY <1>8, FindDraftKeeps DEF SeedInv
  <2>3. handler.market \in 1..Len(markets)
    BY <1>4, <1>8 DEF FindDraft
  <2>4. markets[handler.market].by = "script" => Text \in drafted
    BY <2>3 DEF SeedInv, DraftedFirst, Text
  <2> QED BY <1>1, <1>3, <1>5, <1>6, <1>7, <2>1, <2>2, <2>4 DEF SeedInv
<1>9. CASE UpsertMarket
  <2>1. handler'.at = "adopt" /\ handler'.market = handler.market /\ cursor' = cursor /\ handler'.seen = handler.seen
        /\ handler.at = "upsert"
    BY <1>4, <1>9 DEF UpsertMarket, DeskType, HandlerStep
  <2> QED BY <1>1, <1>3, <1>5, <1>6, <1>7, <2>1 DEF SeedInv, DraftedFirst
<1>10. CASE AdoptDraft
  <2>1. handler'.at = "publish" /\ handler'.market = handler.market /\ cursor' = cursor /\ handler.at = "adopt"
    BY <1>4, <1>10 DEF AdoptDraft, DeskType, HandlerStep
  <2>2. handler.seen # "none" => adoptedBy'[Text] # 0
    BY <1>10, AdoptKeeps DEF SeedInv
  <2>3. markets[handler.market].by = "script" => adoptedBy'[markets[handler.market].text] # 0
    BY <2>1, <2>2 DEF SeedInv, DraftedFirst, Text
  <2>4. \A n \in 1..Len(markets) : n \in Handled' => n \in Handled \/ n = handler.market
    BY <1>7, <2>1
  <2>5. Owned'
    BY <1>1, <1>4, <2>3, <2>4 DEF SeedInv, Owned, CopyKept
  <2> QED BY <1>1, <1>3, <1>5, <2>1, <2>5 DEF SeedInv
<1>11. CASE RefuseText \/ WriteCopy \/ WriteLabels
  <2>1. cursor' = cursor /\ handler.at \in {"publish", "label"} /\ handler'.at \in {"label", "find"}
        /\ (handler'.at = "label" => handler'.market = handler.market)
        /\ (handler'.at = "find" => handler'.market = handler.market + 1)
    BY <1>4, <1>11 DEF RefuseText, WriteCopy, WriteLabels, NextMarket, tableVars, DeskType, HandlerStep
  <2>2. \A n \in 1..Len(markets) : n \in Handled' => n \in Handled
    BY <1>4, <1>7, <2>1
  <2> QED BY <1>1, <1>3, <1>5, <1>6, <2>1, <2>2 DEF SeedInv
<1>12. CASE SaveCursor \/ TickAborts
  <2>1. handler'.at = "find"
        /\ \/ handler'.market = handler.market /\ cursor' = handler.market - 1
           \/ handler'.market = cursor + 1 /\ cursor' = cursor
    BY <1>4, <1>12 DEF SaveCursor, TickAborts, tableVars, DeskType, HandlerStep
  <2>2. \A n \in 1..Len(markets) : n \in Handled' => n \in Handled
    BY <1>4, <1>7, <2>1
  <2> QED BY <1>1, <1>3, <1>5, <1>6, <2>1, <2>2 DEF SeedInv
<1> QED BY <1>8, <1>9, <1>10, <1>11, <1>12 DEF Handler

\* A market that was just created is still to be handled.
LEMMA Created ==
    ASSUME SeedInv, NEW m \in MarketRow, markets' = Append(markets, m), UNCHANGED <<handler, cursor>>
    PROVE  /\ markets \in Seq(MarketRow) /\ Len(markets) \in Nat /\ Len(markets') = Len(markets) + 1
           /\ markets'[Len(markets) + 1] = m
           /\ \A n \in 1..Len(markets) : markets'[n] = markets[n] /\ (n \in Handled' <=> n \in Handled)
           /\ Len(markets) + 1 \notin Handled'
           /\ handler.at \in {"upsert", "adopt"} => handler.market \in 1..Len(markets)
<1>1. /\ markets \in Seq(MarketRow) /\ Len(markets) \in Nat /\ handler.market \in Nat \ {0} /\ cursor \in Nat
      /\ cursor < handler.market /\ handler.market <= Len(rows) + 1 /\ Len(rows) <= Len(markets) /\ Len(rows) \in Nat
      /\ (handler.at # "find" => handler.market <= Len(markets))
  BY DEF SeedInv, DeskInv, DeskType, HandlerStep
<1>2. /\ Len(markets') = Len(markets) + 1 /\ markets'[Len(markets) + 1] = m
      /\ \A n \in 1..Len(markets) : markets'[n] = markets[n]
      /\ DOMAIN markets = 1..Len(markets) /\ DOMAIN markets' = 1..Len(markets')
  BY <1>1
<1>3. \A n : /\ n \in Handled <=> /\ n \in 1..Len(markets)
                                  /\ \/ n < handler.market \/ n <= cursor
                                     \/ n = handler.market /\ handler.at \in {"publish", "label"}
             /\ n \in Handled' <=> /\ n \in 1..Len(markets) + 1
                                   /\ \/ n < handler.market \/ n <= cursor
                                      \/ n = handler.market /\ handler.at \in {"publish", "label"}
  BY <1>2 DEF Handled
<1>4. \A n \in 1..Len(markets) : n \in Handled' <=> n \in Handled
  BY <1>1, <1>3
<1>5. Len(markets) + 1 \notin Handled'
  BY <1>1, <1>3
<1> QED BY <1>1, <1>2, <1>4, <1>5

\* An operator's market is none of the script's.
LEMMA SeedOperator ==
    ASSUME SeedInv, ScriptType', DeskInv', NEW t \in Texts, OperatorCreates(t)
    PROVE  SeedInv'
<1> DEFINE m == [text |-> t, by |-> "operator"]
<1>1. m \in MarketRow /\ m.by = "operator"
  BY DEF MarketRow
<1>2. markets' = Append(markets, m) /\ UNCHANGED <<mempool, script, blind, drafted, adoptedBy, cursor, handler>>
  BY DEF OperatorCreates, tableVars, scriptVars
<1> HIDE DEF m
<1>3. /\ Len(markets) \in Nat /\ Len(markets') = Len(markets) + 1
      /\ markets'[Len(markets) + 1] = m
      /\ \A n \in 1..Len(markets) : markets'[n] = markets[n] /\ (n \in Handled' <=> n \in Handled)
      /\ handler.at \in {"upsert", "adopt"} => handler.market \in 1..Len(markets)
  BY <1>1, <1>2, Created
<1>4. \A n \in 1..Len(markets') : n \in 1..Len(markets) \/ markets'[n].by = "operator"
  BY <1>1, <1>3
<1>5. Seed' = Seed
  BY <1>2 DEF Seed
<1>6. DraftedFirst'
  BY <1>2, <1>3, <1>4, <1>5 DEF SeedInv, DraftedFirst
<1>7. Owned'
  BY <1>2, <1>3, <1>4 DEF SeedInv, Owned
<1>8. \A n \in 1..Len(markets') : \A d : Own(n, d)' => n \in 1..Len(markets) /\ Own(n, d)
  BY <1>3, <1>4 DEF Own
<1>9. Once'
  BY <1>2, <1>5, <1>8 DEF SeedInv, Once
<1> QED BY <1>6, <1>7, <1>9 DEF SeedInv

\* What leaves the mempool was the only creation of its copy there, and none was on chain.
LEMMA SeedMined ==
    ASSUME SeedInv, ScriptType', DeskInv', CreationMined
    PROVE  SeedInv'
<1> DEFINE m == [text |-> Head(mempool), by |-> "script"]
<1>1. mempool \in Seq(Copies) /\ mempool # <<>>
  BY DEF SeedInv, ScriptType, CreationMined
<1>2. /\ Len(mempool) \in Nat \ {0} /\ Head(mempool) = mempool[1] /\ Head(mempool) \in Copies
      /\ mempool' = Tail(mempool) /\ Len(mempool') = Len(mempool) - 1
      /\ \A i \in 1..Len(mempool') : mempool'[i] = mempool[i + 1] /\ i + 1 \in 1..Len(mempool)
  BY <1>1 DEF CreationMined
<1>3. m \in MarketRow /\ m.by = "script" /\ m.text = mempool[1]
  BY <1>2 DEF MarketRow, Texts
<1>4. markets' = Append(markets, m) /\ UNCHANGED <<script, blind, drafted, adoptedBy, cursor, handler>>
  BY DEF CreationMined, tableVars, scriptVars
<1> HIDE DEF m
<1>5. /\ Len(markets) \in Nat /\ Len(markets') = Len(markets) + 1
      /\ markets'[Len(markets) + 1] = m
      /\ \A n \in 1..Len(markets) : markets'[n] = markets[n] /\ (n \in Handled' <=> n \in Handled)
      /\ Len(markets) + 1 \notin Handled'
      /\ handler.at \in {"upsert", "adopt"} => handler.market \in 1..Len(markets)
  BY <1>3, <1>4, Created
<1>6. \A n \in 1..Len(markets') : n \in 1..Len(markets) \/ n = Len(markets) + 1
  BY <1>5
<1>7. Seed' = Seed
  BY <1>4 DEF Seed
<1>8. 1 \in 1..Len(mempool)
  BY <1>2
<1>9. DraftedFirst'
  <2>1. \A n \in 1..Len(markets') : markets'[n].by = "script" => markets'[n].text \in drafted
    BY <1>3, <1>5, <1>6, <1>8 DEF SeedInv, DraftedFirst
  <2>2. \A i \in 1..Len(mempool') : mempool'[i] \in drafted
    BY <1>2 DEF SeedInv, DraftedFirst
  <2> QED BY <1>4, <1>5, <1>7, <2>1, <2>2 DEF SeedInv, DraftedFirst
<1>10. Owned'
  BY <1>4, <1>5, <1>6 DEF SeedInv, Owned
<1>11. \A n \in 1..Len(markets') : \A c : Own(n, c)' <=>
         IF n = Len(markets) + 1 THEN mempool[1] = c ELSE Own(n, c)
  BY <1>3, <1>5, <1>6 DEF Own
<1>12. Once'
  <2> SUFFICES ASSUME NEW c \in Copies \ blind
               PROVE  /\ \A n, k \in 1..Len(markets') : Own(n, c)' /\ Own(k, c)' => n = k
                      /\ \A i, j \in 1..Len(mempool') : mempool'[i] = c /\ mempool'[j] = c => i = j
                      /\ \A i \in 1..Len(mempool'), n \in 1..Len(markets') : mempool'[i] = c => ~ Own(n, c)'
                      /\ script.at = "send" /\ Seed = c =>
                           /\ \A i \in 1..Len(mempool') : mempool'[i] # c
                           /\ \A n \in 1..Len(markets') : ~ Own(n, c)'
    BY <1>4, <1>7 DEF Once
  <2>1. /\ \A n, k \in 1..Len(markets) : Own(n, c) /\ Own(k, c) => n = k
        /\ \A i, j \in 1..Len(mempool) : mempool[i] = c /\ mempool[j] = c => i = j
        /\ \A i \in 1..Len(mempool), n \in 1..Len(markets) : mempool[i] = c => ~ Own(n, c)
        /\ script.at = "send" /\ Seed = c =>
             /\ \A i \in 1..Len(mempool) : mempool[i] # c
             /\ \A n \in 1..Len(markets) : ~ Own(n, c)
    BY DEF SeedInv, Once
  <2>2. \A n, k \in 1..Len(markets') : Own(n, c)' /\ Own(k, c)' => n = k
    BY <1>6, <1>8, <1>11, <2>1
  <2>3. \A i, j \in 1..Len(mempool') : mempool'[i] = c /\ mempool'[j] = c => i = j
    <3> SUFFICES ASSUME NEW i \in 1..Len(mempool'), NEW j \in 1..Len(mempool'), mempool'[i] = c, mempool'[j] = c
                 PROVE  i = j
      OBVIOUS
    <3>1. i + 1 = j + 1
      BY <1>2, <2>1
    <3> QED BY <1>2, <3>1
  <2>4. ASSUME NEW i \in 1..Len(mempool'), mempool'[i] = c PROVE mempool[1] # c
    <3>1. i + 1 \in 1..Len(mempool) /\ mempool[i + 1] = c /\ i + 1 # 1
      BY <1>2, <2>4
    <3> QED BY <1>8, <2>1, <3>1
  <2>5. \A i \in 1..Len(mempool'), n \in 1..Len(markets') : mempool'[i] = c => ~ Own(n, c)'
    BY <1>2, <1>6, <1>11, <2>1, <2>4
  <2>6. script.at = "send" /\ Seed = c =>
          /\ \A i \in 1..Len(mempool') : mempool'[i] # c
          /\ \A n \in 1..Len(markets') : ~ Own(n, c)'
    BY <1>2, <1>6, <1>8, <1>11, <2>1
  <2> QED BY <2>2, <2>3, <2>5, <2>6
<1> QED BY <1>9, <1>10, <1>12 DEF SeedInv

\* The script sends a copy when its draft had no owner: no earlier creation of it was handled, and
\* none is on its way unless it was created blindly.
LEMMA SeedScript ==
    ASSUME SeedInv, ScriptType', DeskInv', Script
    PROVE  SeedInv'
<1>1. UNCHANGED <<markets, adoptedBy, cursor, handler>>
  BY DEF Script, SkipSeed, DraftSeed, SendCreation, CreationSeen, ScriptStops, chainVars, tableVars
<1>2. Owned'
  BY <1>1 DEF SeedInv, Owned, Handled
<1>3. Seed \in Copies
  BY SeedIsCopy DEF SeedInv
<1>4. CASE SkipSeed \/ CreationSeen \/ ScriptStops
  <2>1. UNCHANGED <<mempool, drafted, blind>> /\ script'.at = "check"
    BY <1>4 DEF SkipSeed, CreationSeen, ScriptStops, NextSeed, Off, chainVars, tableVars
  <2>2. DraftedFirst' /\ Once'
    BY <1>1, <2>1 DEF SeedInv, DraftedFirst, Once, Own
  <2> QED BY <1>2, <2>2 DEF SeedInv
<1>5. CASE DraftSeed
  <2>1. /\ mempool' = mempool /\ drafted' = drafted \cup {Seed} /\ adoptedBy[Seed] = 0
        /\ blind' = IF Seed \in ToSet(mempool) \/ OwnCreations(Seed) \ Handled # {} THEN blind \cup {Seed} ELSE blind
    BY <1>5 DEF DraftSeed, chainVars
  <2>2. script'.at = "send" /\ script'.place = script.place
    BY <1>5 DEF DraftSeed, SeedInv, ScriptType
  <2>3. Seed' = Seed
    BY <2>2 DEF Seed
  <2>4. DraftedFirst'
    BY <1>1, <2>1, <2>3 DEF SeedInv, DraftedFirst
  <2>5. ASSUME Seed \notin blind'
        PROVE  (\A i \in 1..Len(mempool) : mempool[i] # Seed) /\ \A n \in 1..Len(markets) : ~ Own(n, Seed)
    <3>1. Seed \notin ToSet(mempool) /\ OwnCreations(Seed) \ Handled = {}
      BY <2>1, <2>5
    <3>2. \A i \in 1..Len(mempool) : mempool[i] # Seed
      BY <3>1 DEF ToSet, SeedInv, ScriptType
    <3>3. ASSUME NEW n \in 1..Len(markets), Own(n, Seed) PROVE FALSE
      <4>1. markets \in Seq(MarketRow) /\ markets[n] \in MarketRow
        BY DEF SeedInv, DeskInv, DeskType
      <4>2. markets[n] = [text |-> Seed, by |-> "script"] /\ n \in DOMAIN markets
        BY <3>3, <4>1 DEF Own, MarketRow
      <4>3. n \in Handled
        BY <3>1, <4>2 DEF OwnCreations
      <4> QED BY <2>1, <3>3, <4>3 DEF SeedInv, Owned, Own
    <3> QED BY <3>2, <3>3
  <2>6. Once'
    BY <1>1, <2>1, <2>3, <2>5 DEF SeedInv, Once, Own
  <2> QED BY <1>2, <2>4, <2>6 DEF SeedInv
<1>6. CASE SendCreation
  <2>1. /\ mempool \in Seq(Copies) /\ mempool' = Append(mempool, Seed) /\ script.at = "send"
        /\ UNCHANGED <<drafted, blind>>
    BY <1>6 DEF SendCreation, SeedInv, ScriptType, tableVars
  <2>2. script'.at = "await"
    BY <1>6 DEF SendCreation, SeedInv, ScriptType
  <2>3. /\ Len(mempool) \in Nat /\ Len(mempool') = Len(mempool) + 1 /\ mempool'[Len(mempool) + 1] = Seed
        /\ \A i \in 1..Len(mempool') : i \in 1..Len(mempool) \/ i = Len(mempool) + 1
        /\ \A i \in 1..Len(mempool) : mempool'[i] = mempool[i]
    BY <1>3, <2>1
  <2>4. DraftedFirst'
    BY <1>1, <2>1, <2>2, <2>3 DEF SeedInv, DraftedFirst
  <2>5. Once'
    BY <1>1, <2>1, <2>2, <2>3 DEF SeedInv, Once, Own
  <2> QED BY <1>2, <2>4, <2>5 DEF SeedInv
<1> QED BY <1>4, <1>5, <1>6 DEF Script

\* No step breaks the invariant.
LEMMA SeedStep == SeedInv /\ [Next]_vars => SeedInv'
<1> SUFFICES ASSUME SeedInv, [Next]_vars PROVE SeedInv'
  OBVIOUS
<1>1. ScriptType' /\ DeskInv' /\ CopyKept
  BY ScriptStep, DeskStep DEF SeedInv
<1>2. ASSUME UNCHANGED <<markets, mempool, script, blind, adoptedBy, cursor, handler>>, drafted \subseteq drafted'
      PROVE  SeedInv'
  BY <1>1, <1>2, SeedKept
<1>3. CASE Handler \/ CreationMined \/ Script
  BY <1>1, <1>3, SeedHandled, SeedMined, SeedScript
<1>4. ASSUME NEW c \in Copies, CreateDraft(c) \/ DraftShortMarket(c) PROVE SeedInv'
  BY <1>2, <1>4 DEF CreateDraft, DraftShortMarket, chainVars, scriptVars
<1>8. ASSUME NEW t \in Texts, OperatorCreates(t) PROVE SeedInv'
  BY <1>1, <1>8, SeedOperator
<1>5. CASE TimePasses \/ UNCHANGED vars
  BY <1>2, <1>5 DEF TimePasses, vars, chainVars, tableVars, scriptVars
<1>6. ASSUME NEW c \in ToSet(Contracts), RoleChanges(c) PROVE SeedInv'
  BY <1>2, <1>6 DEF RoleChanges, chainVars, tableVars, scriptVars
<1>7. ASSUME NEW r \in Readers, Guard(r) PROVE SeedInv'
  BY <1>2, <1>7 DEF Guard, AskRole, AskContract, ContractSilent, RoleAnswered, chainVars, tableVars, scriptVars
<1> QED BY <1>3, <1>4, <1>5, <1>6, <1>7, <1>8 DEF Next

\* seed-testnet-markets.ts: a copy is created twice only if the script looked for it while its first
\* creation was still on its way to the database, however often it is run, stopped and run again.
THEOREM CopiesAreSeededOnce == Spec => []SeededOnce
<1>1. SeedInv => SeededOnce
  <2> SUFFICES ASSUME SeedInv, NEW c \in Copies, Cardinality(OwnCreations(c)) > 1, c \notin blind PROVE FALSE
    BY DEF SeededOnce
  <2>1. \A n \in OwnCreations(c) : n \in 1..Len(markets) /\ Own(n, c)
    BY DEF OwnCreations, Own, SeedInv, DeskInv, DeskType
  <2>2. \A n, m \in OwnCreations(c) : n = m
    BY <2>1 DEF SeedInv, Once
  <2>3. CASE OwnCreations(c) = {}
    BY <2>3, FS_EmptySet
  <2>4. CASE OwnCreations(c) # {}
    <3>1. PICK n : OwnCreations(c) = {n}
      BY <2>2, <2>4
    <3>2. Cardinality({n}) = 1
      BY FS_Singleton
    <3> QED BY <3>1, <3>2
  <2> QED BY <2>3, <2>4
<1> QED BY <1>1, SeedInit, SeedStep, PTL DEF Spec
=============================================================================
