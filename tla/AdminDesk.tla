------------------------------ MODULE AdminDesk ------------------------------
(***************************************************************************)
(* From an operator's draft to a listed market: the role check of          *)
(* src/admin/admin-access.service.ts, the drafts of                        *)
(* src/admin/admin.service.ts, their adoption by the MarketCreated and     *)
(* MarketMetadataPublished handlers of src/chain/event-processor.service.ts*)
(* and the scripts that create markets, seed-testnet-markets.ts and        *)
(* create-short-market.ts.                                                 *)
(*                                                                         *)
(* The copy of a market is one value, and its metadataHash stands for it:  *)
(* a draft, an on-chain creation and a published text with one hash have   *)
(* one copy.  The engine checks no more than the hash of a text, so there  *)
(* are texts that encode no copy.  The chain's logs are taken final and in *)
(* order, and a failed tick starts over from the stored cursor             *)
(* (MarketIndexer).                                                        *)
(***************************************************************************)
EXTENDS ReadCache, Sequences, FiniteSets, SequencesExt

CONSTANTS
    Copies,          \* what markets say about themselves, in its canonical encoding
    Foreign,         \* texts that are no canonical encoding of anything
    Seeds,           \* the script's list, a sequence of copies
    Contracts,       \* that can grant the role, in the order they are asked
    Initially,       \* the sets of contracts that may grant the role at the start
    MaxRoleChanges,  \* bound: grants and revocations
    MaxMarkets,      \* bound: markets created on chain
    MaxFaults        \* bound: failed role reads and failed ticks

\* One role is checked, and the script's list is not empty.
Texts == Copies \cup Foreign

ASSUME AdminAssumption ==
    /\ Nothing \notin Copies /\ Copies \cap Foreign = {}
    /\ Seeds \in Seq(Copies) /\ Seeds # <<>> /\ \E k \in Keys : Keys = {k}
    /\ Contracts \in Seq(ToSet(Contracts)) /\ Initially \subseteq SUBSET ToSet(Contracts)
    /\ MaxRoleChanges \in Nat /\ MaxMarkets \in Nat /\ MaxFaults \in Nat

VARIABLES
    \* the chain
    grants,     \* contracts on which the account holds the role, or is their admin
    mempool,    \* the script's creation that is not mined yet, of one copy at most
    markets,    \* markets created, in order: their text and who created them
    \* Postgres
    drafted,    \* copies with a row in market_metadata_drafts
    adoptedBy,  \* adoptedBy[c]: its marketRef, 0 for null
    rows,       \* rows[n]: of the n-th market, what its title and its outcome labels say
    cursor,     \* markets at or before it are not handled again
    \* the service and the script
    asked,      \* asked[r]: contracts that the role check of r has asked
    handler,    \* the market whose logs are handled, at which step, and the draft as it was read
    script,     \* the running script: its step and its place in the list
    \* history
    blind,      \* copies that the script created again before the first creation was handled
    roleChanges, faults

roleVars   == <<grants, asked, roleChanges>>
chainVars  == <<mempool, markets>>
tableVars  == <<drafted, adoptedBy, rows, cursor>>
scriptVars == <<script, blind>>
vars == <<cacheVars, roleVars, chainVars, tableVars, handler, scriptVars, faults>>

Role  == CHOOSE k \in Keys : TRUE
Holds == grants # {}

\* What a row says.  Its labels are those of the outcomes the market has: createMarket takes the
\* draft's up to outcomeCount, and onMetadataPublished cuts the rest off.
Blank == [title |-> Nothing, labels |-> Nothing]
\* The script is not running, or about to look for its first copy.
Off   == [at |-> "check", place |-> 1]

-----------------------------------------------------------------------------
Init ==
    /\ CacheInit
    /\ grants \in Initially /\ asked = [r \in Readers |-> 0] /\ roleChanges = 0
    /\ mempool = <<>> /\ markets = <<>>
    /\ drafted = {} /\ adoptedBy = [c \in Copies |-> 0] /\ rows = <<>> /\ cursor = 0
    /\ handler = [market |-> 1, at |-> "find", seen |-> "none"]
    /\ script = Off /\ blind = {} /\ faults = 0

(* ---- the role guard ---- *)

\* A grant or a revocation on one contract.  (External)
RoleChanges(c) ==
    /\ roleChanges < MaxRoleChanges /\ roleChanges' = roleChanges + 1
    /\ grants' = IF c \in grants THEN grants \ {c} ELSE grants \cup {c}
    /\ age' = Renewed(Keys)
    /\ UNCHANGED <<cache, fill, asked, chainVars, tableVars, handler, scriptVars, faults>>

\* hasRole misses the cache.
AskRole(r) ==
    /\ Misses(r, Role, FALSE)
    /\ UNCHANGED <<cache, age, roleVars, chainVars, tableVars, handler, scriptVars, faults>>

\* ChainService.hasRole
Grants(c) == c \in grants

\* The next contract answers; one that grants the role ends the loop.
AskContract(r) ==
    /\ Reading(r) /\ asked[r] < Len(Contracts)
    /\ LET granted == Grants(Contracts[asked[r] + 1])
       IN  /\ fill' = [fill EXCEPT ![r].value = granted]
           /\ asked' = [asked EXCEPT ![r] = IF granted THEN Len(Contracts) ELSE @ + 1]
    /\ UNCHANGED <<cache, age, grants, roleChanges, chainVars, tableVars, handler, scriptVars, faults>>

\* The read of a contract fails: it is passed over, as if it granted nothing.
ContractSilent(r) ==
    /\ Reading(r) /\ asked[r] < Len(Contracts)
    /\ faults < MaxFaults /\ faults' = faults + 1
    /\ asked' = [asked EXCEPT ![r] = @ + 1]
    /\ age' = Renewed(Keys)
    /\ UNCHANGED <<cache, fill, grants, roleChanges, chainVars, tableVars, handler, scriptVars>>

\* The answer is cached, whatever it is based on.
RoleAnswered(r) ==
    /\ Reading(r) /\ asked[r] = Len(Contracts)
    /\ Stores(r)
    /\ asked' = [asked EXCEPT ![r] = 0]
    /\ UNCHANGED <<age, grants, roleChanges, chainVars, tableVars, handler, scriptVars, faults>>

TimePasses == Tick /\ UNCHANGED <<roleVars, chainVars, tableVars, handler, scriptVars, faults>>

(* ---- POST /admin/markets/drafts ---- *)

\* A request that the guard lets through on a cached role; the row is written once.
CreateDraft(c) ==
    /\ cache[Role].value = TRUE
    /\ drafted' = drafted \cup {c}
    /\ UNCHANGED <<cacheVars, roleVars, chainVars, adoptedBy, rows, cursor, handler, scriptVars, faults>>

\* scripts/create-short-market.ts mints and approves the collateral and writes the draft, without
\* asking for a role ...
DraftShortMarket(c) ==
    /\ drafted' = drafted \cup {c}
    /\ UNCHANGED <<cacheVars, roleVars, chainVars, adoptedBy, rows, cursor, handler, scriptVars, faults>>

\* ... and creates the market without looking for an earlier one, as any operator's wallet may,
\* drafted here or not, and of any text it can hash.
OperatorCreates(t) ==
    /\ Len(markets) < MaxMarkets
    /\ markets' = Append(markets, [text |-> t, by |-> "operator"])
    /\ UNCHANGED <<cacheVars, roleVars, mempool, tableVars, handler, scriptVars, faults>>

(* ---- the handlers ---- *)

Text == markets[handler.market].text

\* createMarket reads the draft ...
FindDraft ==
    /\ handler.at = "find" /\ handler.market <= Len(markets)
    /\ handler' = [handler EXCEPT !.at = "upsert",
         !.seen = IF Text \notin drafted THEN "none" ELSE IF adoptedBy[Text] = 0 THEN "free" ELSE "adopted"]
    /\ UNCHANGED <<cacheVars, roleVars, chainVars, tableVars, scriptVars, faults>>

Drafted == IF handler.seen = "none" THEN Blank ELSE [title |-> Text, labels |-> Text]

\* Mutant: a row that exists is overwritten with the draft.
UpsertOverwriting ==
    /\ handler.at = "upsert"
    /\ rows' = IF handler.market <= Len(rows) THEN [rows EXCEPT ![handler.market] = Drafted] ELSE Append(rows, Drafted)
    /\ handler' = [handler EXCEPT !.at = "adopt"]
    /\ UNCHANGED <<cacheVars, roleVars, chainVars, drafted, adoptedBy, cursor, scriptVars, faults>>

\* Mutant: a draft is adopted together with its market's row, and not when the row is there already.
AdoptWithRow ==
    /\ handler.at = "upsert"
    /\ rows' = IF handler.market <= Len(rows) THEN rows ELSE Append(rows, Drafted)
    /\ handler' = [handler EXCEPT !.at = "adopt", !.seen = IF handler.market <= Len(rows) THEN "adopted" ELSE @]
    /\ UNCHANGED <<cacheVars, roleVars, chainVars, drafted, adoptedBy, cursor, scriptVars, faults>>

\* ... creates the market's row with the draft's copy unless it exists ...
UpsertMarket ==
    /\ handler.at = "upsert"
    /\ rows' = IF handler.market <= Len(rows) THEN rows ELSE Append(rows, Drafted)
    /\ handler' = [handler EXCEPT !.at = "adopt"]
    /\ UNCHANGED <<cacheVars, roleVars, chainVars, drafted, adoptedBy, cursor, scriptVars, faults>>

\* ... and claims the draft if it was free when it was read.
AdoptDraft ==
    /\ handler.at = "adopt"
    /\ adoptedBy' = IF handler.seen = "free" THEN [adoptedBy EXCEPT ![Text] = handler.market] ELSE adoptedBy
    /\ handler' = [handler EXCEPT !.at = "publish", !.seen = "none"]
    /\ UNCHANGED <<cacheVars, roleVars, chainVars, drafted, rows, cursor, scriptVars, faults>>

\* parseCanonical: the copy that a text encodes, if encoding it again gives the text's hash.
Published(t) == IF t \in Copies THEN t ELSE Nothing

NextMarket == [market |-> handler.market + 1, at |-> "find", seen |-> "none"]

\* onMetadataPublished: a text that encodes no copy is ignored with a warning ...
RefuseText ==
    /\ handler.at = "publish" /\ Published(Text) = Nothing
    /\ handler' = NextMarket
    /\ UNCHANGED <<cacheVars, roleVars, chainVars, tableVars, scriptVars, faults>>

\* ... and any other replaces the row's, and then its labels.
WriteCopy ==
    /\ handler.at = "publish" /\ Published(Text) # Nothing
    /\ rows' = [rows EXCEPT ![handler.market].title = Published(Text)]
    /\ handler' = [handler EXCEPT !.at = "label"]
    /\ UNCHANGED <<cacheVars, roleVars, chainVars, drafted, adoptedBy, cursor, scriptVars, faults>>

WriteLabels ==
    /\ handler.at = "label"
    /\ rows' = [rows EXCEPT ![handler.market].labels = Published(Text)]
    /\ handler' = NextMarket
    /\ UNCHANGED <<cacheVars, roleVars, chainVars, drafted, adoptedBy, cursor, scriptVars, faults>>

\* The tick ends; its logs are done.
SaveCursor ==
    /\ handler.at = "find" /\ cursor < handler.market - 1
    /\ cursor' = handler.market - 1
    /\ UNCHANGED <<cacheVars, roleVars, chainVars, drafted, adoptedBy, rows, handler, scriptVars, faults>>

\* The tick fails between two writes and starts over.
TickAborts ==
    /\ faults < MaxFaults /\ faults' = faults + 1
    /\ handler.at # "find" \/ cursor < handler.market - 1
    /\ handler' = [market |-> cursor + 1, at |-> "find", seen |-> "none"]
    /\ UNCHANGED <<cacheVars, roleVars, chainVars, tableVars, scriptVars>>

\* Markets whose draft, if it was found, has been claimed.
Handled == {n \in DOMAIN markets : n < handler.market \/ n <= cursor
                                   \/ (n = handler.market /\ handler.at \in {"publish", "label"})}

(* ---- scripts/seed-testnet-markets.ts ---- *)

Seed == Seeds[script.place]
NextSeed == IF script.place < Len(Seeds) THEN [at |-> "check", place |-> script.place + 1] ELSE Off

\* The script's own creations of c that exist or may still come to exist.
OwnCreations(c) == {n \in DOMAIN markets : markets[n] = [text |-> c, by |-> "script"]}

\* main, which mints and approves the collateral at every run: a copy whose draft names a market is
\* skipped.
SkipSeed ==
    /\ script.at = "check" /\ adoptedBy[Seed] # 0
    /\ script' = NextSeed
    /\ UNCHANGED <<cacheVars, roleVars, chainVars, tableVars, handler, blind, faults>>

\* Otherwise its draft is written, if there is none ...
DraftSeed ==
    /\ script.at = "check" /\ adoptedBy[Seed] = 0
    /\ drafted' = drafted \cup {Seed}
    /\ blind' = IF Seed \in ToSet(mempool) \/ OwnCreations(Seed) \ Handled # {} THEN blind \cup {Seed} ELSE blind
    /\ script' = [script EXCEPT !.at = "send"]
    /\ UNCHANGED <<cacheVars, roleVars, chainVars, adoptedBy, rows, cursor, handler, faults>>

\* ... and the market is created.
SendCreation ==
    /\ script.at = "send" /\ Len(markets) + Len(mempool) < MaxMarkets
    /\ mempool' = Append(mempool, Seed)
    /\ script' = [script EXCEPT !.at = "await"]
    /\ UNCHANGED <<cacheVars, roleVars, markets, tableVars, handler, blind, faults>>

\* (External)
CreationMined ==
    /\ mempool # <<>>
    /\ mempool' = Tail(mempool)
    /\ markets' = Append(markets, [text |-> Head(mempool), by |-> "script"])
    /\ UNCHANGED <<cacheVars, roleVars, tableVars, handler, scriptVars, faults>>

\* The receipt of the last creation: the script goes on.
CreationSeen ==
    /\ script.at = "await" /\ mempool = <<>>
    /\ script' = NextSeed
    /\ UNCHANGED <<cacheVars, roleVars, chainVars, tableVars, handler, blind, faults>>

\* Any call of the script throws, or somebody stops it.
ScriptStops ==
    /\ script # Off
    /\ script' = Off
    /\ UNCHANGED <<cacheVars, roleVars, chainVars, tableVars, handler, blind, faults>>

-----------------------------------------------------------------------------
Guard(r) == AskRole(r) \/ AskContract(r) \/ ContractSilent(r) \/ RoleAnswered(r)

Handler ==
    FindDraft \/ UpsertMarket \/ AdoptDraft \/ RefuseText \/ WriteCopy \/ WriteLabels \/ SaveCursor \/ TickAborts

Script == SkipSeed \/ DraftSeed \/ SendCreation \/ CreationSeen \/ ScriptStops

Next ==
    \/ \E c \in ToSet(Contracts) : RoleChanges(c)
    \/ \E r \in Readers : Guard(r)
    \/ \E c \in Copies : CreateDraft(c) \/ DraftShortMarket(c)
    \/ \E t \in Texts : OperatorCreates(t)
    \/ Handler \/ Script \/ CreationMined \/ TimePasses

Spec == Init /\ [][Next]_vars

-----------------------------------------------------------------------------
(* Properties *)

\* Every variable stays in its type.
TypeOK ==
    /\ CacheTypeOK(BOOLEAN)
    /\ grants \subseteq ToSet(Contracts) /\ asked \in [Readers -> 0..Len(Contracts)]
    /\ mempool \in Seq(Copies) /\ markets \in Seq([text: Texts, by: {"operator", "script"}])
    /\ drafted \subseteq Copies /\ adoptedBy \in [Copies -> 0..Len(markets)]
    /\ rows \in Seq([title: Copies \cup {Nothing}, labels: Copies \cup {Nothing}])
    /\ cursor <= Len(rows) /\ Len(rows) <= Len(markets)
    /\ handler.market \in cursor + 1 .. Len(rows) + 1
    /\ script.at \in {"check", "send", "await"} /\ script.place \in 1..Len(Seeds)
    /\ blind \subseteq Copies

\* The cached role is the chain's, unless a grant, a revocation or a failed read is recent
\* (AdminAccessService.hasRole: CACHE_TTL_SECONDS, and the time its reads take).
RoleStaleForAtMost ==
    Cached(Role) /\ cache[Role].value # Holds => age[Role] <= Reach(Role)

\* A market behind the cursor shows the copy it committed to, drafted here or not, and nothing at all
\* if it committed to a text that encodes none; what a market shows is never taken back, nor is a
\* draft claimed by another market, however often the logs are handled (createMarket's upsert and its
\* marketRef check, onMetadataPublished).
CopyIsServed ==
    /\ [](\A n \in 1..cursor :
            LET t == markets[n].text
            IN  rows[n] = IF t \in Copies THEN [title |-> t, labels |-> t] ELSE Blank)
    /\ [][/\ \A c \in Copies : adoptedBy[c] # 0 => adoptedBy'[c] = adoptedBy[c]
          /\ \A n \in DOMAIN rows : rows[n].title # Nothing => rows'[n].title = rows[n].title]_vars

\* The script creates a copy twice only if it looked for the copy while its first creation was still
\* on the way to the database (main: the draft's marketRef is what a run skips by).
SeededOnce ==
    \A c \in Copies : Cardinality(OwnCreations(c)) > 1 => c \in blind
=============================================================================
