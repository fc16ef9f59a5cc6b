# numera-backend in TLA+

Models, model-checking runs and machine-checked proofs for the Numera backend, a NestJS service
that mirrors a prediction-market engine and a shielded pool from the chain into Postgres, relays
signed calls with one gas-paying key, and settles unchallenged proposals on a timer.

Every definition is read off the code; `PROJECT.json` ("map") names the lines it stands for. The
contracts, the chain, Redis and the mempool are not part of the repository's code and are modelled
only as far as `src/` relies on them; those definitions are marked *(External)* in the modules.

## 1. The system

| Component | Code (`src/src/`) | State | Operations | Talks to |
|---|---|---|---|---|
| Market indexer | `chain/indexer.service.ts` | cursor row `main`; the running tick | tick: safe head, plan, concurrent `getLogs`, apply, save cursor; loop | chain (RPC), event processor, Postgres |
| Event processor | `chain/event-processor.service.ts` | markets, outcomes, trades, positions, resolution rows, bans | one handler per event, `processBatch`, `refreshPrices` | Postgres, Redis (publish, invalidate), chain (prices) |
| Positions | `positions/positions.service.ts` | none | portfolio, `markToMarket` | Postgres |
| Shielded pool mirror | `pool/pool-indexer.service.ts` | `pool_leaves`, cursor row `pool`, `caughtUp` | tick in one transaction, `isSynced` | chain, Postgres |
| Pool trees | `pool/pool.tree.ts` | none | state tree, association tree, `aspRootHistory` | |
| Pool service | `pool/pool.service.ts` | the lock (a promise chain) | `state`, `withdraw`, `publishAspRoot`, `shield` | Postgres, entrypoint contract, relay |
| Gas relay | `relay/relay.service.ts` | the queue (a promise chain), Redis counters, boot-time wiring, balance cache | `submit`, `submitResolution`, `submitPermit`, `sendFromRelayer`, `receiptFor` | chain, Redis |
| Settlement keeper | `relay/settlement.service.ts` | `nextAttempt` and `attempts` maps | timed pass, `finalize`, `backOff` | Postgres, relay |
| Authentication | `auth/`, `users/` | nonces (Redis), users, refresh sessions | nonce, verify, refresh, logout | Redis, Postgres |
| Unlink identity | `unlink/` | `users.unlink_address` | bind, owns, token | Postgres, the Unlink engine |
| Admin access | `admin/admin-access.service.ts`, guards | role cache (Redis) | `hasRole`, `rolesOf` | chain, Redis |
| Admin drafts | `admin/admin.service.ts`, `metadata-hash.ts` | metadata drafts, categories | create, attach | Postgres, event processor |
| Markets and Redis | `markets/`, `redis/` | read cache | cache-aside reads, invalidation | Redis, Postgres |
| Realtime | `realtime/realtime.gateway.ts` | rooms | subscribe, fan-out | Redis pub/sub |
| Scripts that create markets | `scripts/seed-testnet-markets.ts`, `scripts/create-short-market.ts` (beside `src/`) | none of their own | draft, create, skip | Postgres, chain |
| Prices, trades, health, config, HTTP surface | the rest | price points | reads, parsing, probes | Postgres |
| Operator scripts, deployment | `scripts/`, `docker/`, `prisma/migrations` | none | one-off commands, end-to-end tests | chain |

How they interact: the chain's logs reach Postgres only through the two indexers. The API reads
Postgres and pushes what the event processor publishes on Redis. Writes to the chain all leave
through the relay's queue: users' signed calls, the keeper's `finalize`, the pool's `updateRoot`
and withdrawals. The keeper reads rows the market indexer writes; the pool service reads rows the
pool mirror writes. A draft that an operator or a script wrote is adopted by the handler of the
market's creation, and a cached view or role is dropped or runs out while the rows and the chain
behind it move on.

What is hard about it, and what makes each part correct:

* **Market indexer and processor.** A tick spans many awaits (RPC, database, Redis), any of which
  may fail, and the process may die at each. Handlers write several rows without a transaction.
  Correct: the cursor never passes a log that is not fully applied; logs are applied in chain
  order across concurrent fetches and several contracts; nothing comes from a block that is
  reorganised away; a log finds its market; prices end up following trades; counters count once
  (they do not, after a replay).
* **Ledger handlers.** Buys, sells, shorts (which fan out over all other outcomes), settlement and
  redemptions in any order, with integer division. Correct: shares and collateral agree with the
  engine, and an account's rows account for its cash to the unit.
* **Resolution handlers.** Attempts can be abandoned, disputed, reset and ruled on; the ruling and
  the slash are two logs in either order; a failed tick replays some of them. Correct: the row is
  that of the current attempt.
* **Pool.** An append-only tree must never lose, gain or move a leaf; a withdrawal is two dependent
  transactions; clients choose the root. Correct: the mirror is exact and only appends, served
  leaves and root fit, a relayed proof lands, only our own roots are published, nobody waits for
  ever.
* **Relay.** Concurrent requests on one nonce, failures between the broadcast and its accounting,
  counters with a time to live set in a second call. Correct: no nonce race, every charge accounted
  for, a replay costs nothing unless it raced, counters end, failures do not stop the queue.
* **Keeper.** Timers against a chain and an indexer at their own pace. Correct: attempts are
  spaced, everything that can settle does, failing ones are retried ever more rarely.
* **Relay boot.** The sending wallet exists before its forwarder has been verified, and every read of
  the check may fail. Correct: the service starts with exactly the relays that were confirmed, and
  operators who ask for the balance share one recent read.
* **Authentication and identity.** Each request is a chain of awaited Redis and Postgres calls, and
  none is in a transaction. Correct: a nonce signs in once; a sign-in has one live session; a chain
  that was ended stays ended; one Unlink address is read by one user. Each holds up to a race that
  the model names, and for nothing else.
* **Caches and realtime.** A cache is filled from a read that an invalidation overtakes; messages
  are delivered at most once. Correct: a stale view is the work of a race and ends with its time to
  live; a client that joins a room and then reads misses no change of status.
* **Admin.** A role is read from several contracts, failed reads included, and cached; a draft is
  adopted between two writes of a handler that may start over; a script may be stopped and run
  again. Correct: a cached role is wrong for a bounded time, every indexed market shows the copy it
  committed to, and the script creates a copy once.

`PROJECT.json` lists each hazard at its line with the properties aimed at it.

## 2. The modules

| Module | Models | Checked through | Proved in |
|---|---|---|---|
| `MarketIndexer` | the indexer loop and the write discipline of the handlers | `MCMarketIndexer` | `MarketIndexer_proofs` |
| `TradeLedger` | one market's trade, settlement and redemption handlers beside the engine | `MCTradeLedger` | `EventProcessor_proofs` |
| `ResolutionMirror` | one market's resolution row beside the resolver | `MCResolutionMirror` | `EventProcessor_proofs` |
| `Settlement` | the settlement keeper | `MCSettlement` | `Relay_proofs` |
| `AppendOnlyTree` | abstract: what a mirrored Merkle tree promises | through `PoolMirror` | `Pool_proofs` |
| `PoolMirror` | the leaf indexer, the two trees, `GET /pool/state` | `MCPoolMirror` | `Pool_proofs` |
| `PoolWithdraw` | withdrawals: publish the root, then relay the proof, under a lock | `MCPoolWithdraw` | `Pool_proofs` |
| `RelayQueue` | the relay's sending paths, queue, nonce and counters | `MCRelayQueue` | `Relay_proofs` |
| `RelayBoot` | the relay's wiring checks at start, and the shared balance read | `MCRelayBoot` | `Relay_proofs` |
| `Accounts` | nonces, sign-in, refresh sessions, Unlink bindings | `MCAccounts` | `Accounts_proofs` |
| `ReadCache` | the cache-aside read over Redis | through the next two | with them |
| `MarketFeed` | cached market views, handlers, rooms | `MCMarketFeed` | `MarketFeed_proofs` |
| `AdminDesk` | cached roles, drafts, their adoption, the scripts | `MCAdminDesk` | `AdminDesk_proofs` |
| `SumLemmas` | nothing: lemmas about finite sums | by the proofs that cite them | itself |

`MarketFeed` and `AdminDesk` extend `ReadCache` and own the sources it caches; `PoolMirror`
instantiates `AppendOnlyTree` twice. A proof module reads the modules of one subsystem together;
each of its theorems is about the specification of one of them.

The split follows what is awaited together. `MarketIndexer` knows in which order and how often a
log's writes land, and nothing of what they store; `TradeLedger` and `ResolutionMirror` know what
they store, given the delivery that `MarketIndexer` is shown to have (in order; again from the
cursor after a failure). `Settlement` and `PoolWithdraw` use the relay as one step that simulates
and broadcasts, in nonce order, which `RelayQueue` shows; `PoolWithdraw` counts deposits, because
`PoolMirror` shows that the same number of leaves is always the same tree. `MarketFeed` and
`AdminDesk` take the logs final and in order, and keep of the indexer that a failed tick starts
over.

### MarketIndexer

A block is a sequence of events; a reorganisation replaces blocks that no head has left
`Confirmations` behind. One tick is: `StartTick` (read head and cursor, plan ranges), one
`FetchRange` per concurrent `getLogs` in any order, one `WriteNext` per awaited database write of
each handler, `BatchApplied`, one `RefreshPrice` or `RefreshFails` per touched market, and
`SaveCursor`. `AbortTick` is an exception or the death of the process at any await in between: the
tick's memory is gone, what landed stays. The database is the set of writes that have landed;
`doubled` holds the increments that landed more than once. `Writes(kind)` is the order of the
awaited writes of each handler; a handler that starts with `marketRef()` is dropped when the
market row does not exist (`DropUnknown`).

### TradeLedger

Each action is one engine transaction and the handler of its log: `CreateMarket`, `OnBought`,
`OnSold`, `OnShorted`, `OnResolved`, `OnInvalidated`, `OnRedeemed`, `OnSeedRedeemed`. The engine's
prices are not modelled: a trade costs any amount that leaves the engine able to pay every outcome
(`Solvent`), which is all the handlers rely on. A redemption closes every row of the account
(`CloseRow`). `cash` is a history of what each account has paid
and received. `updatePosition` is `BuyRow` and `SellRow` with the code's integer divisions.

### ResolutionMirror

The resolver proposes, is disputed, finalises, is arbitrated or unwinds, and appends to `log`. The
handler of a log is one step per await: `WriteRow`, and then, for the logs that are announced,
`DropViews`, `ReadBack` and `Publish`, which pushes the phase that was read back. A market that is
not `listed` (its creation lies before the indexer's first block) has its row written and nothing
announced, which is the early return of `announceResolution`. The indexer commits its cursor now
and then (`Commit`) and may start over from it (`Replay`): an await that throws, the publication
among them, or a crash, at any of the steps. Each handler is a function from the row and the log to
the row. `settledAt` is kept as whether it is set, `forfeited` as whether it is positive; `written`
is a history of the last log whose handler has written the row.

### Settlement

Time is in minutes; `wait[p]` is what is left until `nextAttempt`. A pass is `StartPass` (query
and skip what is in backoff), one of `SendRefused`, `SendThrows`, `Send` per proposal of the batch,
the receipt (`ReceiptSuccess`, `ReceiptReverted`, `ReceiptTimeout`) and `EndPass`. The chain
(`Dispute`, `OthersFinalize`, `MineFinalize`), the indexer (`Index`) and the clock move at any time.

### PoolMirror, AppendOnlyTree

A tick reads one span (`TickRead`) and writes leaves and cursor in one transaction (`TickCommit`)
or fails; `Restart` forgets `caughtUp`. `GET /pool/state` reads the rows (`StateReadsRows`), then
the contract's root and `isSynced` (`StateReadsRoots`). A tree is the sequence of its leaves and a
root stands for that sequence, so "the roots agree" is "the sequences agree". `AppendOnlyTree` is
the abstract promise; `StateTree(rows)` and `AspTree(rows)` are the refinement mappings. These and
the contract's own tree, `TreeOf(chain)`, are leaves in the order of their places in the chain
(`Sorted`); the mirror's are those of its rows, and the ASP tree keeps the deposits alone.

### PoolWithdraw

Root *k* is the root over the first *k* labels. `Accept` checks the client's root against the
recent history and joins the lock; the head of the lock reads the entrypoint (`Publish`), sends
`updateRoot` (`SendRoot`), awaits its receipt (`Published`, `PublishReverted`, `PublishTimesOut`)
and sends the proof (`RelayProof`); `SendRefused` is any failure before a broadcast. The chain
executes pending calls first in, first out, or never. `PublishTimesOut` is `receiptFor` answering
null: after sixty seconds, or because it cannot ask, any number of times; `gaveUp` is a history flag
that says whether an update was still pending when that happened.

### RelayQueue

A submission goes through `Count` and `Expire` (the rate: `INCR`, then `EXPIRE` for the first),
`Cap`, `Verify` (for what the forwarder verifies), joins the queue (`Enqueue`), and as its head
goes through `Simulate`, `ReadNonce`, `Broadcast` and `Record`. The four failures are a call that
throws (`Fails`), an answer that is lost after the node took the transaction (`AnswerLost`), a
charge that is counted but not confirmed (`RecordUnanswered`), and an `EXPIRE` that is lost
(`ExpireLost`). A transaction costs one unit.

### RelayBoot

`Init` is the service after `onModuleInit` has set the wallet, for every wiring of the two
forwarders. `Confirm`, `Refuse` and `Ready` are the answers to the read the check is at,
`ReadFails` one that throws: the whole check starts over after a delay, or is given up. A poll of
the gauge finds a fresh balance (`PollFresh`), joins the read under way (`PollJoins`) or begins one
(`PollReads`), which ends in `BalanceAnswered` or `BalanceFails`. The value of a read is taken when
the read begins. Polls begin when both checks are over, because the service listens only after
every init hook has returned.

### Accounts

A request is where it is in its chain of calls. Signing in is `VerifyReadsNonce`, `VerifyConsumes`,
the look-up of the user, its update or creation, and the new session; a refresh reads the session,
revokes it and creates its successor, or, for a session that was revoked already, sweeps all of the
user's; a bind reads the row and writes it, and a token is issued after `owns` has read it.
`LogsOut` is one conditional update. `RequestFails` gives a request up at any of them. What the
interleaving spoils is kept in two history flags: `raced` on a rotation that had read its session
before somebody else ended it, and `rebound` for a wallet whose binding was replaced.

### ReadCache, MarketFeed

`Misses`, `Stores`, `ReadFails` and `Drop` are the four things that happen to a key, `Tick` is the
clock that entries run out by. A reader holds a value between its read and its store, and `raced`
says that the key was deleted meanwhile because the value is out of date.

In `MarketFeed` the rows of a market are their version. A handler writes, then drops both views (a
status change, a redemption), or publishes, writes the prices it could read and drops the detail (a
trade), and publishes a status only when its deletions have landed. `TickAborts` leaves a handler to
be run again. Clients join and leave, are served from the cache (`Hits`) or the rows (`FindsNone`,
`ReadsRows`, `Answers`), and are relayed what the bus carries; `SubscriptionLost` loses what is on
it.

### AdminDesk

`AskRole`, `AskContract`, `ContractSilent` and `RoleAnswered` are the loop of `hasRole`. A text
stands for its `metadataHash`, which is all the engine checks: `Copies` are the texts in canonical
encoding, each with the copy it encodes, and `Foreign` are the others, for which `parseCanonical`
answers null (`Published`). The handlers of `MarketCreated` and `MarketMetadataPublished` are
`FindDraft`, `UpsertMarket`, `AdoptDraft`, and then `WriteCopy` and `WriteLabels`, or `RefuseText`,
one awaited call each, then `SaveCursor`; `TickAborts` starts over from the cursor. The labels of a
row are those of the outcomes its market has, so that cutting a longer list changes nothing. The
seeding script goes through its list (`SkipSeed`, `DraftSeed`, `SendCreation`, `CreationSeen`) and
may be stopped anywhere (`ScriptStops`) and run again; its creation is mined when the chain likes
(`CreationMined`). `OperatorCreates`, of any text, and `DraftShortMarket` are everybody else.

## 3. The runs

| Run | Expect | What it shows | Bounds |
|---|---|---|---|
| `Indexer` | pass | cursor soundness, prefix order, canonicity, no dropped event, prices follow, catching up | 5 blocks read from block 2, 2 ranges of 1 block a tick, 1 confirmation, 1 reorg, 2 faults |
| `IndexerReplay` | violation of `NeverDoubled` | a replayed log counts twice | 4 blocks, 1 market, 2 faults |
| `LedgerTrading` | pass | shares, pot and basis | 2 accounts (symmetric), 3 outcomes, 3 trades of 1 or 2 shares at 1 or 3 units |
| `ResolutionRow` | pass | the row is the current attempt; subscribers know the stored phase | 2 parties, 2 claims, 6 logs, 2 replays |
| `SettlementKeeper` | pass | attempts are spaced; everything settles | 3 proposals of which the oldest is stuck, batch of 2, 1 fault |
| `PoolMirror` | pass | the mirror is exact; both trees refine `AppendOnlyTree`; answers fit; catching up | 4 blocks, spans of 2, 1 reorg, 1 fault |
| `PoolWithdraw` | pass | a withdrawal's two transactions are atomic, own roots only, everybody answered | 3 withdrawals, 3 deposits, history of 2, any update given up on or never mined, 1 refusal |
| `RelayQueue` | pass | no nonce race, charges accounted, replays raced, counters end, the queue answers | 4 submissions (2 copies of a trade, a platform call, a permit), limit 1, cap 2, 2 days, 1 fault |
| `RelayBoot` | pass | which relays the service starts with; one recent balance read; the checks end | 2 selectors, 1 retry, 3 failed reads, 2 pollers, freshness of 2 ticks, reads of at most 1 |
| `Accounts` | pass | what sign-in, rotation, logout and binding guarantee, and which races they leave | 2 requests at a time and 6 in all, 2 wallets, 2 addresses, 2 nonces, 3 sessions, 1 expiry (symmetric) |
| `MarketFeed` | pass | stale views are raced and bounded; no status is missed | a client and another reader, 2 logs, 1 fault, detail 1 tick and list 2 |
| `AdminDesk` | pass | cached roles are recent; copies are served; the script seeds once | 1 role read at a time over 2 contracts, 1 role change, 2 copies and a text that encodes none, 2 markets, 1 fault, any number of script runs |

Why the bounds are enough. The indexer's chain is long enough for a tick of two ranges, a second
tick from a cursor that has moved, and a reorganisation that replaces a block a tick has already
seen the head of; starting at block 2 makes an event of an unindexed market possible. Three
outcomes are the least for which a short has two legs and a remainder; amounts 1 and 3 do not
divide evenly. Six logs are two unwound attempts and a third with its ruling and slash. Two
proposals a pass with one stuck leave room for one that must not starve; the backoff saturates at
the second failure. Three withdrawals are one more than the number that interleave in the lock's
comment, so that a third may find the chain after a timed-out update; a history of two makes one
root too old. Three failed reads are one more than either check retries, so that both the retry and
giving up happen, and one check may use up its retries while the other fails; two selectors make
one that is allowed and one that is not; a read that takes a tick can see a balance that changes
before it ends. Two requests are the least that race, three sessions are a chain of three or a
chain and a fork of it, and a second wallet makes an address two users want; the third race of a
kind differs from the second only in its names. Two logs are a status change and another write
around it, a detail that dies before the list tells the two apart, and two readers are one whose
read is overtaken and one it deceives. Two markets of one copy are the duplicate that `SeededOnce`
is about, and two of different copies the draft that must not go to the wrong one. One fault is one
failure at each possible await, and two are a failure during the recovery from another. In
`MarketFeed` and `AdminDesk` a read ends within the tick it began in (`MaxLag` is 0); the theorems
of section 5 are for any.

Deadlock is checked in `RelayBoot`, where time always passes. Elsewhere it is not: those models end
when their bounded chain, logs, submissions or requests are used up, where the service waits for
more. Progress is stated as liveness instead.

### Properties

* Indexer: `CursorSound`, `PrefixApplied`, `AppliedCanonical`, `NothingDropped`,
  `PricesFollowTrades`: together, what the doc comments of `indexer.service.ts` promise except
  idempotence. `CatchesUp`, also for the pool mirror.
* Ledger: `HoldingsMirrored`, `PotIsCollateral`, `BasisAccountsForCash`.
* Resolution: `RowIsCurrent`, `AnnouncedIsStored`.
* Keeper: `AttemptsSpaced` (action property), `EventuallySettled`.
* Pool mirror: `MirrorIsExact`, `ServedIsPrefix`, `TreesAppend` (refinement of `AppendOnlyTree` by
  the state tree and by the association tree).
* Withdrawals: `PairIsAtomic` (as long as no update was given up on), `OnlyOwnRoots`,
  `EveryoneAnswered`.
* Relay: `NoNonceRace`, `ChargesAccounted`, `ReplaysRaced`, `WindowsEnd`, `QueueAnswers`.
* Relay boot: `BootDecides`, `GaugeIsCheapAndRecent` (action property),
  `BootEndsAndPollsAreAnswered`.
* Accounts: `NonceSpentOnce` and `RebindsOnlyRaced` (action properties), `OneHeir`,
  `EndedStaysEnded`, `OneReaderPerAddress`.
* Market feed: `StaleOnlyIfOvertaken`, `StaleForAtMost`, `NoStatusMissed`.
* Admin desk: `RoleStaleForAtMost`, `SeededOnce`, `CopyIsServed` (action property).

Each has a mutation of the modelled code, kept beside the definition it mutates, under which it is
violated. Every module states a `TypeOK`; the indexer's is also a property of its run, the others
are kept as the statement of the state's types.

## 4. Fairness

* Indexers: weak fairness of a tick's own steps. `loop()` reschedules itself after every tick,
  failed or not, and every await returns or throws. Faults, blocks and reorganisations are bounded
  and have no fairness: liveness says what happens once they stop.
* Keeper: weak fairness of the keeper's steps (the timer reschedules after every pass), of the
  clock, of mining and of indexing (which the indexer's own liveness supports). None for disputes
  or for others finalising.
* Pool and relay: weak fairness of the service's steps (the event loop runs whatever has been
  answered), and in the pool of the receipt's timeout of sixty seconds (`PublishTimesOut`). None for
  mining: an update may stay pending for good, and it is the timeout that passes the lock on, as the
  mutant `WaitsForReceipt` shows. None for clients, and none for failures.
* Relay boot: weak fairness of each check and of the balance read: the node answers or its
  transport gives up, and the delay between two attempts is a timer. None for failures, balances or
  polls.
* Accounts, the feed and the desk state safety only: their requests may be given up at any call.

## 5. What is proved

With TLAPS, for all values of the constants that satisfy the named assumptions of the modules. Most
are naturals for the bounds and positive widths, limits and lifetimes. The others: blocks are
sequences of events; `Void` is no answer, `Null` no row and no balance, `SqlNull` no row and no
status, `None` no address; each submission has an account; accounts are finitely many, outcomes two
or more, and a seed costs no less than the shares it buys; `Foreign` texts are no
copies and `Nothing` is none; the first backoff is no shorter than the
cooldown; the feed has the keys it caches, and its clients are readers; one role
is checked, the seeding script's list is not empty and the contracts are a sequence. `MaxLag`, the
longest a read takes, is an assumption about the node or the database, and so are the bounds in
`StaleForAtMost`, `RoleStaleForAtMost` and `GaugeIsCheapAndRecent` that contain it.

`MarketIndexer_proofs`. The properties of the indexer are not inductive: that the cursor is sound
after `SaveCursor` depends on what the batch still to be applied holds, and that on what the
fetches returned from a chain that was changing meanwhile. `IInv` is `TypeOK` and what ties them
together: `SpanInv` (the span of a running tick is final), `CoverInv` (each log of the span is still
to be fetched, in the batch, or handled), `BatchInv` (the batch holds logs of the span, and of its
first one the writes up to `step` have landed), `CursorInv` (what is at or below the cursor is
handled), `AppliedInv` (what is applied is a final prefix, each with its market's row) and
`PriceInv` (a market with stale prices has an applied trade ahead of the cursor whose refresh is
still to come, or an unread price). The proof has one lemma per action
(`StartTickInv` .. `AbortTickInv`), one for whatever the chain does (`ChainInv`, through
`StableLogs`: the logs up to the final block do not change), and lemmas on the plan (`PlanCovers`)
and the order (`OrderAgrees`). From `Invariance` follow `TypeCorrect`, `CursorIsSound`,
`AppliedIsPrefix`, `AppliedIsCanonical`, `EventsFindTheirMarket`, `PricesAreFollowed`, and the
action property `CursorNeverRetreats`. So all of the run's safety properties hold for any chain
length, any confirmation depth, any number of ranges, reorganisations and failures.

`EventProcessor_proofs`, the resolution row. `TypeOK` carries that a live proposal and dispute have
real parties and claims, without which a settlement could store an ill-typed outcome; `TypeCorrect`
proves it for any set of parties and answers and any number of logs and replays.
`SubscribersAreCurrent` proves `AnnouncedIsStored` from `AnnounceInv`: subscribers hold another
phase than the row only while a log that has written the row and is announced is still to be
handled, for the first time or again (`Told`), a handler publishes the phase the row has (no other
handler runs between its read and its publication), and the one handler that announces nothing
leaves the phase alone (`QuietPhase`). `RowsAreCurrent` proves `RowIsCurrent`, which compares the
row to the resolver after every log and every replay. The argument goes column by column: a handler
either writes a column whatever the row was, or keeps it (`Stores`, `Keeps`), and the last log that
writes a column writes what the resolver holds for it now (`ColumnCurrent`). A replay writes the
column again, ends with that same log, and so ends where it was; no induction over the log is
needed.

`EventProcessor_proofs`, the ledger. `LedgerInv` is the three properties of the run with the types,
what each stage of the market's life says of its rows (`Stages`: nothing exists before the market;
the engine is solvent while it trades), and that the rows closed are those of the accounts that
redeemed (`ClaimedRows`). The three trades are instances of one lemma, `TradeKeeps`: shares, stock,
pot, collateral, cash and what the rows have booked move by the same amounts. What makes them
instances is arithmetic: the basis a sell removes is a natural, no more than what is there, and all
of it with the last share (`Proportion`, `SellRowKeeps`); the legs of a short share its cost to the
unit (`LegsShareCost`). After resolution the liability is what is unpaid (`ResolvedLiability`) and
falls with every redemption by the payout. `LedgerMirrorsHoldings`, `PotTracksCollateral`,
`RowsAccountForCash` and `LedgerTypes`, for any number of accounts, outcomes and trades, any seed,
prices and sizes.

`SumLemmas`. The sums over submissions, days, accounts and outcomes are folds of the library. That a
fold over a finite set has the value its recursion says, does not depend on the order, and follows a
change of one term (`SumIs`, `SumSplit`, `SumUpdate`, `SumPlus`, `SumConstant`) is proved from a
smallest counterexample: finite sets are well-founded under inclusion (`SmallestSubset`), which needs
no induction theorem with an operator parameter.

`Relay_proofs`, the queue. `SendInv` says what the promise chain keeps apart: only its head is being
sent (`HeadOnly`), so the nonce it has read is still the next one (`NonceCurrent`); and a request
whose simulation saw no copy pending meets none (`SendsFresh`, `PendingFresh`). From it
`NoncesDoNotRace` and `ReplaysHaveRaced`. `ChargesAreAccounted` adds the charges of all days
(`ChargeInv`): what is broadcast and not yet recorded is the head of the chain, if it is any
(`HandHolds`), so each step changes at most one term on each side. `CountersEnd` proves `WindowsEnd`,
which with the types is inductive (`WindowInv`).

`Relay_proofs`, the boot. `BootInv` says what each check has established by the read it is at
(`DuringTrading`, `AfterTrading`, `DuringResolution`, `AfterResolution`), which is what
`BootDecides` says when it is over; `GaugeInv` says how old the value in flight and the cached one
may be. `BootDecided` and `GaugeKeepsItsPromise`.

`Relay_proofs`, the keeper. `AttemptsSpaced` follows from `Spacing`: what a proposal has waited and
what it has still to wait are the cooldown at least, whatever is in the batch has nothing left to
wait, the proposal whose receipt is awaited is neither in the batch nor stuck, and a stuck one has
every failure counted. It holds because no delay is shorter than the cooldown (`Delays`; the
constants of `settlement.service.ts` are equal, and `SettlementAssumption` asks for no more than that
order) and because the delay saturates (`SaturatedExists`), which needs that a power of two exceeds
its exponent (`PowersOfTwo`, by counting the intervals among the subsets). `KeeperSpacesAttempts`,
`KeeperTypes`.

`Pool_proofs`, the withdrawals. `PairInv` is the lock's discipline: only the head of the lock is
served (`HeadOnly`), what is published and proved is the root of indexed deposits (`OwnRoots`), and,
as long as no update was given up on, what is pending will succeed (`PendingSucceeds`) and whoever is
past the entrypoint's read knows its root (`HeadKnows`). `PairsAreAtomic` and `OnlyOwnRootsPublished`
follow, for any number of withdrawals and any depth of the history.

`Pool_proofs`, the mirror. `MirrorInv`: blocks that some head has finalised are never replaced and
the cursor does not pass them (`ChainInv`), a span that is read and not written yet still is what the
chain holds (`SpanInv`), and the rows are the leaves up to the cursor. `PoolMirrorIsExact` follows.
The trees are the one ascending enumeration of a finite set of rows in distinct places (`Ascending`;
a smallest set without one, or with two, would be a contradiction); the rows up to a block enumerate
to a beginning of the rows up to a later one. That gives the refinement, `TreesOnlyAppend`: the
rows' trees start empty and every step appends, which is `AppendOnlyTree` under both mappings.
`AnswersArePrefixes` adds `AnswerInv`: the leaves of an answer were read before its root, but from a
past that no reorganisation replaces.

`Accounts_proofs`. Three inductive invariants over one type. `NonceInv`: what a wallet's key holds
was issued to it and is not spent. `BindInv`: an address is bound to one user, and whoever got a
token for it is bound to it, unless the binding was replaced. `ChainInv` is the hard one: the
sessions of a sign-in form a chain by `from` (`ChainRows`), a rotation under way holds the end of
one (`Rotations`, `OneRotation`) unless it is marked as overtaken, so that nothing forks (`Linear`),
and what was ended has no successor ahead (`EndsHold`). `NoncesSignInOnce`, `ChainsHaveOneHeir`,
`EndedChainsStayEnded`, `ReplacedByRacesOnly`, `AddressesHaveOneReader`.

`MarketFeed_proofs`. A property of an entry becomes inductive with the same said of the reads that
will store one: `FeedInv` is `FillAge` and `CacheAge` (a value that is out of date is at most so
old), `FillSwept` and `CacheSwept` (older than the last deletion only if raced).
`StaleMeansOvertaken` and `StalenessIsBounded`. `MissInv` adds what is on its way to a client: unless
the last status is being handled or is the last message on the bus, whoever has read after joining
knows it (`SyncedKnow`), and whoever is reading knows it or has read it (`CountsKnow`).
`StatusesReachClients` proves `NoStatusMissed`.

`AdminDesk_proofs`. `RoleInv` does the same for roles, with `FillTrue` for a read that has asked
some of the contracts. `DeskInv` relates rows and handler: rows at or before the cursor are done,
and of the one being handled the steps behind it are (`RowsTrue`, `RowsDone`, `DraftKnown`), where
done is what `Published` makes of the market's text, a blank row for one that encodes no copy.
`SeedInv` follows the script: what it sends it has drafted (`DraftedFirst`), a handled creation of
its own owns its draft (`Owned`), and before it is handled there is one (`Once`). `RolesAreRecent`,
`CopiesAreServed`, `CopiesAreSeededOnce`.

## 6. What is only model-checked

Liveness under fairness: `CatchesUp` of both indexers, `EventuallySettled`, `EveryoneAnswered`,
`QueueAnswers` and `BootEndsAndPollsAreAnswered`. They need `ENABLED`, which is out of the prover's
reach. Every invariant, action property and refinement that a passing run checks is also a theorem of
section 5. `IndexerReplay` is a counterexample and stays with TLC by its nature.

## 7. What the code and its documents disagree on

One has a run:

* `IndexerReplay`: `README.md` and `indexer.service.ts` say a re-scan never duplicates; the counters
  are incremented again for every log of a tick that failed after writing them.

The others were met while the handlers were translated; the models have the code's behaviour and
the properties stop short of the document's claim.

* `prisma/schema.prisma:154` says `pot` is the collateral the market holds; `onInvalidated` leaves
  the surplus the engine sweeps in it. `PotIsCollateral` leaves it in as well.
* `prisma/schema.prisma:339` says a voided market has `settledAt` set; a void ruling against a
  bond-free proposal slashes nobody and leaves it null.
* `relay/settlement.service.ts:186` says a proposal that can never settle is retried at growing
  intervals; one whose `finalize` only reverts when it is mined starts its backoff afresh every
  time, because the accepted send has cleared the count.
* `pool/pool.service.ts:91` says the publish-and-relay pair is atomic; it is not once an update is
  given up on after sixty seconds and mined later. `PairIsAtomic` has this as its condition.
* `scripts/seed-testnet-markets.ts:26` says a run after a failure resumes rather than duplicating;
  a copy whose creation is on its way to the database is created again. `SeededOnce` has this as its
  condition.
* `chain/event-processor.service.ts:268` says a market created by somebody who never touched the
  admin API gets its copy anyway, and line 270 that a metadata string which is dropped cannot exist,
  since the engine checks its hash. The engine checks the hash of the text and `parseCanonical` that
  of its own encoding of what it has parsed, so a text in any other encoding is dropped and its
  market keeps a blank row. `CopyIsServed` says so.
* `relay/settlement.service.ts:94` says the relay's boot check comes before the keeper's start. The
  init hooks of one module run at once, and the wallet is set before the check, so that a pass may
  begin during it; the keeper does not send through a forwarder, so nothing depends on it.
* `scripts/create-short-market.ts:51` declares `createMarket` without the start time and the
  metadata that `seed-testnet-markets.ts:64` gives it.

## 8. What could follow

The steps between the models that are argued in section 2 and not checked: that `MarketIndexer`
delivers to a handler what `TradeLedger` and `ResolutionMirror` assume, and that `RelayQueue`
implements the one step that `Settlement` and `PoolWithdraw` take a send for. Larger instances of
`Accounts` and `AdminDesk` are beyond a few minutes of TLC and are covered by their theorems instead.

## 9. Not modelled

Signatures, JWTs, hashing, encodings, serialisation and validation of requests (pure functions over
data the properties do not look into); the price series, their aggregates and the trade queries
(reads, and one upsert per trade whose replay adds volume as the ledger's counters do); the ban
handlers beyond the writes they make; profile fields of users; categories, the operations queue and
the treasury of the admin desk (single reads and one upsert); `shield` (one relayed call without
state); configuration parsing, health probes, controllers, serializers and filters (no state of
their own); operator and end-to-end scripts (`claim-e2e.mjs`, `pool-integration.mjs`, `grant-role.ts`
and the like, which drive contracts and services outside the repository), containers and migrations.
Several instances of the backend on one key are excluded by the code's own comment on the queue and
are not modelled either.
