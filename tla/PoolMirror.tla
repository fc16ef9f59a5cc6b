----------------------------- MODULE PoolMirror -----------------------------
(***************************************************************************)
(* The shielded pool's leaf mirror: src/pool/pool-indexer.service.ts, the  *)
(* trees of src/pool/pool.tree.ts and the read side of                     *)
(* src/pool/pool.service.ts.                                               *)
(*                                                                         *)
(* A tick reads one span of blocks and commits its leaves and its cursor   *)
(* in one transaction.  A tree is the sequence of its leaves; its root     *)
(* stands for that sequence.                                               *)
(***************************************************************************)
EXTENDS Integers, Sequences, FiniteSets, SequencesExt

CONSTANTS
    DepositLeaves,  \* commitments of Deposited
    ChangeLeaves,   \* commitments of Withdrawn
    Other,          \* a log of the pool that is no leaf
    StartBlock,     \* cfg.pool.startBlock, no later than the first deposit
    Confirmations,  \* cfg.chain.confirmations
    BatchBlocks,    \* cfg.chain.batchBlocks
    Bodies,         \* what a block may hold: sequences of the pool's logs
    MaxHead,        \* bound: blocks
    MaxReorgs,      \* bound: reorganisations
    MaxTickFaults       \* bound: failed ticks and restarts

Leaves == DepositLeaves \cup ChangeLeaves

ASSUME PoolAssumption ==
    /\ DepositLeaves \cap ChangeLeaves = {} /\ Other \notin Leaves
    /\ Bodies \subseteq Seq(Leaves \cup {Other})
    /\ StartBlock \in Nat \ {0} /\ Confirmations \in Nat /\ BatchBlocks \in Nat \ {0}
    /\ MaxHead \in Nat /\ MaxReorgs \in Nat /\ MaxTickFaults \in Nat

VARIABLES
    chain,     \* the canonical chain: block n is the sequence of the pool's logs in it
    final,     \* history: the deepest block some head has finalised
    reorgs,    \* bound counter
    tickFaults, \* bound counter
    cursor,    \* indexer_cursor of the stream "pool"; StartBlock - 1 when there is no row
    rows,      \* the pool_leaves rows
    caughtUp,  \* what isSynced answers
    tick,      \* "idle", or "read": getLogs has answered and nothing is written yet
    safe, to,  \* the safe head the tick saw, and the end of its span
    found,     \* the rows the span yields
    answer     \* the GET /pool/state being put together, or the last one

blockVars == <<chain, final, reorgs>>
tickVars == <<tick, safe, to, found>>
mirrorVars == <<blockVars, tickFaults, cursor, rows, caughtUp, tickVars, answer>>

-----------------------------------------------------------------------------
(***************************************************************************)
(* The chain and the pool contract.  (External)                            *)
(***************************************************************************)
Before(x, y) == x.block < y.block \/ (x.block = y.block /\ x.index < y.index)

LogsIn(c, a, b) ==
    UNION {{[leaf |-> c[n][i], block |-> n, index |-> i] : i \in DOMAIN c[n]} : n \in DOMAIN c \cap a..b}

\* A commitment is inserted once, and a withdrawal spends an earlier deposit.
Legal(c) ==
    LET logs == {l \in LogsIn(c, 1, Len(c)) : l.leaf # Other} IN
    /\ \A x, y \in logs : x.leaf = y.leaf => x = y
    /\ \A x \in logs : x.block >= StartBlock
    /\ \A x \in logs : x.leaf \in ChangeLeaves => \E y \in logs : y.leaf \in DepositLeaves /\ Before(y, x)

\* The members of a finite set in the order Precedes, one after the other.
Sorted(set, Precedes(_, _)) ==
    CHOOSE s \in [1..Cardinality(set) -> set] : \A i, j \in DOMAIN s : i < j => Precedes(s[i], s[j])
LeavesOf(s) == [i \in DOMAIN s |-> s[i].leaf]

\* The tree the contract holds: every commitment, in the order of insertion.
TreeOf(c) == LeavesOf(Sorted({l \in LogsIn(c, 1, Len(c)) : l.leaf # Other}, Before))

Finalised(head) == IF head > Confirmations THEN head - Confirmations ELSE 0

-----------------------------------------------------------------------------
(***************************************************************************)
(* The mirror and its trees.                                               *)
(***************************************************************************)
SafeHead(head) == IF head > Confirmations THEN head - Confirmations ELSE 0
SpanEnd(first, head) == IF first + BatchBlocks - 1 < head THEN first + BatchBlocks - 1 ELSE head

\* toLeaf: a row for a deposit or a change note, nothing for any other event.
ToLeaves(logs) == {l \in logs : l.leaf \in Leaves}

\* upsert on (txHash, logIndex).
Upsert(old, new) == {r \in old : \A s \in new : <<s.leaf, s.index>> # <<r.leaf, r.index>>} \cup new

\* The order by log index alone.
ChainOrderIndexOnly(x, y) == x.index < y.index \/ (x.index = y.index /\ x.block < y.block)
\* orderBy blockNumber, then logIndex.
ChainOrder(x, y) == x.block < y.block \/ (x.block = y.block /\ x.index < y.index)

Ordered(rs) == Sorted(rs, ChainOrder)

\* buildStateTree: every commitment.
StateTree(rs) == LeavesOf(Ordered(rs))

\* buildAspTree: the labels of the deposits, in the same order (a deposit stands for its label).
AspTree(rs) == LeavesOf(Ordered({r \in rs : r.leaf \in DepositLeaves}))

-----------------------------------------------------------------------------
NoAnswer == [leaves |-> <<>>, stateRoot |-> <<>>, synced |-> FALSE, stage |-> "none"]

MirrorInit ==
    /\ chain = <<>> /\ final = 0 /\ reorgs = 0 /\ tickFaults = 0
    /\ cursor = StartBlock - 1 /\ rows = {} /\ caughtUp = FALSE
    /\ tick = "idle" /\ safe = 0 /\ to = 0 /\ found = {}
    /\ answer = NoAnswer

Finalise == final' = IF Finalised(Len(chain')) > final THEN Finalised(Len(chain')) ELSE final

NewBlock ==
    /\ Len(chain) < MaxHead
    /\ \E body \in Bodies : chain' = Append(chain, body)
    /\ Legal(chain') /\ Finalise
    /\ UNCHANGED <<reorgs, tickFaults, cursor, rows, caughtUp, tickVars, answer>>

\* Blocks some head has left Confirmations behind are never replaced.
Reorg ==
    /\ reorgs < MaxReorgs
    /\ \E keep \in final..(Len(chain) - 1), body \in Bodies :
          chain' = Append(SubSeq(chain, 1, keep), body)
    /\ Legal(chain') /\ Finalise
    /\ reorgs' = reorgs + 1
    /\ UNCHANGED <<tickFaults, cursor, rows, caughtUp, tickVars, answer>>

\* The early return without setting caughtUp.
TickNothingNewSilent ==
    /\ tick = "idle"
    /\ cursor + 1 > SafeHead(Len(chain))
    /\ UNCHANGED mirrorVars
\* tick(): nothing is newly safe.
TickNothingNew ==
    /\ tick = "idle"
    /\ cursor + 1 > SafeHead(Len(chain))
    /\ caughtUp' = TRUE
    /\ UNCHANGED <<blockVars, tickFaults, cursor, rows, tickVars, answer>>

\* tick(): one span is read.
TickRead ==
    /\ tick = "idle"
    /\ cursor + 1 <= SafeHead(Len(chain))
    /\ safe' = SafeHead(Len(chain))
    /\ to' = SpanEnd(cursor + 1, SafeHead(Len(chain)))
    /\ found' = ToLeaves(LogsIn(chain, cursor + 1, SpanEnd(cursor + 1, SafeHead(Len(chain)))))
    /\ tick' = "read"
    /\ UNCHANGED <<blockVars, tickFaults, cursor, rows, caughtUp, answer>>

\* The transaction: leaves and cursor together.
TickCommit ==
    /\ tick = "read"
    /\ rows' = Upsert(rows, found)
    /\ cursor' = to
    /\ caughtUp' = (caughtUp \/ to >= safe)
    /\ tick' = "idle" /\ safe' = 0 /\ to' = 0 /\ found' = {}
    /\ UNCHANGED <<blockVars, tickFaults, answer>>

\* A failed tick whose cursor was written outside the transaction.
TickFailsAfterCursor ==
    /\ tick = "read" /\ tickFaults < MaxTickFaults
    /\ tickFaults' = tickFaults + 1
    /\ cursor' = to
    /\ tick' = "idle" /\ safe' = 0 /\ to' = 0 /\ found' = {}
    /\ UNCHANGED <<blockVars, rows, caughtUp, answer>>
\* The read or the transaction throws; loop() tries again from the stored cursor.
TickFails ==
    /\ tick = "read" /\ tickFaults < MaxTickFaults
    /\ tickFaults' = tickFaults + 1
    /\ tick' = "idle" /\ safe' = 0 /\ to' = 0 /\ found' = {}
    /\ UNCHANGED <<blockVars, cursor, rows, caughtUp, answer>>

\* The process restarts: the rows and the cursor are kept, the rest is memory.
Restart ==
    /\ tickFaults < MaxTickFaults
    /\ tickFaults' = tickFaults + 1
    /\ caughtUp' = FALSE
    /\ tick' = "idle" /\ safe' = 0 /\ to' = 0 /\ found' = {}
    /\ answer' = NoAnswer
    /\ UNCHANGED <<blockVars, cursor, rows>>

\* state(): the rows are read,
StateReadsRows ==
    /\ answer.stage # "rows"
    /\ answer' = [answer EXCEPT !.leaves = StateTree(rows), !.stage = "rows"]
    /\ UNCHANGED <<blockVars, tickFaults, cursor, rows, caughtUp, tickVars>>

\* The root read once and kept, as SCOPE is.
StateReadsRootsCached ==
    /\ answer.stage = "rows"
    /\ answer' = [answer EXCEPT !.stateRoot = IF @ = <<>> THEN TreeOf(chain) ELSE @,
                                !.synced = caughtUp, !.stage = "sent"]
    /\ UNCHANGED <<blockVars, tickFaults, cursor, rows, caughtUp, tickVars>>
\* then the contract's own root, and isSynced last.
StateReadsRoots ==
    /\ answer.stage = "rows"
    /\ answer' = [answer EXCEPT !.stateRoot = TreeOf(chain), !.synced = caughtUp, !.stage = "sent"]
    /\ UNCHANGED <<blockVars, tickFaults, cursor, rows, caughtUp, tickVars>>

Tick == TickNothingNew \/ TickRead \/ TickCommit
MirrorNext == \/ NewBlock \/ Reorg \/ Tick \/ TickFails \/ Restart
        \/ StateReadsRows \/ StateReadsRoots
MirrorSpec == MirrorInit /\ [][MirrorNext]_mirrorVars

\* loop() reschedules itself after every tick, failed or not.
MirrorFairSpec == MirrorSpec /\ WF_mirrorVars(Tick)

-----------------------------------------------------------------------------
(***************************************************************************)
(* Properties                                                              *)
(***************************************************************************)
RowType == [leaf : Leaves, block : Nat, index : Nat]

\* The types of the chain, the mirror and an answer.
MirrorTypeOK ==
    /\ chain \in Seq(Bodies) /\ final \in Nat /\ reorgs \in 0..MaxReorgs /\ tickFaults \in 0..MaxTickFaults
    /\ cursor \in Nat /\ cursor >= StartBlock - 1
    /\ rows \subseteq RowType /\ found \subseteq RowType
    /\ caughtUp \in BOOLEAN
    /\ tick \in {"idle", "read"} /\ safe \in Nat /\ to \in Nat
    /\ tick = "read" => cursor < to /\ to <= safe
    /\ answer \in [leaves : Seq(Leaves), stateRoot : Seq(Leaves), synced : BOOLEAN,
                  stage : {"none", "rows", "sent"}]

\* "One cursor, written only after the leaves in that span are committed": the mirror is exactly
\* the canonical leaves up to the cursor, through failed ticks, restarts and reorganisations; no
\* leaf is missing and none is a phantom.
MirrorIsExact ==
    /\ cursor > StartBlock - 1 => cursor <= final
    /\ rows = {l \in LogsIn(chain, 1, cursor) : l.leaf # Other}

\* The state tree a reader builds from the rows, and the association tree, only grow at the end.
StateMirror == INSTANCE AppendOnlyTree WITH Leaf <- Leaves, tree <- StateTree(rows)
AspMirror == INSTANCE AppendOnlyTree WITH Leaf <- DepositLeaves, tree <- AspTree(rows)
TreesAppend == StateMirror!Spec /\ AspMirror!Spec

\* The leaves an answer serves are the contract's own tree as of some block: a prefix of the tree
\* whose root is served beside them, although leaves and root are read at different times.
ServedIsPrefix ==
    answer.stage = "sent" => IsPrefix(answer.leaves, answer.stateRoot)

\* Once the chain rests and ticks stop failing, the mirror reaches the safe head.
CatchesUp == <>[](cursor >= SafeHead(Len(chain)) /\ caughtUp)
=============================================================================
