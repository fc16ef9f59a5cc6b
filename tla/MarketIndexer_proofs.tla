------------------------ MODULE MarketIndexer_proofs ------------------------
(***************************************************************************)
(* What the market indexer guarantees for every chain, start block,        *)
(* confirmation depth, batch width, number of streams and pattern of       *)
(* failures: proofs of the invariants that the runs of MCMarketIndexer     *)
(* check on small chains.                                                  *)
(***************************************************************************)
EXTENDS MarketIndexer, TLAPS, SequenceTheorems

(***************************************************************************)
(* Logs and ranges                                                         *)
(***************************************************************************)

\* A log is on a chain: the event at its place is its event.
IsLog(c, l) ==
    /\ l \in LogRecord
    /\ l.block \in 1..Len(c)
    /\ l.index \in 1..Len(c[l.block])
    /\ l.ev = c[l.block][l.index]

\* getLogs over a span returns exactly the chain's logs in those blocks.
LEMMA LogsMember ==
    ASSUME NEW c \in Seq(Seq(Events)), NEW a \in Int, NEW b \in Int, NEW l
    PROVE  l \in Logs(c, a, b) <=> IsLog(c, l) /\ a <= l.block /\ l.block <= b
<1>1. ASSUME l \in Logs(c, a, b) PROVE IsLog(c, l) /\ a <= l.block /\ l.block <= b
  <2>1. PICK n \in DOMAIN c \cap a..b : l \in {[block |-> n, index |-> i, ev |-> c[n][i]] : i \in DOMAIN c[n]}
    BY <1>1 DEF Logs
  <2>2. PICK i \in DOMAIN c[n] : l = [block |-> n, index |-> i, ev |-> c[n][i]]
    BY <2>1
  <2>3. n \in 1..Len(c) /\ n \in Int /\ a <= n /\ n <= b /\ c[n] \in Seq(Events)
    BY <2>1
  <2>4. i \in 1..Len(c[n]) /\ c[n][i] \in Events
    BY <2>2, <2>3
  <2> QED BY <2>2, <2>3, <2>4 DEF IsLog, LogRecord
<1>2. ASSUME IsLog(c, l), a <= l.block, l.block <= b PROVE l \in Logs(c, a, b)
  <2>1. l = [block |-> l.block, index |-> l.index, ev |-> c[l.block][l.index]]
    BY <1>2 DEF IsLog, LogRecord
  <2>2. l.block \in DOMAIN c \cap a..b
    BY <1>2 DEF IsLog
  <2>3. c[l.block] \in Seq(Events) /\ l.index \in DOMAIN c[l.block]
    BY <1>2, <2>2 DEF IsLog
  <2> QED BY <2>1, <2>2, <2>3 DEF Logs
<1> QED BY <1>1, <1>2

\* The code's comparator agrees with the order in which the chain emitted the logs.
LEMMA OrderAgrees ==
    ASSUME NEW x \in LogRecord, NEW y \in LogRecord
    PROVE  ByChainOrder(x, y) <=> Before(x, y)
BY DEF ByChainOrder, Before, LogRecord

\* The request budget leaves at least one range per tick.
LEMMA RangesPositive == MaxRanges \in Nat /\ MaxRanges >= 1
BY ConfigAssumption DEF MaxRanges

\* plan() covers its span without a hole and never passes the safe head.
LEMMA PlanCovers ==
    ASSUME NEW a \in Nat, NEW safe \in Nat, a <= safe
    PROVE  /\ a <= PlanEnd(a, safe) /\ PlanEnd(a, safe) <= safe /\ PlanEnd(a, safe) \in Nat
           /\ \A r \in Plan(a, safe) :
                r \in [from : Nat, to : Nat] /\ a <= r.from /\ r.to <= PlanEnd(a, safe)
           /\ \A b \in a..PlanEnd(a, safe) : \E r \in Plan(a, safe) : r.from <= b /\ b <= r.to
<1> DEFINE W == BatchBlocks
<1>0. W \in Nat /\ W >= 1 /\ MaxRanges \in Nat /\ MaxRanges >= 1
  BY RangesPositive, ConfigAssumption
<1>1. MaxRanges * W \in Nat /\ MaxRanges * W >= 1
  BY <1>0
<1>2. a <= PlanEnd(a, safe) /\ PlanEnd(a, safe) <= safe /\ PlanEnd(a, safe) \in Nat
  BY <1>1 DEF PlanEnd, Lesser
<1>3. ASSUME NEW r \in Plan(a, safe)
      PROVE  r \in [from : Nat, to : Nat] /\ a <= r.from /\ r.to <= PlanEnd(a, safe)
  <2>1. PICK k \in 0..(MaxRanges - 1) :
          /\ a + k * W <= safe
          /\ r = [from |-> a + k * W, to |-> Lesser(a + k * W + W - 1, safe)]
    BY DEF Plan
  <2>2. k * W \in Nat
    BY <1>0, <2>1
  <2>3. k * W + W <= MaxRanges * W
    <3>1. k + 1 <= MaxRanges /\ k \in Nat
      BY <1>0
    <3>2. (k + 1) * W <= MaxRanges * W
      BY <1>0, <3>1, Z3
    <3>3. (k + 1) * W = k * W + W
      BY <1>0, <3>1, Z3
    <3> QED BY <3>2, <3>3
  <2> HIDE DEF W
  <2>4. /\ r.from = a + k * W
        /\ r.to = Lesser(a + k * W + W - 1, safe)
    BY <2>1
  <2>5. r.to \in Nat /\ r.to <= PlanEnd(a, safe)
    BY <1>0, <1>1, <2>2, <2>3, <2>4 DEF PlanEnd, Lesser, W
  <2> QED BY <2>1, <2>2, <2>4, <2>5
<1>4. ASSUME NEW b \in a..PlanEnd(a, safe)
      PROVE  \E r \in Plan(a, safe) : r.from <= b /\ b <= r.to
  <2> DEFINE k == (b - a) \div W
  <2>1. b - a \in Nat
    BY <1>2
  <2>2. k \in Nat /\ k * W <= b - a /\ b - a < k * W + W
    BY <1>0, <2>1, Z3
  <2>3. b - a < MaxRanges * W /\ b <= safe
    BY <1>1, <1>2 DEF PlanEnd, Lesser
  <2>4. k < MaxRanges
    <3>1. SUFFICES ASSUME k >= MaxRanges PROVE k * W >= MaxRanges * W
      BY <2>2, <2>3, <1>0, <1>1
    <3> HIDE DEF k, W
    <3> QED BY <1>0, <2>2, <3>1, Z3
  <2> DEFINE r == [from |-> a + k * W, to |-> Lesser(a + k * W + W - 1, safe)]
  <2>5. k * W \in Nat
    BY <1>0, <2>2
  <2> HIDE DEF k
  <2>6. a + k * W <= safe
    BY <2>1, <2>2, <2>3, <2>5
  <2>7. r \in Plan(a, safe)
    <3>1. k \in {j \in 0..(MaxRanges - 1) : a + j * BatchBlocks <= safe}
      BY <1>0, <2>2, <2>4, <2>6
    <3> QED BY <3>1 DEF Plan
  <2>8. r.from <= b /\ b <= r.to
    BY <1>0, <2>1, <2>2, <2>3, <2>5 DEF Lesser
  <2> QED BY <2>7, <2>8
<1> QED BY <1>2, <1>3, <1>4

(***************************************************************************)
(* Handlers                                                                *)
(***************************************************************************)

\* Every handler awaits between one and four writes; a creation's second stores the market row.
LEMMA WritesFacts ==
    ASSUME NEW e \in Events
    PROVE  /\ Len(Writes(e.kind)) \in 1..4
           /\ \A i \in 1..Len(Writes(e.kind)) : Writes(e.kind)[i] \in WriteNames
           /\ e.kind = "MarketCreated" =>
                Len(Writes(e.kind)) = 3 /\ Writes(e.kind)[2] = "market" /\ ~NeedsMarket(e.kind)
<1>1. e.kind \in Kinds
  BY DEF Events
<1>2. CASE e.kind = "MarketCreated"
  <2>1. Writes(e.kind) = <<"category", "market", "draft">>
    BY <1>2 DEF Writes, ResolverKinds
  <2> QED BY <1>2, <2>1 DEF WriteNames, NeedsMarket
<1>3. CASE e.kind # "MarketCreated"
  <2>1. \/ Writes(e.kind) = <<"category", "copy", "labels">>
        \/ Writes(e.kind) = <<"trade", "pot", "shares", "position">>
        \/ Writes(e.kind) = <<"trade", "shares", "position", "pot">>
        \/ Writes(e.kind) = <<"status">>
        \/ Writes(e.kind) = <<"realized", "pot">>
        \/ Writes(e.kind) = <<"pot">>
        \/ Writes(e.kind) = <<"proposal">>
        \/ Writes(e.kind) = <<"ban">>
    BY <1>1, <1>3 DEF Writes, Kinds, EngineKinds, ResolverKinds, BlocklistKinds
  <2> QED BY <1>3, <2>1 DEF WriteNames
<1> QED BY <1>2, <1>3

\* The write counter of a handler stays below the longest handler's length.
LEMMA NextStepBounded ==
    ASSUME NEW s \in 0..3, NEW n \in 1..4, s < n
    PROVE  (IF s + 1 = n THEN 0 ELSE s + 1) \in 0..3
OBVIOUS

\* Due, by membership.
DueOn(c, l) ==
    NeedsMarket(l.ev.kind) =>
        \E m \in LogRecord : /\ IsLog(c, m) /\ StartBlock <= m.block
                             /\ m.ev = [kind |-> "MarketCreated", market |-> l.ev.market]
                             /\ Before(m, l)

\* Due asks for a creation in the watched part of the chain before the log.
LEMMA DueMember ==
    ASSUME chain \in Seq(Seq(Events)), NEW l \in LogRecord
    PROVE  Due(l) <=> DueOn(chain, l)
<1>1. \A m : m \in Logs(chain, StartBlock, Len(chain)) <=>
              IsLog(chain, m) /\ StartBlock <= m.block /\ m.block <= Len(chain)
  BY LogsMember, ConfigAssumption
<1>2. \A m : IsLog(chain, m) => m \in LogRecord /\ m.block <= Len(chain)
  BY DEF IsLog
<1> QED BY <1>1, <1>2 DEF Due, DueOn, Creation

(***************************************************************************)
(* The inductive invariant.  Below the cursor every due log is complete;   *)
(* the span of a running tick is final and starts after the cursor; each   *)
(* of its logs is still to be fetched, still in the batch, or complete;    *)
(* and what has been written so far is a prefix of the final chain.        *)
(***************************************************************************)
Handled(l) == Due(l) => Complete(l)

SpanInv ==
    /\ final <= Len(chain) /\ Finalised(Len(chain)) <= final
    /\ cursor > StartBlock - 1 => cursor <= final
    /\ pc # "idle" => to <= final
    /\ pc # "fetch" => pending = {}
    /\ pc \in {"idle", "refresh"} => batch = {}
    /\ pc = "idle" => touched = {}
    /\ \A r \in pending : from <= r.from /\ r.to <= to

BatchInv ==
    /\ \A l \in batch : IsLog(chain, l) /\ from <= l.block /\ l.block <= to
    /\ step > 0 => pc = "apply" /\ \E l \in batch : First(l)
    /\ \A l \in batch : First(l) =>
          /\ step < Len(Writes(l.ev.kind))
          /\ \A i \in 1..step : <<l, Writes(l.ev.kind)[i]>> \in applied

InPending(l) == \E r \in pending : r.from <= l.block /\ l.block <= r.to

CoverInv ==
    pc # "idle" =>
        \A l \in LogRecord :
            IsLog(chain, l) /\ from <= l.block /\ l.block <= to =>
                InPending(l) \/ l \in batch \/ Handled(l)

CursorInv ==
    \A l \in LogRecord : IsLog(chain, l) /\ StartBlock <= l.block /\ l.block <= cursor => Handled(l)

AppliedInv ==
    \A w \in applied :
        /\ IsLog(chain, w[1]) /\ StartBlock <= w[1].block /\ w[1].block <= final
        /\ NeedsMarket(w[1].ev.kind) => Known(w[1].ev.market)
        /\ \A l \in LogRecord :
              IsLog(chain, l) /\ StartBlock <= l.block /\ Due(l) /\ Before(l, w[1]) => Complete(l)

\* A market with stale prices and no swallowed read has an applied trade ahead of the cursor; in a
\* running tick it awaits its refresh, or that trade is beyond the span, in the batch, or unfetched.
PriceInv ==
    \A m \in stale \ unread :
        \E w \in applied :
            /\ IsTrade(w[1].ev.kind) /\ w[1].ev.market = m /\ w[1].block > cursor
            /\ pc # "idle" => m \in touched \/ w[1].block > to \/ w[1] \in batch \/ InPending(w[1])

IInv == TypeOK /\ SpanInv /\ BatchInv /\ CoverInv /\ CursorInv /\ AppliedInv /\ PriceInv

\* A fresh database satisfies the invariant: nothing is fetched, written or saved.
LEMMA InitInv == Init => IInv
<1> SUFFICES ASSUME Init PROVE IInv
  OBVIOUS
<1>1. TypeOK
  BY ConfigAssumption DEF Init, TypeOK
<1>2. SpanInv /\ BatchInv /\ CoverInv /\ AppliedInv /\ PriceInv
  BY ConfigAssumption DEF Init, SpanInv, Finalised, BatchInv, CoverInv, AppliedInv, PriceInv
<1>3. CursorInv
  BY ConfigAssumption DEF Init, CursorInv, IsLog
<1> QED BY <1>1, <1>2, <1>3 DEF IInv

(***************************************************************************)
(* The chain moves                                                         *)
(***************************************************************************)

\* What a new block or a reorganisation leaves alone: every final block, and the indexer.
ChainStep ==
    /\ chain' \in Seq(Seq(Events))
    /\ final' \in Nat /\ final <= final' /\ final' <= Len(chain') /\ Finalised(Len(chain')) <= final'
    /\ \A n \in 1..final : chain'[n] = chain[n]
    /\ UNCHANGED <<cursor, pc, from, to, pending, batch, step, touched, dbVars>>
    /\ reorgs' \in Nat /\ faults' \in Nat

\* A new block extends the chain and may finalise one more.
LEMMA NewBlockStep == ASSUME IInv, NewBlock PROVE ChainStep
<1>1. PICK body \in BlockBodies : chain' = Append(chain, body)
  BY DEF NewBlock
<1>2. chain \in Seq(Seq(Events)) /\ body \in Seq(Events) /\ final \in Nat /\ final <= Len(chain)
  BY <1>1, ChainAssumption DEF IInv, TypeOK, SpanInv
<1>3. chain' \in Seq(Seq(Events)) /\ Len(chain') = Len(chain) + 1
      /\ \A n \in 1..Len(chain) : chain'[n] = chain[n]
  BY <1>1, <1>2
<1>4. final' \in Nat /\ final <= final' /\ final' <= Len(chain') /\ Finalised(Len(chain')) <= final'
  BY <1>2, <1>3, ConfigAssumption DEF NewBlock, Finalised
<1> QED BY <1>2, <1>3, <1>4 DEF NewBlock, ChainStep, IInv, TypeOK

\* A reorganisation keeps every block that has been final.
LEMMA ReorgStep == ASSUME IInv, Reorg PROVE ChainStep
<1>1. PICK keep \in final..(Len(chain) - 1), body \in BlockBodies :
        chain' = Append(SubSeq(chain, 1, keep), body)
  BY DEF Reorg
<1>2. chain \in Seq(Seq(Events)) /\ body \in Seq(Events) /\ final \in Nat /\ final <= Len(chain)
  BY <1>1, ChainAssumption DEF IInv, TypeOK, SpanInv
<1> DEFINE kept == SubSeq(chain, 1, keep)
<1>3. kept \in Seq(Seq(Events)) /\ Len(kept) = keep /\ \A n \in 1..keep : kept[n] = chain[n]
  BY <1>1, <1>2
<1> HIDE DEF kept
<1>4. chain' = Append(kept, body)
  BY <1>1 DEF kept
<1>5. chain' \in Seq(Seq(Events)) /\ Len(chain') = keep + 1
      /\ \A n \in 1..keep : chain'[n] = chain[n]
  BY <1>1, <1>2, <1>3, <1>4
<1>6. final' \in Nat /\ final <= final' /\ final' <= Len(chain') /\ Finalised(Len(chain')) <= final'
  <2>1. final' = IF Finalised(Len(chain')) > final THEN Finalised(Len(chain')) ELSE final
    BY DEF Reorg
  <2>2. Len(chain') \in Nat /\ final <= Len(chain')
    BY <1>1, <1>2, <1>5
  <2>3. Finalised(Len(chain')) \in Nat /\ Finalised(Len(chain')) <= Len(chain')
    BY <2>2, ConfigAssumption DEF Finalised
  <2> QED BY <1>2, <2>1, <2>2, <2>3
<1> QED BY <1>1, <1>2, <1>5, <1>6 DEF Reorg, ChainStep, IInv, TypeOK

\* Logs of final blocks, and which of them are due, do not change.
LEMMA StableLogs ==
    ASSUME IInv, ChainStep, NEW l \in LogRecord, l.block <= final
    PROVE  (IsLog(chain', l) <=> IsLog(chain, l)) /\ (Due(l)' <=> Due(l))
<1>1. chain \in Seq(Seq(Events)) /\ chain' \in Seq(Seq(Events)) /\ final \in Nat
      /\ final <= Len(chain) /\ final <= Len(chain') /\ \A n \in 1..final : chain'[n] = chain[n]
  BY DEF IInv, TypeOK, SpanInv, ChainStep
<1>2. \A x \in LogRecord : x.block <= final => (IsLog(chain', x) <=> IsLog(chain, x))
  <2> SUFFICES ASSUME NEW x \in LogRecord, x.block <= final
               PROVE  IsLog(chain', x) <=> IsLog(chain, x)
    OBVIOUS
  <2>1. x.block \in Nat
    BY DEF LogRecord
  <2>2. CASE x.block = 0
    BY <2>2 DEF IsLog
  <2>3. CASE x.block >= 1
    <3>1. /\ x.block \in 1..Len(chain) /\ x.block \in 1..Len(chain') /\ chain'[x.block] = chain[x.block]
      BY <1>1, <2>1, <2>3
    <3> QED BY <3>1 DEF IsLog
  <2> QED BY <2>1, <2>2, <2>3
<1>3. \A x \in LogRecord : Before(x, l) => x.block <= final
  BY <1>1 DEF Before, LogRecord
<1>4. DueOn(chain', l) <=> DueOn(chain, l)
  BY <1>2, <1>3 DEF DueOn
<1>5. Due(l) <=> DueOn(chain, l)
  BY <1>1, DueMember
<1>6. Due(l)' <=> DueOn(chain', l)
  <2>1. chain' \in Seq(Seq(Events)) /\ Due(l)' = (NeedsMarket(l.ev.kind) => Creation(chain', StartBlock, Len(chain'), l) # {})
    BY <1>1 DEF Due
  <2>2. \A m : m \in Logs(chain', StartBlock, Len(chain')) <=>
              IsLog(chain', m) /\ StartBlock <= m.block /\ m.block <= Len(chain')
    BY <1>1, LogsMember, ConfigAssumption
  <2>3. \A m : IsLog(chain', m) => m \in LogRecord /\ m.block <= Len(chain')
    BY DEF IsLog
  <2> QED BY <2>1, <2>2, <2>3 DEF DueOn, Creation
<1> QED BY <1>2, <1>4, <1>5, <1>6

\* A move of the chain preserves the invariant: everything it speaks of is final.
LEMMA ChainInv == ASSUME IInv, ChainStep PROVE IInv'
<1>1. /\ chain \in Seq(Seq(Events)) /\ final \in Nat /\ cursor \in Int /\ from \in Nat /\ to \in Nat
      /\ final <= Len(chain) /\ final <= final' /\ final' \in Nat /\ final' <= Len(chain')
      /\ Finalised(Len(chain')) <= final'
      /\ StartBlock \in Nat /\ batch \subseteq LogRecord /\ applied \subseteq LogRecord \X WriteNames
  BY ConfigAssumption DEF IInv, TypeOK, SpanInv, ChainStep
<1>2. UNCHANGED <<cursor, pc, from, to, pending, batch, step, touched, applied, doubled, stale, unread>>
  BY DEF ChainStep, dbVars
<1>3. \A l \in LogRecord : l.block <= final =>
        (IsLog(chain', l) <=> IsLog(chain, l)) /\ (Due(l)' <=> Due(l))
  BY StableLogs
<1>4. \A l : Complete(l)' <=> Complete(l)
  BY <1>2 DEF Complete
<1>5. \A l : First(l)' <=> First(l)
  BY <1>2 DEF First
<1>6. \A l : InPending(l)' <=> InPending(l)
  BY <1>2 DEF InPending
<1>7. TypeOK'
  BY <1>2 DEF IInv, TypeOK, ChainStep
<1>8. SpanInv'
  BY <1>1, <1>2 DEF IInv, SpanInv
<1>9. BatchInv'
  <2>1. \A l \in batch : pc # "idle"
    BY DEF IInv, SpanInv
  <2>2. \A l \in batch : l \in LogRecord /\ l.block <= final /\ IsLog(chain', l)
    <3> SUFFICES ASSUME NEW l \in batch PROVE l \in LogRecord /\ l.block <= final /\ IsLog(chain', l)
      OBVIOUS
    <3>1. l \in LogRecord /\ l.block \in Nat /\ l.block <= to /\ to <= final /\ IsLog(chain, l)
      BY <1>1, <2>1 DEF IInv, SpanInv, BatchInv, LogRecord
    <3> QED BY <1>1, <1>3, <3>1
  <2> QED BY <1>2, <1>5, <2>2 DEF IInv, BatchInv
<1>10. CoverInv'
  <2> SUFFICES ASSUME pc # "idle", NEW l \in LogRecord, IsLog(chain', l), from <= l.block, l.block <= to
               PROVE  InPending(l) \/ l \in batch \/ (Due(l)' => Complete(l))
    BY <1>2, <1>4, <1>6 DEF CoverInv, Handled
  <2>1. l.block \in Nat /\ l.block <= final
    BY <1>1 DEF IInv, SpanInv, LogRecord
  <2> QED BY <1>3, <2>1 DEF IInv, CoverInv, Handled
<1>11. CursorInv'
  <2> SUFFICES ASSUME NEW l \in LogRecord, IsLog(chain', l), StartBlock <= l.block, l.block <= cursor
               PROVE  Due(l)' => Complete(l)
    BY <1>2, <1>4 DEF CursorInv, Handled
  <2>1. l.block \in Nat /\ l.block <= final
    BY <1>1 DEF IInv, SpanInv, LogRecord
  <2> QED BY <1>3, <2>1 DEF IInv, CursorInv, Handled
<1>12. AppliedInv'
  <2> SUFFICES ASSUME NEW w \in applied
               PROVE  /\ IsLog(chain', w[1]) /\ StartBlock <= w[1].block /\ w[1].block <= final'
                      /\ \A l \in LogRecord :
                           IsLog(chain', l) /\ StartBlock <= l.block /\ Due(l)' /\ Before(l, w[1])
                              => Complete(l)
    BY <1>2, <1>4 DEF IInv, AppliedInv, Known
  <2>1. /\ w[1] \in LogRecord /\ w[1].block \in Nat
        /\ IsLog(chain, w[1]) /\ StartBlock <= w[1].block /\ w[1].block <= final
    BY <1>1 DEF IInv, AppliedInv, LogRecord
  <2>2. \A l \in LogRecord : Before(l, w[1]) => l.block <= final
    BY <1>1, <2>1 DEF Before, LogRecord
  <2>3. \A l \in LogRecord :
          IsLog(chain, l) /\ StartBlock <= l.block /\ Due(l) /\ Before(l, w[1]) => Complete(l)
    BY DEF IInv, AppliedInv
  <2> QED BY <1>1, <1>3, <2>1, <2>2, <2>3
<1>13. PriceInv'
  BY <1>2, <1>6 DEF IInv, PriceInv
<1> QED BY <1>7, <1>8, <1>9, <1>10, <1>11, <1>12, <1>13 DEF IInv

(***************************************************************************)
(* The tick                                                                *)
(***************************************************************************)

\* When the loop is at a log, every earlier log of the watched chain has been handled.
LEMMA Predecessors ==
    ASSUME IInv, pc = "apply", NEW l \in batch, First(l),
           NEW e \in LogRecord, IsLog(chain, e), StartBlock <= e.block, Before(e, l)
    PROVE  Handled(e)
<1>1. /\ l \in LogRecord /\ l.block \in Nat /\ e.block \in Nat /\ from \in Nat /\ cursor \in Int
      /\ to \in Nat /\ from = cursor + 1 /\ l.block <= to /\ pending = {}
  BY DEF IInv, TypeOK, SpanInv, BatchInv, LogRecord
<1>2. e.block <= l.block
  BY <1>1 DEF Before
<1>3. CASE e.block <= cursor
  BY <1>3 DEF IInv, CursorInv
<1>4. CASE e.block > cursor
  <2>1. from <= e.block /\ e.block <= to
    BY <1>1, <1>2, <1>4
  <2>2. ~InPending(e)
    BY <1>1 DEF InPending
  <2>3. e \notin batch
    <3> SUFFICES ASSUME e \in batch PROVE FALSE
      OBVIOUS
    <3>1. e # l
      BY <1>1 DEF Before, LogRecord
    <3>2. ByChainOrder(l, e)
      BY <3>1 DEF First
    <3> QED BY <1>1, <3>2 DEF ByChainOrder, Before, LogRecord
  <2> QED BY <2>1, <2>2, <2>3 DEF IInv, CoverInv
<1> QED BY <1>1, <1>3, <1>4

\* A due log finds its market row: its market's creation is one of those predecessors.
LEMMA MarketFound ==
    ASSUME IInv, pc = "apply", NEW l \in batch, First(l), Due(l), NeedsMarket(l.ev.kind)
    PROVE  Known(l.ev.market)
<1>1. chain \in Seq(Seq(Events)) /\ l \in LogRecord
  BY DEF IInv, TypeOK
<1>2. PICK m \in LogRecord : /\ IsLog(chain, m) /\ StartBlock <= m.block
                             /\ m.ev = [kind |-> "MarketCreated", market |-> l.ev.market]
                             /\ Before(m, l)
  BY <1>1, DueMember DEF DueOn
<1>3. Handled(m)
  BY <1>2, Predecessors
<1>4. m.ev \in Events /\ m.ev.kind = "MarketCreated" /\ m.ev.market = l.ev.market
  BY <1>2 DEF LogRecord
<1>5. Due(m)
  BY <1>4, WritesFacts DEF Due
<1>6. <<m, "market">> \in applied
  BY <1>3, <1>4, <1>5, WritesFacts DEF Handled, Complete
<1> QED BY <1>4, <1>6 DEF Known

\* Starting a tick: the plan covers the new span, and nothing has been fetched.
LEMMA StartTickInv == ASSUME IInv, StartTick PROVE IInv'
<1> DEFINE safe == SafeHead(Len(chain))
<1>1. /\ pc = "idle" /\ cursor + 1 <= safe /\ pc' = "fetch" /\ from' = cursor + 1
      /\ to' = PlanEnd(cursor + 1, safe) /\ pending' = Plan(cursor + 1, safe)
      /\ UNCHANGED <<chain, final, reorgs, faults, cursor, batch, step, touched, applied, doubled, stale, unread>>
  BY DEF StartTick, chainVars, dbVars
<1>2. /\ Len(chain) \in Nat /\ cursor \in Int /\ cursor + 1 >= StartBlock /\ StartBlock \in Nat
      /\ final \in Nat /\ final <= Len(chain)
      /\ batch = {} /\ touched = {}
  BY <1>1, ConfigAssumption DEF IInv, TypeOK, SpanInv
<1>3. safe \in Nat /\ cursor + 1 \in Nat
  BY <1>1, <1>2, ConfigAssumption DEF SafeHead
<1>4. /\ cursor + 1 <= to' /\ to' <= safe /\ to' \in Nat
      /\ \A r \in pending' : r \in [from : Nat, to : Nat] /\ cursor + 1 <= r.from /\ r.to <= to'
      /\ \A b \in (cursor + 1)..to' : \E r \in pending' : r.from <= b /\ b <= r.to
  <2> HIDE DEF safe
  <2> QED BY <1>1, <1>3, PlanCovers
<1>5. safe <= final
  <2>1. safe = Finalised(Len(chain))
    BY DEF SafeHead, Finalised
  <2> QED BY <2>1 DEF IInv, SpanInv
<1> HIDE DEF safe
<1>6. TypeOK'
  <2>1. pending' \subseteq [from : Nat, to : Nat]
    BY <1>4
  <2> QED BY <1>1, <1>2, <1>3, <1>4, <2>1 DEF IInv, TypeOK
<1>7. SpanInv'
  BY <1>1, <1>2, <1>3, <1>4, <1>5 DEF IInv, SpanInv
<1>8. BatchInv'
  <2>1. step = 0
    BY <1>1 DEF IInv, BatchInv, TypeOK
  <2> QED BY <1>1, <1>2, <2>1 DEF BatchInv
<1>9. CoverInv'
  <2> SUFFICES ASSUME NEW l \in LogRecord, from' <= l.block, l.block <= to'
               PROVE  InPending(l)'
    BY <1>1 DEF CoverInv
  <2>1. l.block \in (cursor + 1)..to'
    BY <1>1, <1>3, <1>4 DEF LogRecord
  <2> QED BY <1>4, <2>1 DEF InPending
<1>10. CursorInv'
  BY <1>1 DEF IInv, CursorInv, Handled, Due, Complete
<1>11. AppliedInv'
  BY <1>1 DEF IInv, AppliedInv, Due, Complete, Known
<1>12. PriceInv'
  <2> SUFFICES ASSUME NEW m \in stale \ unread
               PROVE  \E w \in applied : /\ IsTrade(w[1].ev.kind) /\ w[1].ev.market = m
                                         /\ w[1].block > cursor
                                         /\ w[1].block > to' \/ InPending(w[1])'
    BY <1>1 DEF PriceInv
  <2>1. PICK w \in applied : IsTrade(w[1].ev.kind) /\ w[1].ev.market = m /\ w[1].block > cursor
    BY <1>1 DEF IInv, PriceInv
  <2>2. w[1] \in LogRecord /\ w[1].block \in Nat
    BY DEF IInv, TypeOK, LogRecord
  <2>3. CASE w[1].block > to'
    BY <2>1, <2>3
  <2>4. CASE w[1].block <= to'
    <3>1. w[1].block \in (cursor + 1)..to'
      BY <1>2, <1>3, <1>4, <2>1, <2>2, <2>4
    <3> QED BY <1>4, <2>1, <3>1 DEF InPending
  <2> QED BY <1>4, <2>2, <2>3, <2>4
<1> QED BY <1>6, <1>7, <1>8, <1>9, <1>10, <1>11, <1>12 DEF IInv

\* One range answers: its logs move from the pending part of the span to the batch.
LEMMA FetchRangeInv == ASSUME IInv, FetchRange PROVE IInv'
<1>1. PICK r \in pending : pending' = pending \ {r} /\ batch' = batch \cup Logs(chain, r.from, r.to)
  BY DEF FetchRange
<1>2. /\ pc = "fetch" /\ pc' \in {"apply", "fetch"} /\ (pc' = "apply" => pending' = {})
      /\ UNCHANGED <<chain, final, reorgs, faults, cursor, from, to, step, touched, applied, doubled, stale, unread>>
  BY DEF FetchRange, chainVars, spanVars, dbVars
<1>3. /\ chain \in Seq(Seq(Events)) /\ r.from \in Nat /\ r.to \in Nat /\ from <= r.from /\ r.to <= to
      /\ from \in Nat /\ to \in Nat
  BY <1>1 DEF IInv, TypeOK, SpanInv
<1>4. \A l : l \in Logs(chain, r.from, r.to) <=> IsLog(chain, l) /\ r.from <= l.block /\ l.block <= r.to
  BY <1>3, LogsMember
<1>5. \A l : IsLog(chain, l) => l \in LogRecord /\ l.block \in Nat
  BY DEF IsLog, LogRecord
<1>6. TypeOK'
  BY <1>1, <1>2, <1>4, <1>5 DEF IInv, TypeOK
<1>7. SpanInv'
  BY <1>1, <1>2 DEF IInv, SpanInv
<1>8. BatchInv'
  <2>1. step = 0
    BY <1>2 DEF IInv, BatchInv, TypeOK
  <2>2. \A l \in batch' : l \in LogRecord /\ IsLog(chain, l) /\ from <= l.block /\ l.block <= to
    BY <1>1, <1>3, <1>4, <1>5 DEF IInv, BatchInv, TypeOK
  <2>3. \A l \in batch' : l.ev \in Events
    BY <2>2 DEF LogRecord
  <2>4. \A l \in batch' : Len(Writes(l.ev.kind)) \in 1..4
    BY <2>3, WritesFacts
  <2> QED BY <1>2, <2>1, <2>2, <2>4 DEF BatchInv
<1>9. CoverInv'
  <2> SUFFICES ASSUME NEW l \in LogRecord, IsLog(chain, l), from <= l.block, l.block <= to
               PROVE  InPending(l)' \/ l \in batch' \/ Handled(l)
    BY <1>2 DEF CoverInv, Handled, Due, Complete
  <2>1. InPending(l) \/ l \in batch \/ Handled(l)
    BY <1>2 DEF IInv, CoverInv
  <2>2. InPending(l) => InPending(l)' \/ l \in batch'
    BY <1>1, <1>4 DEF InPending
  <2> QED BY <1>1, <2>1, <2>2
<1>10. CursorInv'
  BY <1>2 DEF IInv, CursorInv, Handled, Due, Complete
<1>11. AppliedInv'
  BY <1>2 DEF IInv, AppliedInv, Due, Complete, Known
<1>12. PriceInv'
  <2> SUFFICES ASSUME NEW m \in stale \ unread
               PROVE  \E w \in applied :
                         /\ IsTrade(w[1].ev.kind) /\ w[1].ev.market = m /\ w[1].block > cursor
                         /\ m \in touched \/ w[1].block > to \/ w[1] \in batch' \/ InPending(w[1])'
    BY <1>2 DEF PriceInv
  <2>1. PICK w \in applied :
          /\ IsTrade(w[1].ev.kind) /\ w[1].ev.market = m /\ w[1].block > cursor
          /\ m \in touched \/ w[1].block > to \/ w[1] \in batch \/ InPending(w[1])
    BY <1>2 DEF IInv, PriceInv
  <2>2. IsLog(chain, w[1])
    BY DEF IInv, AppliedInv
  <2>3. InPending(w[1]) => InPending(w[1])' \/ w[1] \in batch'
    BY <1>1, <1>4, <2>2 DEF InPending
  <2> QED BY <1>1, <2>1, <2>3
<1> QED BY <1>6, <1>7, <1>8, <1>9, <1>10, <1>11, <1>12 DEF IInv

\* Dropping an event: it was not due, so it counts as handled.
LEMMA DropUnknownInv == ASSUME IInv, DropUnknown PROVE IInv'
<1>1. PICK l \in batch : /\ First(l) /\ step = 0
                         /\ NeedsMarket(l.ev.kind) /\ ~Known(l.ev.market)
                         /\ batch' = batch \ {l}
  BY DEF DropUnknown
<1>2. /\ pc = "apply"
      /\ UNCHANGED <<chain, final, reorgs, faults, cursor, pc, from, to, pending, step, touched,
                     applied, doubled, stale, unread>>
  BY DEF DropUnknown, chainVars, spanVars, dbVars
<1>3. ~Due(l)
  BY <1>1, <1>2, MarketFound
<1>4. TypeOK' /\ SpanInv'
  BY <1>1, <1>2 DEF IInv, TypeOK, SpanInv
<1>5. BatchInv'
  <2>1. \A x \in batch' : x.ev \in Events
    BY <1>1 DEF IInv, TypeOK, LogRecord
  <2>2. \A x \in batch' : Len(Writes(x.ev.kind)) \in 1..4
    BY <2>1, WritesFacts
  <2>3. \A x \in batch' : IsLog(chain', x) /\ from' <= x.block /\ x.block <= to'
    BY <1>1, <1>2 DEF IInv, BatchInv
  <2>4. step' = 0
    BY <1>1, <1>2
  <2>5. \A x \in batch' : First(x)' => /\ step' < Len(Writes(x.ev.kind))
                                       /\ \A i \in 1..step' : <<x, Writes(x.ev.kind)[i]>> \in applied'
    <3> SUFFICES ASSUME NEW x \in batch'
                 PROVE  /\ step' < Len(Writes(x.ev.kind))
                        /\ \A i \in 1..step' : <<x, Writes(x.ev.kind)[i]>> \in applied'
      OBVIOUS
    <3>1. \A n \in 1..4 : 0 < n
      OBVIOUS
    <3>2. step' < Len(Writes(x.ev.kind))
      BY <2>2, <2>4, <3>1, Zenon
    <3>3. 1..step' = {}
      BY <2>4
    <3> QED BY <3>2, <3>3
  <2> QED BY <2>3, <2>4, <2>5 DEF BatchInv
<1>6. CoverInv'
  BY <1>1, <1>2, <1>3 DEF IInv, CoverInv, Handled, InPending, Due, Complete
<1>7. CursorInv' /\ AppliedInv'
  BY <1>2 DEF IInv, CursorInv, AppliedInv, Handled, Due, Complete, Known
<1>8. PriceInv'
  <2>1. \A w \in applied : IsTrade(w[1].ev.kind) => w[1] # l
    BY <1>1 DEF IInv, AppliedInv, IsTrade, NeedsMarket, EngineKinds
  <2> QED BY <1>1, <1>2, <2>1 DEF IInv, PriceInv, InPending
<1> QED BY <1>4, <1>5, <1>6, <1>7, <1>8 DEF IInv

\* A write lands: it belongs to the first log of the batch, whose predecessors are all handled.
LEMMA WriteNextInv == ASSUME IInv, WriteNext PROVE IInv'
<1>1. PICK l \in batch :
        LET name == Writes(l.ev.kind)[step + 1]
            last == step + 1 = Len(Writes(l.ev.kind))
        IN  /\ First(l)
            /\ NeedsMarket(l.ev.kind) => Known(l.ev.market)
            /\ applied' = applied \cup {<<l, name>>}
            /\ doubled' = IF name \in Increments /\ <<l, name>> \in applied
                          THEN doubled \cup {<<l, name>>} ELSE doubled
            /\ step' = IF last THEN 0 ELSE step + 1
            /\ batch' = IF last THEN batch \ {l} ELSE batch
            /\ touched' = IF last /\ IsTrade(l.ev.kind)
                          THEN touched \cup {l.ev.market} ELSE touched
            /\ stale' = IF IsTrade(l.ev.kind) THEN stale \cup {l.ev.market} ELSE stale
  BY DEF WriteNext
<1> DEFINE name == Writes(l.ev.kind)[step + 1]
           last == step + 1 = Len(Writes(l.ev.kind))
<1>2. /\ pc = "apply"
      /\ UNCHANGED <<chain, final, reorgs, faults, cursor, pc, from, to, pending, unread>>
  BY DEF WriteNext, chainVars, spanVars
<1>3. /\ l \in LogRecord /\ l.ev \in Events /\ l.ev.market \in Markets /\ l.block \in Nat
      /\ step \in 0..3 /\ step < Len(Writes(l.ev.kind)) /\ Len(Writes(l.ev.kind)) \in 1..4
      /\ IsLog(chain, l) /\ from <= l.block /\ l.block <= to
      /\ from = cursor + 1 /\ cursor >= StartBlock - 1 /\ StartBlock \in Nat /\ cursor \in Int
      /\ to <= final /\ final \in Nat /\ to \in Nat
  <2>1. l \in LogRecord /\ l.ev \in Events /\ l.ev.market \in Markets /\ l.block \in Nat
    BY DEF IInv, TypeOK, LogRecord, Events
  <2>2. Len(Writes(l.ev.kind)) \in 1..4
    BY <2>1, WritesFacts
  <2> QED BY <1>1, <1>2, <2>1, <2>2, ConfigAssumption DEF IInv, TypeOK, SpanInv, BatchInv
<1>4. name \in WriteNames /\ <<l, name>> \in LogRecord \X WriteNames
  BY <1>3, WritesFacts
<1>5. /\ applied' = applied \cup {<<l, name>>}
      /\ \A x : Complete(x) => Complete(x)'
      /\ \A m : Known(m) => Known(m)'
  BY <1>1 DEF Complete, Known
<1>6. \A x : Due(x)' <=> Due(x)
  BY <1>2 DEF Due
<1>7. ASSUME last PROVE Complete(l)'
  <2> SUFFICES ASSUME NEW i \in 1..Len(Writes(l.ev.kind)) PROVE <<l, Writes(l.ev.kind)[i]>> \in applied'
    BY DEF Complete
  <2>1. i \in 1..step \/ i = step + 1
    BY <1>3, <1>7
  <2>2. i \in 1..step => <<l, Writes(l.ev.kind)[i]>> \in applied
    BY <1>1 DEF IInv, BatchInv
  <2> QED BY <1>5, <2>1, <2>2
<1>8. /\ doubled' \subseteq applied'
      /\ step' \in 0..3 /\ step' = (IF last THEN 0 ELSE step + 1)
      /\ batch' = (IF last THEN batch \ {l} ELSE batch)
      /\ touched' = (IF last /\ IsTrade(l.ev.kind) THEN touched \cup {l.ev.market} ELSE touched)
      /\ stale' = (IF IsTrade(l.ev.kind) THEN stale \cup {l.ev.market} ELSE stale)
      /\ First(l) /\ (NeedsMarket(l.ev.kind) => Known(l.ev.market))
  <2>1. doubled' \subseteq applied'
    <3>1. doubled \subseteq applied
      BY DEF IInv, TypeOK
    <3>2. doubled' = doubled \cup {<<l, name>>} \/ doubled' = doubled
      BY <1>1
    <3> HIDE DEF name
    <3> QED BY <1>5, <3>1, <3>2
  <2>2. step' = (IF last THEN 0 ELSE step + 1)
    BY <1>1
  <2>3. step' \in 0..3
    <3>1. step \in 0..3 /\ step < Len(Writes(l.ev.kind)) /\ Len(Writes(l.ev.kind)) \in 1..4
      BY <1>3, Zenon
    <3> QED BY <2>2, <3>1, NextStepBounded
  <2> QED BY <1>1, <2>1, <2>2, <2>3
<1>9. TypeOK'
  BY <1>2, <1>3, <1>4, <1>5, <1>8 DEF IInv, TypeOK
<1>10. SpanInv'
  BY <1>2, <1>8 DEF IInv, SpanInv
<1>11. BatchInv'
  <2>1. \A x \in batch' : IsLog(chain', x) /\ from' <= x.block /\ x.block <= to'
    BY <1>2, <1>8 DEF IInv, BatchInv
  <2>2. CASE last
    <3>1. step' = 0
      BY <1>8, <2>2
    <3>2. \A x \in batch' : x.ev \in Events
      BY <1>8 DEF IInv, TypeOK, LogRecord
    <3>3. \A x \in batch' : Len(Writes(x.ev.kind)) \in 1..4
      BY <3>2, WritesFacts
    <3> QED BY <2>1, <3>1, <3>3 DEF BatchInv
  <2>3. CASE ~last
    <3>1. step' = step + 1 /\ batch' = batch /\ step + 1 < Len(Writes(l.ev.kind))
      BY <1>3, <1>8, <2>3
    <3>2. \A x : First(x)' <=> First(x)
      BY <3>1 DEF First
    <3>3. \A x \in batch : First(x) => x = l
      <4> SUFFICES ASSUME NEW x \in batch, First(x), x # l PROVE FALSE
        OBVIOUS
      <4>1. x \in LogRecord /\ ByChainOrder(x, l) /\ ByChainOrder(l, x)
        BY <1>8 DEF First, IInv, TypeOK
      <4> QED BY <1>3, <4>1 DEF ByChainOrder, LogRecord
    <3>4. \A i \in 1..(step + 1) : <<l, Writes(l.ev.kind)[i]>> \in applied'
      <4> SUFFICES ASSUME NEW i \in 1..(step + 1) PROVE <<l, Writes(l.ev.kind)[i]>> \in applied'
        OBVIOUS
      <4>1. i \in 1..step \/ i = step + 1
        BY <1>3
      <4>2. i \in 1..step => <<l, Writes(l.ev.kind)[i]>> \in applied
        BY <1>8 DEF IInv, BatchInv
      <4> QED BY <1>5, <4>1, <4>2
    <3>5. step' > 0 => pc' = "apply" /\ \E x \in batch' : First(x)'
      BY <1>2, <1>8, <3>1, <3>2
    <3>6. \A x \in batch' : First(x)' => /\ step' < Len(Writes(x.ev.kind))
                                         /\ \A i \in 1..step' : <<x, Writes(x.ev.kind)[i]>> \in applied'
      <4> SUFFICES ASSUME NEW x \in batch', First(x)'
                   PROVE  /\ step' < Len(Writes(x.ev.kind))
                          /\ \A i \in 1..step' : <<x, Writes(x.ev.kind)[i]>> \in applied'
        OBVIOUS
      <4>1. x = l
        BY <3>1, <3>2, <3>3
      <4> HIDE DEF name, last
      <4> QED BY <3>1, <3>4, <4>1
    <3> HIDE DEF name, last
    <3> QED BY <2>1, <3>5, <3>6 DEF BatchInv
  <2> QED BY <2>2, <2>3
<1> HIDE DEF name
<1>12. CoverInv'
  <2> SUFFICES ASSUME NEW x \in LogRecord, IsLog(chain, x), from <= x.block, x.block <= to
               PROVE  InPending(x)' \/ x \in batch' \/ Handled(x)'
    BY <1>2 DEF CoverInv
  <2>1. InPending(x) \/ x \in batch \/ Handled(x)
    BY <1>2 DEF IInv, CoverInv
  <2>2. Handled(x) => Handled(x)'
    BY <1>5, <1>6 DEF Handled
  <2>3. x \in batch => x \in batch' \/ Handled(x)'
    BY <1>7, <1>8 DEF Handled
  <2>4. InPending(x) => InPending(x)'
    BY <1>2 DEF InPending
  <2> QED BY <2>1, <2>2, <2>3, <2>4
<1>13. CursorInv'
  BY <1>2, <1>5, <1>6 DEF IInv, CursorInv, Handled
<1>14. AppliedInv'
  <2> SUFFICES ASSUME NEW w \in applied'
               PROVE  /\ IsLog(chain, w[1]) /\ StartBlock <= w[1].block /\ w[1].block <= final
                      /\ NeedsMarket(w[1].ev.kind) => Known(w[1].ev.market)'
                      /\ \A e \in LogRecord :
                           IsLog(chain, e) /\ StartBlock <= e.block /\ Due(e) /\ Before(e, w[1])
                              => Complete(e)'
    BY <1>2, <1>6 DEF AppliedInv
  <2>1. CASE w \in applied
    BY <1>5, <2>1 DEF IInv, AppliedInv
  <2>2. CASE w = <<l, name>>
    <3>1. w[1] = l
      BY <2>2
    <3>2. \A e \in LogRecord : IsLog(chain, e) /\ StartBlock <= e.block /\ Before(e, l) => Handled(e)
      BY <1>2, <1>8, Predecessors
    <3>3. StartBlock <= l.block /\ l.block <= final
      BY <1>3
    <3> QED BY <1>3, <1>5, <1>8, <3>1, <3>2, <3>3 DEF Handled
  <2> QED BY <1>5, <2>1, <2>2
<1>15. PriceInv'
  <2> SUFFICES ASSUME NEW m \in stale' \ unread
               PROVE  \E w \in applied' :
                         /\ IsTrade(w[1].ev.kind) /\ w[1].ev.market = m /\ w[1].block > cursor
                         /\ m \in touched' \/ w[1].block > to \/ w[1] \in batch' \/ InPending(w[1])'
    BY <1>2 DEF PriceInv
  <2>1. \A x : InPending(x)' <=> InPending(x)
    BY <1>2 DEF InPending
  <2>2. CASE IsTrade(l.ev.kind) /\ m = l.ev.market
    <3>1. m \in touched' \/ l \in batch'
      BY <1>8, <2>2
    <3>2. <<l, name>> \in applied' /\ <<l, name>>[1] = l /\ l.block > cursor
      BY <1>3, <1>5
    <3> QED BY <2>2, <3>1, <3>2
  <2>3. CASE ~(IsTrade(l.ev.kind) /\ m = l.ev.market)
    <3>1. m \in stale \ unread /\ (m \in touched => m \in touched')
      BY <1>8, <2>3
    <3>2. PICK w \in applied :
            /\ IsTrade(w[1].ev.kind) /\ w[1].ev.market = m /\ w[1].block > cursor
            /\ m \in touched \/ w[1].block > to \/ w[1] \in batch \/ InPending(w[1])
      BY <1>2, <3>1 DEF IInv, PriceInv
    <3>3. w[1] # l
      BY <2>3, <3>2
    <3> QED BY <1>5, <1>8, <2>1, <3>1, <3>2, <3>3
  <2> QED BY <2>2, <2>3
<1> QED BY <1>9, <1>10, <1>11, <1>12, <1>13, <1>14, <1>15 DEF IInv

\* The batch is in: every log of the span is handled, and the markets it traded await a refresh.
LEMMA BatchAppliedInv == ASSUME IInv, BatchApplied PROVE IInv'
<1>1. /\ pc = "apply" /\ batch = {} /\ pc' = "refresh"
      /\ UNCHANGED <<chain, final, reorgs, faults, cursor, from, to, pending, batch, step, touched,
                     applied, doubled, stale, unread>>
  BY DEF BatchApplied, chainVars, spanVars, dbVars
<1>2. step = 0
  BY <1>1 DEF IInv, TypeOK, BatchInv
<1>3. TypeOK' /\ SpanInv'
  BY <1>1 DEF IInv, TypeOK, SpanInv
<1>4. BatchInv'
  BY <1>1, <1>2 DEF BatchInv
<1>5. CoverInv' /\ CursorInv' /\ AppliedInv'
  BY <1>1 DEF IInv, CoverInv, CursorInv, AppliedInv, Handled, InPending, Due, Complete, Known
<1>6. PriceInv'
  BY <1>1 DEF IInv, PriceInv, InPending
<1> QED BY <1>3, <1>4, <1>5, <1>6 DEF IInv

\* Refreshing a market, or failing to: it leaves the touched set and is priced or marked unread.
LEMMA RefreshInv == ASSUME IInv, RefreshPrice \/ RefreshFails PROVE IInv'
<1>1. /\ pc = "refresh" /\ faults' \in Nat
      /\ UNCHANGED <<chain, final, reorgs, cursor, pc, from, to, pending, batch, step, applied, doubled>>
  BY DEF RefreshPrice, RefreshFails, chainVars, spanVars, IInv, TypeOK
<1>2. /\ touched' \subseteq touched /\ stale' \subseteq stale /\ unread' \subseteq Markets
      /\ \A m \in stale' \ unread' : m \in stale \ unread /\ (m \in touched => m \in touched')
  <2>1. touched \subseteq Markets /\ unread \subseteq Markets
    BY DEF IInv, TypeOK
  <2>2. CASE RefreshPrice
    BY <2>1, <2>2 DEF RefreshPrice
  <2>3. CASE RefreshFails
    BY <2>1, <2>3 DEF RefreshFails
  <2> QED BY <2>2, <2>3
<1>3. TypeOK' /\ SpanInv'
  BY <1>1, <1>2 DEF IInv, TypeOK, SpanInv
<1>4. BatchInv'
  BY <1>1 DEF IInv, SpanInv, BatchInv
<1>5. CoverInv' /\ CursorInv' /\ AppliedInv'
  BY <1>1 DEF IInv, CoverInv, CursorInv, AppliedInv, Handled, InPending, Due, Complete, Known
<1>6. PriceInv'
  BY <1>1, <1>2 DEF IInv, PriceInv, InPending
<1> QED BY <1>3, <1>4, <1>5, <1>6 DEF IInv

\* Saving the cursor: the whole span is handled and final, so the cursor may stand at its end.
LEMMA SaveCursorInv == ASSUME IInv, SaveCursor PROVE IInv'
<1>1. /\ pc = "refresh" /\ touched = {} /\ cursor' = to /\ pc' = "idle" /\ from' = 0 /\ to' = 0
      /\ UNCHANGED <<chain, final, reorgs, faults, pending, batch, step, touched,
                     applied, doubled, stale, unread>>
  BY DEF SaveCursor, chainVars, dbVars
<1>2. /\ batch = {} /\ pending = {} /\ to \in Nat /\ to <= final /\ from = cursor + 1 /\ from <= to
      /\ cursor \in Int /\ cursor >= StartBlock - 1 /\ StartBlock \in Nat /\ step = 0
  BY <1>1, ConfigAssumption DEF IInv, TypeOK, SpanInv, BatchInv
<1>3. TypeOK' /\ SpanInv'
  BY <1>1, <1>2 DEF IInv, TypeOK, SpanInv
<1>4. BatchInv' /\ CoverInv'
  BY <1>1, <1>2 DEF BatchInv, CoverInv
<1>5. CursorInv'
  <2> SUFFICES ASSUME NEW l \in LogRecord, IsLog(chain, l), StartBlock <= l.block, l.block <= to
               PROVE  Handled(l)
    BY <1>1 DEF CursorInv, Handled, Due, Complete
  <2>1. l.block \in Nat
    BY DEF LogRecord
  <2>2. CASE l.block <= cursor
    BY <2>2 DEF IInv, CursorInv
  <2>3. CASE from <= l.block
    BY <1>1, <1>2, <2>3 DEF IInv, CoverInv, InPending
  <2> QED BY <1>2, <2>1, <2>2, <2>3
<1>6. AppliedInv'
  BY <1>1 DEF IInv, AppliedInv, Due, Complete, Known
<1>7. PriceInv'
  BY <1>1, <1>2 DEF IInv, PriceInv, InPending
<1> QED BY <1>3, <1>4, <1>5, <1>6, <1>7 DEF IInv

\* A tick that fails or dies keeps the cursor and the database and forgets the rest.
LEMMA AbortTickInv == ASSUME IInv, AbortTick PROVE IInv'
<1>1. /\ pc # "idle" /\ faults' \in Nat /\ pc' = "idle" /\ from' = 0 /\ to' = 0
      /\ pending' = {} /\ batch' = {} /\ step' = 0 /\ touched' = {}
      /\ UNCHANGED <<chain, final, reorgs, cursor, applied, doubled, stale, unread>>
  BY DEF AbortTick, chainVars, dbVars, IInv, TypeOK
<1>2. TypeOK' /\ SpanInv'
  BY <1>1 DEF IInv, TypeOK, SpanInv
<1>3. BatchInv' /\ CoverInv'
  BY <1>1 DEF BatchInv, CoverInv
<1>4. CursorInv' /\ AppliedInv'
  BY <1>1 DEF IInv, CursorInv, AppliedInv, Handled, Due, Complete, Known
<1>5. PriceInv'
  BY <1>1 DEF IInv, PriceInv
<1> QED BY <1>2, <1>3, <1>4, <1>5 DEF IInv

(***************************************************************************)
(* Theorems                                                                *)
(***************************************************************************)

\* Every step of the system preserves the invariant.
LEMMA NextInv == ASSUME IInv, [Next]_vars PROVE IInv'
<1>1. CASE NewBlock
  BY <1>1, NewBlockStep, ChainInv
<1>2. CASE Reorg
  BY <1>2, ReorgStep, ChainInv
<1>3. CASE StartTick
  BY <1>3, StartTickInv
<1>4. CASE FetchRange
  BY <1>4, FetchRangeInv
<1>5. CASE DropUnknown
  BY <1>5, DropUnknownInv
<1>6. CASE WriteNext
  BY <1>6, WriteNextInv
<1>7. CASE BatchApplied
  BY <1>7, BatchAppliedInv
<1>8. CASE RefreshPrice \/ RefreshFails
  BY <1>8, RefreshInv
<1>9. CASE SaveCursor
  BY <1>9, SaveCursorInv
<1>10. CASE AbortTick
  BY <1>10, AbortTickInv
<1>11. CASE UNCHANGED vars
  BY <1>11 DEF vars, IInv, TypeOK, SpanInv, BatchInv, CoverInv, CursorInv, AppliedInv, PriceInv,
               First, InPending, Handled, Due, Complete, Known
<1> QED
  BY <1>1, <1>2, <1>3, <1>4, <1>5, <1>6, <1>7, <1>8, <1>9, <1>10, <1>11 DEF Next, Tick

\* The invariant holds in every reachable state of the indexer, whatever fails and reorganises.
THEOREM Invariance == Spec => []IInv
<1>1. Init => IInv
  BY InitInv
<1>2. IInv /\ [Next]_vars => IInv'
  BY NextInv
<1> QED BY <1>1, <1>2, PTL DEF Spec

\* The indexer's state keeps its types, and a running tick's span follows the stored cursor.
THEOREM TypeCorrect == Spec => []TypeOK
<1>1. IInv => TypeOK
  BY DEF IInv
<1> QED BY <1>1, Invariance, PTL

\* saveCursor: the cursor is never past the finalised chain, and below it nothing due is missing.
THEOREM CursorIsSound == Spec => []CursorSound
<1>1. IInv => CursorSound
  <2> SUFFICES ASSUME IInv PROVE CursorSound
    OBVIOUS
  <2>1. chain \in Seq(Seq(Events)) /\ cursor \in Int
    BY DEF IInv, TypeOK
  <2>2. \A l \in Logs(chain, StartBlock, cursor) :
          l \in LogRecord /\ IsLog(chain, l) /\ StartBlock <= l.block /\ l.block <= cursor
    <3>1. \A l : l \in Logs(chain, StartBlock, cursor) =>
                   IsLog(chain, l) /\ StartBlock <= l.block /\ l.block <= cursor
      BY <2>1, LogsMember, ConfigAssumption
    <3> QED BY <3>1 DEF IsLog
  <2> QED BY <2>2 DEF IInv, SpanInv, CursorInv, Handled, CursorSound
<1> QED BY <1>1, Invariance, PTL

\* processBatch: what the database shows is a prefix of the chain, whole but for its last log.
THEOREM AppliedIsPrefix == Spec => []PrefixApplied
<1>1. IInv => PrefixApplied
  <2> SUFFICES ASSUME IInv, NEW w \in applied, NEW l \in Logs(chain, StartBlock, Len(chain)),
                      Due(l), Before(l, w[1])
               PROVE  Complete(l)
    BY DEF PrefixApplied
  <2>1. chain \in Seq(Seq(Events)) /\ Len(chain) \in Int
    BY DEF IInv, TypeOK
  <2>2. IsLog(chain, l) /\ StartBlock <= l.block
    BY <2>1, LogsMember, ConfigAssumption
  <2>3. l \in LogRecord
    BY <2>2 DEF IsLog
  <2> QED BY <2>2, <2>3 DEF IInv, AppliedInv
<1> QED BY <1>1, Invariance, PTL

\* safeHead: nothing in the database stems from a block that a reorganisation replaced.
THEOREM AppliedIsCanonical == Spec => []AppliedCanonical
<1>1. IInv => AppliedCanonical
  <2> SUFFICES ASSUME IInv, NEW w \in applied PROVE w[1] \in Logs(chain, StartBlock, final)
    BY DEF AppliedCanonical
  <2>1. chain \in Seq(Seq(Events)) /\ final \in Int
    BY DEF IInv, TypeOK
  <2>2. IsLog(chain, w[1]) /\ StartBlock <= w[1].block /\ w[1].block <= final
    BY DEF IInv, AppliedInv
  <2> QED BY <2>1, <2>2, LogsMember, ConfigAssumption
<1> QED BY <1>1, Invariance, PTL

\* marketRef: no event of a market created in the watched part of the chain is ever ignored.
THEOREM EventsFindTheirMarket == Spec => []NothingDropped
<1>1. IInv => NothingDropped
  BY MarketFound DEF NothingDropped
<1> QED BY <1>1, Invariance, PTL

\* refreshPrices: prices are stale only ahead of the cursor or after a swallowed read.
THEOREM PricesAreFollowed == Spec => []PricesFollowTrades
<1>1. IInv => PricesFollowTrades
  BY DEF IInv, PriceInv, PricesFollowTrades
<1> QED BY <1>1, Invariance, PTL

\* The stored cursor never moves back: a tick saves the end of a span that starts after it.
THEOREM CursorNeverRetreats == Spec => [][cursor' >= cursor]_vars
<1>1. IInv /\ [Next]_vars => [cursor' >= cursor]_vars
  <2> SUFFICES ASSUME IInv, Next PROVE cursor' >= cursor
    OBVIOUS
  <2>1. cursor \in Int /\ to \in Nat /\ (pc # "idle" => from = cursor + 1 /\ from <= to) /\ from \in Nat
    BY DEF IInv, TypeOK
  <2>2. CASE SaveCursor
    BY <2>1, <2>2 DEF SaveCursor
  <2>3. CASE ~SaveCursor
    BY <2>1, <2>3 DEF Next, Tick, NewBlock, Reorg, StartTick, FetchRange, DropUnknown, WriteNext,
                      BatchApplied, RefreshPrice, RefreshFails, AbortTick
  <2> QED BY <2>2, <2>3
<1> QED BY <1>1, Invariance, PTL DEF Spec
=============================================================================
