----------------------- MODULE EventProcessor_proofs ------------------------
(***************************************************************************)
(* Proofs about the event processor's handlers: ResolutionMirror, those of *)
(* the resolver's logs, and TradeLedger, those of the engine's.  Every     *)
(* theorem is about one of the two specifications alone.                   *)
(***************************************************************************)
EXTENDS ResolutionMirror, TradeLedger, SumLemmas

-----------------------------------------------------------------------------
(***************************************************************************)
(* ResolutionMirror: what the handlers store has its column's type,        *)
(* subscribers are behind the row only as long as an announcement is still *)
(* to come, and the row describes the current proposal, whatever was       *)
(* unwound and replayed before.                                            *)
(***************************************************************************)
\* The void sentinel is stored as NULL.
LEMMA OutcomeColumn ==
    ASSUME NEW o \in Claims
    PROVE  OutcomeOrVoid(o) \in OptionalOutcome
BY DEF Claims, OutcomeOrVoid, OptionalOutcome

\* A log's fields have their column's types.
LEMMA LogFields ==
    ASSUME NEW l \in LogTypes
    PROVE  /\ l.type \in {"Proposed", "Disputed", "Finalized", "Arbitrated", "Slashed",
                          "ProposalAbandoned", "DisputeReset"}
           /\ l.type = "Proposed" => l.proposer \in Parties /\ l.outcome \in Claims /\ l.bonded \in BOOLEAN
           /\ l.type = "Disputed" => l.disputer \in Parties /\ l.outcome \in Claims
           /\ l.type = "Finalized" => l.outcome \in Claims
           /\ l.type = "Arbitrated" => l.outcome \in Claims /\ l.loser \in Parties \cup {Null}
           /\ l.type = "Slashed" => l.account \in Parties
BY DEF LogTypes

\* A handler leaves a row of the table's type, or none.
LEMMA HandledRow ==
    ASSUME NEW r \in RowType \cup {Null}, NEW l \in LogTypes
    PROVE  Handle(r, l) \in RowType \/ (r = Null /\ Handle(r, l) = Null)
<1>1. CASE l.type = "Proposed"
  <2>1. OutcomeOrVoid(l.outcome) \in OptionalOutcome
    BY <1>1, LogFields, OutcomeColumn
  <2>2. Handle(r, l) = OnProposed(r, l)
    BY <1>1 DEF Handle
  <2>3. OnProposed(r, l) \in RowType
    BY <1>1, <2>1, LogFields DEF OnProposed, RowType, Phases, OptionalOutcome
  <2> QED BY <2>2, <2>3
<1>2. CASE l.type # "Proposed" /\ r = Null
  BY <1>2 DEF Handle
<1>3. CASE r # Null /\ l.type = "Disputed"
  <2>1. OutcomeOrVoid(l.outcome) \in OptionalOutcome /\ l.disputer \in Parties
    BY <1>3, LogFields, OutcomeColumn
  <2> QED BY <1>3, <2>1 DEF Handle, OnDisputed, RowType, Phases
<1>4. CASE r # Null /\ l.type = "Finalized"
  <2>1. OutcomeOrVoid(l.outcome) \in OptionalOutcome
    BY <1>4, LogFields, OutcomeColumn
  <2> QED BY <1>4, <2>1 DEF Handle, OnFinalized, RowType, Phases
<1>5. CASE r # Null /\ l.type = "Arbitrated"
  <2>1. OutcomeOrVoid(l.outcome) \in OptionalOutcome /\ l.loser \in Parties \cup {Null}
    BY <1>5, LogFields, OutcomeColumn
  <2> QED BY <1>5, <2>1 DEF Handle, OnArbitrated, RowType, Phases
<1>6. CASE r # Null /\ l.type = "Slashed"
  <2>1. l.account \in Parties
    BY <1>6, LogFields
  <2> QED BY <1>6, <2>1 DEF Handle, OnSlashed, RowType, Phases
<1>7. CASE r # Null /\ l.type \in {"ProposalAbandoned", "DisputeReset"}
  <2>1. Handle(r, l) = OnResolutionCleared(r)
    BY <1>7 DEF Handle
  <2>2. OnResolutionCleared(r) \in RowType
    BY <1>7 DEF OnResolutionCleared, RowType, Phases, OptionalOutcome
  <2> QED BY <2>1, <2>2
<1> QED BY <1>1, <1>2, <1>3, <1>4, <1>5, <1>6, <1>7, LogFields

\* A handler that does not announce leaves the phase alone, and none removes a row.
LEMMA QuietHandlers ==
    ASSUME NEW r \in RowType \cup {Null}, NEW l \in LogTypes
    PROVE  /\ ~Announces(l) /\ r # Null => Handle(r, l).phase = r.phase
           /\ ~Announces(l) /\ r = Null => Handle(r, l) = Null
<1>1. CASE Announces(l)
  BY <1>1
<1>2. CASE ~Announces(l) /\ r # Null
  <2>1. Handle(r, l) = OnSlashed(r, l) /\ r \in RowType
    BY <1>2 DEF Announces, Handle
  <2> QED BY <1>2, <2>1 DEF OnSlashed, RowType
<1>3. CASE ~Announces(l) /\ r = Null
  BY <1>3 DEF Announces, Handle
<1> QED BY <1>1, <1>2, <1>3

\* No handler removes a row: NULL is no row of the table.
LEMMA KeptRow ==
    ASSUME NEW r \in RowType, r # Null, NEW l \in LogTypes
    PROVE  Handle(r, l) # Null
BY HandledRow, NullAssumption

\* What the resolver emits are logs, after those it has emitted.
LEMMA Emitted ==
    ASSUME log \in Seq(LogTypes), NEW s \in Seq(LogTypes), Emit(s)
    PROVE  log' \in Seq(LogTypes) /\ Len(log) <= Len(log')
<1>1. log' = log \o s
  BY DEF Emit
<1>2. log \o s \in Seq(LogTypes) /\ Len(log \o s) = Len(log) + Len(s) /\ Len(log) \in Nat /\ Len(s) \in Nat
  OBVIOUS
<1> QED BY <1>1, <1>2

\* One or two logs are a sequence of logs.
LEMMA ShortSeq ==
    ASSUME NEW x \in LogTypes, NEW y \in LogTypes
    PROVE  <<x>> \in Seq(LogTypes) /\ <<x, y>> \in Seq(LogTypes)
OBVIOUS

\* A resolver transaction keeps the resolver's part of the types, and only adds logs.
LEMMA ResolverStep ==
    ASSUME TypeOK, Resolver
    PROVE  TypeOK'
<1> DEFINE Kept == UNCHANGED mirrorVars
           StageOK == /\ stage \in {"NONE", "PROPOSED", "DISPUTED", "SETTLED"}
                      /\ stage \in {"PROPOSED", "DISPUTED"} =>
                            proposal \in [proposer : Parties, outcome : Claims, bonded : BOOLEAN]
                      /\ stage = "DISPUTED" => dispute \in [disputer : Parties, outcome : Claims]
<1>0. log \in Seq(LogTypes) /\ StageOK /\ Kept
  BY DEF TypeOK, Resolver
<1>1. SUFFICES StageOK' /\ log' \in Seq(LogTypes) /\ Len(log) <= Len(log')
  <2>1. next \in 0..Len(log) /\ written \in next..Len(log) /\ Len(log) \in Nat
    BY DEF TypeOK
  <2>2. ASSUME log' \in Seq(LogTypes), Len(log) <= Len(log')
        PROVE  /\ next \in 0..Len(log') /\ written \in next..Len(log')
               /\ next < Len(log) => next < Len(log')
    <3>1. Len(log') \in Nat
      BY <2>2
    <3> QED BY <2>1, <2>2, <3>1
  <2>3. UNCHANGED <<listed, next, handler, cursor, replays, row, written, announced>>
    BY <1>0 DEF mirrorVars
  <2> QED BY <1>0, <2>2, <2>3 DEF TypeOK
<1>2. CASE Propose
  <2>1. PICK p \in Parties, o \in Claims, b \in BOOLEAN :
            /\ proposal' = [proposer |-> p, outcome |-> o, bonded |-> b]
            /\ Emit(<<[type |-> "Proposed", proposer |-> p, outcome |-> o, bonded |-> b]>>)
    BY <1>2 DEF Propose
  <2>2. [type |-> "Proposed", proposer |-> p, outcome |-> o, bonded |-> b] \in LogTypes
    BY DEF LogTypes
  <2>3. log' \in Seq(LogTypes) /\ Len(log) <= Len(log')
    BY <1>0, <2>1, <2>2, ShortSeq, Emitted
  <2>4. StageOK'
    BY <1>2, <2>1 DEF Propose
  <2> QED BY <2>3, <2>4
<1>3. CASE Dispute
  <2>1. PICK d \in Parties, o \in Claims :
            /\ dispute' = [disputer |-> d, outcome |-> o]
            /\ Emit(<<[type |-> "Disputed", disputer |-> d, outcome |-> o]>>)
    BY <1>3 DEF Dispute
  <2>2. [type |-> "Disputed", disputer |-> d, outcome |-> o] \in LogTypes
    BY DEF LogTypes
  <2>3. log' \in Seq(LogTypes) /\ Len(log) <= Len(log')
    BY <1>0, <2>1, <2>2, ShortSeq, Emitted
  <2>4. StageOK'
    BY <1>0, <1>3, <2>1 DEF Dispute
  <2> QED BY <2>3, <2>4
<1>4. CASE Finalize
  <2>1. proposal.outcome \in Claims
    BY <1>0, <1>4 DEF Finalize
  <2>2. [type |-> "Finalized", outcome |-> proposal.outcome] \in LogTypes
    BY <2>1 DEF LogTypes
  <2>3. log' \in Seq(LogTypes) /\ Len(log) <= Len(log')
    BY <1>0, <1>4, <2>2, ShortSeq, Emitted DEF Finalize
  <2>4. StageOK'
    BY <1>4 DEF Finalize
  <2> QED BY <2>3, <2>4
<1>5. CASE Arbitrate
  <2>1. proposal \in [proposer : Parties, outcome : Claims, bonded : BOOLEAN]
        /\ dispute \in [disputer : Parties, outcome : Claims]
    BY <1>0, <1>5 DEF Arbitrate
  <2>2. PICK upheld \in BOOLEAN :
          LET outcome == IF upheld THEN proposal.outcome ELSE dispute.outcome
              loser   == IF upheld THEN dispute.disputer
                         ELSE IF proposal.bonded THEN proposal.proposer ELSE Null
              award   == [type |-> "Arbitrated", outcome |-> outcome, loser |-> loser]
              slash   == [type |-> "Slashed", account |-> loser]
          IN  IF loser = Null THEN Emit(<<award>>)
              ELSE Emit(<<award, slash>>) \/ Emit(<<slash, award>>)
    BY <1>5 DEF Arbitrate
  <2> DEFINE outcome == IF upheld THEN proposal.outcome ELSE dispute.outcome
             loser   == IF upheld THEN dispute.disputer
                        ELSE IF proposal.bonded THEN proposal.proposer ELSE Null
             award   == [type |-> "Arbitrated", outcome |-> outcome, loser |-> loser]
             slash   == [type |-> "Slashed", account |-> loser]
  <2>3. outcome \in Claims /\ loser \in Parties \cup {Null}
    BY <2>1
  <2>4. award \in LogTypes /\ (loser # Null => slash \in LogTypes)
    BY <2>3 DEF LogTypes
  <2>5. Emit(<<award>>) \/ (loser # Null /\ (Emit(<<award, slash>>) \/ Emit(<<slash, award>>)))
    BY <2>2
  <2> HIDE DEF award, slash, loser, outcome
  <2>6. log' \in Seq(LogTypes) /\ Len(log) <= Len(log')
    <3>1. CASE Emit(<<award>>)
      BY <1>0, <2>4, <3>1, ShortSeq, Emitted
    <3>2. CASE loser # Null /\ Emit(<<award, slash>>)
      BY <1>0, <2>4, <3>2, ShortSeq, Emitted
    <3>3. CASE loser # Null /\ Emit(<<slash, award>>)
      BY <1>0, <2>4, <3>3, ShortSeq, Emitted
    <3> QED BY <2>5, <3>1, <3>2, <3>3
  <2>7. StageOK'
    BY <1>5 DEF Arbitrate
  <2> QED BY <2>6, <2>7
<1>6. CASE Unwind
  <2>1. [type |-> "ProposalAbandoned"] \in LogTypes /\ [type |-> "DisputeReset"] \in LogTypes
    BY DEF LogTypes
  <2>2. Emit(<<[type |-> "ProposalAbandoned"]>>) \/ Emit(<<[type |-> "DisputeReset"]>>)
    BY <1>6 DEF Unwind
  <2>3. log' \in Seq(LogTypes) /\ Len(log) <= Len(log')
    BY <1>0, <2>1, <2>2, ShortSeq, Emitted
  <2>4. StageOK'
    BY <1>6 DEF Unwind
  <2> QED BY <2>3, <2>4
<1> QED BY <1>2, <1>3, <1>4, <1>5, <1>6 DEF Resolver

-----------------------------------------------------------------------------
\* A resolver transaction emits one log or two, and the first of all logs is a proposal.
LEMMA Emissions ==
    ASSUME Resolver
    PROVE  \E x, y : /\ log' = log \o <<x>> \/ log' = log \o <<x, y>>
                     /\ stage = "NONE" => log' = log \o <<x>> /\ x.type = "Proposed"
<1>1. CASE Propose
  <2>1. PICK p, o, b : Emit(<<[type |-> "Proposed", proposer |-> p, outcome |-> o, bonded |-> b]>>)
    BY <1>1 DEF Propose
  <2>2. [type |-> "Proposed", proposer |-> p, outcome |-> o, bonded |-> b].type = "Proposed"
    OBVIOUS
  <2> QED BY <2>1, <2>2 DEF Emit
<1>2. CASE Dispute
  <2>1. PICK d, o : Emit(<<[type |-> "Disputed", disputer |-> d, outcome |-> o]>>)
    BY <1>2 DEF Dispute
  <2> QED BY <1>2, <2>1 DEF Emit, Dispute
<1>3. CASE Finalize
  BY <1>3 DEF Finalize, Emit
<1>4. CASE Arbitrate
  <2>1. PICK x, y : Emit(<<x>>) \/ Emit(<<x, y>>)
    BY <1>4 DEF Arbitrate
  <2> QED BY <1>4, <2>1 DEF Emit, Arbitrate
<1>5. CASE Unwind
  BY <1>5 DEF Unwind, Emit
<1> QED BY <1>1, <1>2, <1>3, <1>4, <1>5 DEF Resolver

\* At the start nothing is stored.
LEMMA TypeStarts == Init => TypeOK
<1>1. <<>> \in Seq(LogTypes) /\ Len(<<>>) = 0
  OBVIOUS
<1> QED BY <1>1, ResolutionAssumption DEF Init, TypeOK, Idle, Phases

\* The row's phase, and that of no row.
LEMMA PhaseOfRow ==
    ASSUME NEW r \in RowType \cup {Null}
    PROVE  Phase(r) \in Phases
BY DEF Phase, Phases, RowType

\* The next log's row write keeps the types; an announcement is under way only where one is due.
LEMMA WriteRowTypes ==
    ASSUME TypeOK, WriteRow
    PROVE  TypeOK'
<1>1. log[next + 1] \in LogTypes /\ next + 1 \in 0..Len(log) /\ next \in Nat /\ Len(log) \in Nat
  BY DEF WriteRow, TypeOK
<1>2. row' \in RowType \cup {Null}
  BY <1>1, HandledRow DEF WriteRow, TypeOK
<1>3. written' \in (next + 1)..Len(log)
  BY <1>1 DEF WriteRow, TypeOK
<1>4. UNCHANGED <<stage, proposal, dispute, ruling, log, listed, cursor, replays, announced>>
  BY DEF WriteRow, chainVars
<1>5. CASE listed /\ Announces(log[next + 1])
  <2>1. handler' = [handler EXCEPT !.at = "drop"] /\ next' = next
    BY <1>5 DEF WriteRow
  <2>2. handler' \in [at : {"write", "drop", "read", "publish"}, read : Phases] /\ handler'.at = "drop"
    BY <2>1 DEF TypeOK
  <2>3. cursor' \in 0..next' /\ next' \in 0..Len(log') /\ written' \in next'..Len(log')
        /\ next' < Len(log') /\ next' < written'
    BY <1>1, <1>3, <1>4, <2>1 DEF TypeOK
  <2> QED BY <1>2, <1>4, <1>5, <2>2, <2>3 DEF TypeOK
<1>6. CASE ~(listed /\ Announces(log[next + 1]))
  <2>1. next' = next + 1 /\ handler' = handler /\ handler.at = "write"
    BY <1>6 DEF WriteRow
  <2>2. cursor' \in 0..next' /\ next' \in 0..Len(log') /\ written' \in next'..Len(log')
    BY <1>1, <1>3, <1>4, <2>1 DEF TypeOK
  <2> QED BY <1>2, <1>4, <2>1, <2>2 DEF TypeOK
<1> QED BY <1>5, <1>6

\* A step of the resolver or of the indexer keeps the types.
LEMMA TypeStep == TypeOK /\ [Next]_vars => TypeOK'
<1> SUFFICES ASSUME TypeOK, [Next]_vars PROVE TypeOK'
  OBVIOUS
<1>1. CASE Resolver
  BY <1>1, ResolverStep
<1>2. CASE WriteRow
  BY <1>2, WriteRowTypes
<1>3. CASE DropViews
  <2>1. UNCHANGED <<stage, proposal, dispute, ruling, log, listed, next, cursor, replays, row, written, announced>>
    BY <1>3 DEF DropViews, chainVars
  <2>2. handler' \in [at : {"write", "drop", "read", "publish"}, read : Phases] /\ handler.at = "drop"
    BY <1>3 DEF DropViews, TypeOK
  <2> QED BY <2>1, <2>2 DEF TypeOK
<1>4. CASE ReadBack
  <2>1. UNCHANGED <<stage, proposal, dispute, ruling, log, listed, next, cursor, replays, row, written, announced>>
    BY <1>4 DEF ReadBack, chainVars
  <2>2. Phase(row) \in Phases
    BY PhaseOfRow DEF TypeOK
  <2>3. handler' \in [at : {"write", "drop", "read", "publish"}, read : Phases] /\ handler.at = "read"
    BY <1>4, <2>2 DEF ReadBack
  <2> QED BY <2>1, <2>3 DEF TypeOK
<1>5. CASE Publish
  <2>1. UNCHANGED <<stage, proposal, dispute, ruling, log, listed, cursor, replays, row, written>>
    BY <1>5 DEF Publish, chainVars
  <2>2. handler.at = "publish" /\ announced' = handler.read /\ handler' = Idle /\ next' = next + 1
    BY <1>5 DEF Publish
  <2>3. announced' \in Phases /\ handler' \in [at : {"write", "drop", "read", "publish"}, read : Phases]
        /\ handler'.at = "write"
    BY <2>2 DEF TypeOK, Idle, Phases
  <2>4. cursor' \in 0..next' /\ next' \in 0..Len(log') /\ written' \in next'..Len(log')
    <3>1. Len(log) \in Nat /\ next \in 0..Len(log) /\ next < Len(log) /\ next < written
          /\ written \in next..Len(log) /\ cursor \in 0..next
      BY <2>2 DEF TypeOK
    <3> QED BY <2>1, <2>2, <3>1
  <2> QED BY <2>1, <2>3, <2>4 DEF TypeOK
<1>6. CASE Commit
  <2>1. cursor' \in 0..next' /\ next' \in 0..Len(log')
    BY <1>6 DEF Commit, TypeOK, chainVars
  <2> QED BY <1>6, <2>1 DEF Commit, TypeOK, chainVars
<1>7. CASE Replay
  <2>1. Len(log) \in Nat /\ next \in 0..Len(log) /\ written \in next..Len(log) /\ cursor \in 0..next
    BY DEF TypeOK
  <2>2. cursor' \in 0..next' /\ next' \in 0..Len(log') /\ written' \in next'..Len(log')
        /\ replays' \in 0..MaxReplays
    BY <1>7, <2>1, ResolutionAssumption DEF Replay, TypeOK, chainVars
  <2>3. handler' \in [at : {"write", "drop", "read", "publish"}, read : Phases] /\ handler'.at = "write"
    BY <1>7 DEF Replay, Idle, Phases
  <2> QED BY <1>7, <2>2, <2>3 DEF Replay, TypeOK, chainVars
<1>8. CASE UNCHANGED vars
  BY <1>8 DEF vars, chainVars, mirrorVars, TypeOK
<1> QED BY <1>1, <1>2, <1>3, <1>4, <1>5, <1>6, <1>7, <1>8 DEF Next, Handler

\* OptimisticResolver handlers: every column holds its type, and the void sentinel reaches none.
THEOREM TypeCorrect == Spec => []TypeOK
BY TypeStarts, TypeStep, PTL DEF Spec

-----------------------------------------------------------------------------
(***************************************************************************)
(* Subscribers.  They hold another phase than the row only as long as a    *)
(* log that has written the row and is announced is still to be handled,   *)
(* for the first time or again.                                            *)
(***************************************************************************)
Told == announced = Phase(row) \/ \E v \in (next + 1)..written : Announces(log[v])

AnnounceInv ==
    /\ TypeOK
    /\ listed => Told
    /\ ~listed => announced = "NONE"
    /\ handler.at # "write" => Announces(log[next + 1])
    /\ handler.at = "publish" => handler.read = Phase(row)

\* A handler that does not announce leaves the phase alone.
LEMMA QuietPhase ==
    ASSUME NEW r \in RowType \cup {Null}, NEW l \in LogTypes, ~Announces(l)
    PROVE  Phase(Handle(r, l)) = Phase(r)
<1>1. CASE r = Null
  BY <1>1, QuietHandlers DEF Phase
<1>2. CASE r # Null
  BY <1>2, QuietHandlers, KeptRow DEF Phase
<1> QED BY <1>1, <1>2

\* At the start there is no row, and nothing has been announced.
LEMMA AnnounceStarts == Init => AnnounceInv
<1> SUFFICES ASSUME Init PROVE AnnounceInv
  OBVIOUS
<1>1. TypeOK
  BY TypeStarts
<1> QED BY <1>1 DEF Init, AnnounceInv, Told, Phase, Idle

\* The row write of an announced log makes the subscribers wait for that log; that of another log
\* changes no phase, and no log waited for is passed over.
LEMMA WriteRowTells ==
    ASSUME AnnounceInv, WriteRow, TypeOK'
    PROVE  AnnounceInv'
<1>1. log[next + 1] \in LogTypes /\ row \in RowType \cup {Null} /\ next \in Nat /\ written \in Nat
      /\ written \in next..Len(log) /\ Len(log) \in Nat
  BY DEF AnnounceInv, TypeOK, WriteRow
<1>2. /\ row' = Handle(row, log[next + 1]) /\ log' = log /\ announced' = announced /\ listed' = listed
      /\ written' = IF next + 1 > written THEN next + 1 ELSE written
      /\ handler.at = "write"
  BY DEF WriteRow, chainVars
<1>3. CASE listed /\ Announces(log[next + 1])
  <2>1. next' = next /\ handler' = [handler EXCEPT !.at = "drop"]
    BY <1>3 DEF WriteRow
  <2>2. next + 1 \in (next' + 1)..written'
    BY <1>1, <1>2, <2>1
  <2>3. Told' /\ handler'.at = "drop"
    BY <1>2, <1>3, <2>1, <2>2 DEF Told, AnnounceInv, TypeOK
  <2> QED BY <1>2, <1>3, <2>1, <2>3 DEF AnnounceInv
<1>4. CASE listed /\ ~Announces(log[next + 1])
  <2>1. next' = next + 1 /\ handler' = handler
    BY <1>4 DEF WriteRow
  <2>2. Phase(row') = Phase(row)
    BY <1>1, <1>2, <1>4, QuietPhase
  <2>3. CASE announced = Phase(row)
    BY <1>2, <1>4, <2>1, <2>2, <2>3 DEF AnnounceInv, Told
  <2>4. CASE \E v \in (next + 1)..written : Announces(log[v])
    <3>1. PICK v \in (next + 1)..written : Announces(log[v])
      BY <2>4
    <3>2. v # next + 1
      BY <1>4, <3>1
    <3>3. v \in (next' + 1)..written'
      BY <1>1, <1>2, <2>1, <3>2
    <3> QED BY <1>2, <1>4, <2>1, <3>1, <3>3 DEF AnnounceInv, Told
  <2> QED BY <1>4, <2>3, <2>4 DEF AnnounceInv, Told
<1>5. CASE ~listed
  <2>1. next' = next + 1 /\ handler' = handler
    BY <1>5 DEF WriteRow
  <2> QED BY <1>2, <1>5, <2>1 DEF AnnounceInv
<1> QED BY <1>3, <1>4, <1>5

\* What is waited for stays waited for: no other step moves next past an announced log unannounced.
LEMMA AnnounceStep == AnnounceInv /\ [Next]_vars => AnnounceInv'
<1> SUFFICES ASSUME AnnounceInv, [Next]_vars PROVE AnnounceInv'
  OBVIOUS
<1>0. TypeOK /\ TypeOK'
  BY TypeStep DEF AnnounceInv
<1>1. CASE Resolver
  <2>1. UNCHANGED <<listed, next, handler, row, written, announced>>
    BY <1>1 DEF Resolver, mirrorVars
  <2>2. \A v \in 1..Len(log) : log'[v] = log[v]
    <3>1. PICK x, y : log' = log \o <<x>> \/ log' = log \o <<x, y>>
      BY <1>1, Emissions
    <3> QED BY <1>0, <3>1 DEF TypeOK
  <2>3. written \in next..Len(log) /\ next \in Nat /\ Len(log) \in Nat /\ (handler.at # "write" => next < Len(log))
    BY <1>0 DEF TypeOK
  <2>4. Told => Told'
    BY <2>1, <2>2, <2>3 DEF Told
  <2>5. handler.at # "write" => log'[next + 1] = log[next + 1]
    BY <2>2, <2>3
  <2> QED BY <1>0, <2>1, <2>4, <2>5 DEF AnnounceInv
<1>2. CASE WriteRow
  BY <1>0, <1>2, WriteRowTells
<1>3. CASE DropViews
  <2>1. UNCHANGED <<log, listed, next, row, written, announced>> /\ handler'.at = "read" /\ handler.at = "drop"
    BY <1>0, <1>3 DEF DropViews, chainVars, TypeOK
  <2> QED BY <1>0, <2>1 DEF AnnounceInv, Told
<1>4. CASE ReadBack
  <2>1. UNCHANGED <<log, listed, next, row, written, announced>> /\ handler'.read = Phase(row) /\ handler.at = "read"
    BY <1>4 DEF ReadBack, chainVars
  <2> QED BY <1>0, <2>1 DEF AnnounceInv, Told
<1>5. CASE Publish
  <2>1. announced' = Phase(row) /\ row' = row /\ listed' = listed /\ listed /\ handler'.at = "write"
    BY <1>0, <1>5 DEF Publish, AnnounceInv, TypeOK, Idle
  <2> QED BY <1>0, <2>1 DEF AnnounceInv, Told
<1>6. CASE Commit \/ UNCHANGED vars
  <2>1. UNCHANGED <<log, listed, next, handler, row, written, announced>>
    BY <1>6 DEF Commit, vars, chainVars, mirrorVars
  <2> QED BY <1>0, <2>1 DEF AnnounceInv, Told
<1>7. CASE Replay
  <2>1. UNCHANGED <<log, listed, row, written, announced>> /\ next' = cursor /\ handler'.at = "write"
    BY <1>7 DEF Replay, chainVars, Idle
  <2>2. cursor \in 0..next /\ next \in Nat /\ written \in Nat
    BY <1>0 DEF TypeOK
  <2>3. \A v \in (next + 1)..written : v \in (next' + 1)..written'
    BY <2>1, <2>2
  <2>4. Told => Told'
    BY <2>1, <2>3 DEF Told
  <2> QED BY <1>0, <2>1, <2>4 DEF AnnounceInv
<1> QED BY <1>1, <1>2, <1>3, <1>4, <1>5, <1>6, <1>7 DEF Next, Handler

\* announceResolution: whatever throws or dies between a row write and its publication, subscribers
\* were last told the row's phase as soon as every log that has written the row is handled.
THEOREM SubscribersAreCurrent == Spec => []AnnouncedIsStored
<1>1. AnnounceInv => AnnouncedIsStored
  <2> SUFFICES ASSUME AnnounceInv PROVE AnnouncedIsStored
    OBVIOUS
  <2>1. next = written => ~ \E v \in (next + 1)..written : Announces(log[v])
    BY DEF AnnounceInv, TypeOK
  <2> QED BY <2>1 DEF AnnounceInv, Told, AnnouncedIsStored
<1> QED BY <1>1, AnnounceStarts, AnnounceStep, PTL DEF Spec

-----------------------------------------------------------------------------
(***************************************************************************)
(* The row is current.  A handler writes each column with a value of its   *)
(* log or leaves it alone, whatever the row was.  So a column is right as  *)
(* soon as the last log that writes it is applied, and stays right when    *)
(* older logs are applied again, if that log writes what the resolver now  *)
(* holds: the invariant says this of every column.                         *)
(***************************************************************************)
Columns ==
    {"phase", "proposer", "proposedOutcome", "proposerBonded", "disputer", "counterOutcome", "route",
     "settledOutcome", "forfeited", "loser", "settledAt"}

Stores(l, k, v) == \A r \in RowType : Handle(r, l)[k] = v
Keeps(l, k)     == \A r \in RowType : Handle(r, l)[k] = r[k]

\* Logs whose row write has landed since the tick began; the last one may still be announced.
Landed == IF handler.at = "write" THEN next ELSE next + 1

\* The last log that writes column k writes what the resolver holds; once it has, the row has it.
ColumnCurrent(k) ==
    \E w \in 1..Len(log) :
        /\ Stores(log[w], k, Mirror[k])
        /\ \A v \in (w + 1)..Len(log) : Keeps(log[v], k)
        /\ Landed >= w => row[k] = Mirror[k]

\* What the resolver has cleared, and has not set yet.
StageInv ==
    /\ stage = "NONE" => proposal = NoProposal
    /\ stage \in {"NONE", "PROPOSED"} => dispute = NoDispute
    /\ stage # "SETTLED" => ruling = NoRuling
    /\ stage # "NONE" => log # <<>>

RowInv ==
    /\ TypeOK /\ StageInv
    /\ log = <<>> => row = Null
    /\ log # <<>> => log[1].type = "Proposed" /\ \A k \in Columns : ColumnCurrent(k)
    /\ Landed > 0 => row # Null

\* A row has the table's columns, and is determined by them.
LEMMA RowColumns ==
    ASSUME NEW r \in RowType
    PROVE  DOMAIN r = Columns
BY DEF RowType, Columns

\* onProposed: every column is written.
LEMMA ProposedStores ==
    ASSUME NEW l \in LogTypes, l.type = "Proposed", NEW k \in Columns
    PROVE  Stores(l, k, OnProposed(Null, l)[k])
BY DEF Stores, Handle, OnProposed

\* onDisputed.
LEMMA DisputedStores ==
    ASSUME NEW l \in LogTypes, l.type = "Disputed"
    PROVE  /\ Stores(l, "phase", "DISPUTED") /\ Stores(l, "disputer", l.disputer)
           /\ Stores(l, "counterOutcome", OutcomeOrVoid(l.outcome))
           /\ \A k \in Columns \ {"phase", "disputer", "counterOutcome"} : Keeps(l, k)
<1>1. ASSUME NEW r \in RowType PROVE Handle(r, l) = OnDisputed(r, l) /\ DOMAIN r = Columns
  BY NullAssumption, RowColumns DEF Handle
<1> QED BY <1>1 DEF Stores, Keeps, OnDisputed, Columns

\* onFinalized.
LEMMA FinalizedStores ==
    ASSUME NEW l \in LogTypes, l.type = "Finalized"
    PROVE  /\ Stores(l, "phase", "SETTLED") /\ Stores(l, "route", "FINALIZED")
           /\ Stores(l, "settledOutcome", OutcomeOrVoid(l.outcome)) /\ Stores(l, "settledAt", TRUE)
           /\ \A k \in Columns \ {"phase", "route", "settledOutcome", "settledAt"} : Keeps(l, k)
<1>1. ASSUME NEW r \in RowType PROVE Handle(r, l) = OnFinalized(r, l) /\ DOMAIN r = Columns
  BY NullAssumption, RowColumns DEF Handle
<1> QED BY <1>1 DEF Stores, Keeps, OnFinalized, Columns

\* onArbitrated: settledAt is not written.
LEMMA ArbitratedStores ==
    ASSUME NEW l \in LogTypes, l.type = "Arbitrated"
    PROVE  /\ Stores(l, "phase", "SETTLED") /\ Stores(l, "route", "ARBITRATED")
           /\ Stores(l, "settledOutcome", OutcomeOrVoid(l.outcome))
           /\ Stores(l, "forfeited", l.loser # Null) /\ Stores(l, "loser", l.loser)
           /\ \A k \in Columns \ {"phase", "route", "settledOutcome", "forfeited", "loser"} : Keeps(l, k)
<1>1. ASSUME NEW r \in RowType PROVE Handle(r, l) = OnArbitrated(r, l) /\ DOMAIN r = Columns
  BY NullAssumption, RowColumns DEF Handle
<1>2. ASSUME NEW r, DOMAIN r = Columns
      PROVE  /\ OnArbitrated(r, l).phase = "SETTLED"
             /\ OnArbitrated(r, l).route = "ARBITRATED"
             /\ OnArbitrated(r, l).settledOutcome = OutcomeOrVoid(l.outcome)
             /\ OnArbitrated(r, l).forfeited = (l.loser # Null)
             /\ OnArbitrated(r, l).loser = l.loser
  BY <1>2 DEF OnArbitrated, Columns
<1>3. ASSUME NEW r, DOMAIN r = Columns,
             NEW k \in Columns \ {"phase", "route", "settledOutcome", "forfeited", "loser"}
      PROVE  OnArbitrated(r, l)[k] = r[k]
  BY <1>3 DEF OnArbitrated, Columns
<1> QED BY <1>1, <1>2, <1>3 DEF Stores, Keeps

\* onSlashed.
LEMMA SlashedStores ==
    ASSUME NEW l \in LogTypes, l.type = "Slashed"
    PROVE  /\ Stores(l, "loser", l.account) /\ Stores(l, "forfeited", TRUE) /\ Stores(l, "settledAt", TRUE)
           /\ \A k \in Columns \ {"loser", "forfeited", "settledAt"} : Keeps(l, k)
<1>1. ASSUME NEW r \in RowType PROVE Handle(r, l) = OnSlashed(r, l) /\ DOMAIN r = Columns
  BY NullAssumption, RowColumns DEF Handle
<1>2. ASSUME NEW r, DOMAIN r = Columns
      PROVE  /\ OnSlashed(r, l).loser = l.account
             /\ OnSlashed(r, l).forfeited = TRUE
             /\ OnSlashed(r, l).settledAt = TRUE
  BY <1>2 DEF OnSlashed, Columns
<1>3. ASSUME NEW r, DOMAIN r = Columns,
             NEW k \in Columns \ {"loser", "forfeited", "settledAt"}
      PROVE  OnSlashed(r, l)[k] = r[k]
  BY <1>3 DEF OnSlashed, Columns
<1> QED BY <1>1, <1>2, <1>3 DEF Stores, Keeps

\* onResolutionCleared: the attempt's columns go with its phase.
LEMMA ClearedStores ==
    ASSUME NEW l \in LogTypes, l.type \in {"ProposalAbandoned", "DisputeReset"}
    PROVE  /\ Stores(l, "phase", "NONE") /\ Stores(l, "proposer", Null) /\ Stores(l, "proposedOutcome", Null)
           /\ Stores(l, "proposerBonded", FALSE) /\ Stores(l, "disputer", Null)
           /\ Stores(l, "counterOutcome", Null)
           /\ \A k \in Columns \ {"phase", "proposer", "proposedOutcome", "proposerBonded", "disputer",
                                  "counterOutcome"} : Keeps(l, k)
<1>1. ASSUME NEW r \in RowType PROVE Handle(r, l) = OnResolutionCleared(r) /\ DOMAIN r = Columns
  BY NullAssumption, RowColumns DEF Handle
<1>2. ASSUME NEW r, DOMAIN r = Columns
      PROVE  /\ OnResolutionCleared(r).phase = "NONE"
             /\ OnResolutionCleared(r).proposer = Null
             /\ OnResolutionCleared(r).proposedOutcome = Null
             /\ OnResolutionCleared(r).proposerBonded = FALSE
             /\ OnResolutionCleared(r).disputer = Null
             /\ OnResolutionCleared(r).counterOutcome = Null
  BY <1>2 DEF OnResolutionCleared, Columns
<1>3. ASSUME NEW r, DOMAIN r = Columns,
             NEW k \in Columns \ {"phase", "proposer", "proposedOutcome", "proposerBonded", "disputer",
                               "counterOutcome"}
      PROVE  OnResolutionCleared(r)[k] = r[k]
  BY <1>3 DEF OnResolutionCleared, Columns
<1> QED BY <1>1, <1>2, <1>3 DEF Stores, Keeps

\* Logs that are emitted move the last write of a column they write, to a value the resolver now holds.
LEMMA ColumnEmitted ==
    ASSUME TypeOK, NEW k \in Columns, NEW s \in Seq(LogTypes), log' = log \o s, UNCHANGED <<next, handler, row>>,
           \/ ColumnCurrent(k) /\ Mirror'[k] = Mirror[k] /\ \A i \in 1..Len(s) : Keeps(s[i], k)
           \/ \E i \in 1..Len(s) : Stores(s[i], k, Mirror'[k]) /\ \A j \in (i + 1)..Len(s) : Keeps(s[j], k)
    PROVE  ColumnCurrent(k)'
<1>1. /\ Len(log) \in Nat /\ Len(s) \in Nat /\ Len(log') = Len(log) + Len(s)
      /\ Landed \in 0..Len(log) /\ Landed' = Landed
      /\ \A i \in 1..Len(log) : log'[i] = log[i]
      /\ \A i \in (Len(log) + 1)..(Len(log) + Len(s)) : log'[i] = s[i - Len(log)]
  BY DEF TypeOK, Landed
<1>2. CASE ColumnCurrent(k) /\ Mirror'[k] = Mirror[k] /\ \A i \in 1..Len(s) : Keeps(s[i], k)
  <2>1. PICK w \in 1..Len(log) :
          /\ Stores(log[w], k, Mirror[k])
          /\ \A v \in (w + 1)..Len(log) : Keeps(log[v], k)
          /\ Landed >= w => row[k] = Mirror[k]
    BY <1>2 DEF ColumnCurrent
  <2>2. w \in 1..Len(log') /\ Stores(log'[w], k, Mirror'[k]) /\ (Landed' >= w => row'[k] = Mirror'[k])
    BY <1>1, <1>2, <2>1
  <2>3. ASSUME NEW v \in (w + 1)..Len(log') PROVE Keeps(log'[v], k)
    <3>1. CASE v <= Len(log)
      BY <1>1, <2>1, <3>1
    <3>2. CASE v > Len(log)
      <4>1. log'[v] = s[v - Len(log)] /\ v - Len(log) \in 1..Len(s)
        BY <1>1, <3>2
      <4> QED BY <1>2, <4>1
    <3> QED BY <1>1, <3>1, <3>2
  <2> QED BY <2>2, <2>3 DEF ColumnCurrent, Stores, Keeps
<1>3. CASE \E i \in 1..Len(s) : Stores(s[i], k, Mirror'[k]) /\ \A j \in (i + 1)..Len(s) : Keeps(s[j], k)
  <2>1. PICK i \in 1..Len(s) : Stores(s[i], k, Mirror'[k]) /\ \A j \in (i + 1)..Len(s) : Keeps(s[j], k)
    BY <1>3
  <2> DEFINE w == Len(log) + i
  <2>2. w \in 1..Len(log') /\ log'[w] = s[i] /\ ~(Landed' >= w)
    BY <1>1
  <2>3. ASSUME NEW v \in (w + 1)..Len(log') PROVE Keeps(log'[v], k)
    <3>1. log'[v] = s[v - Len(log)] /\ v - Len(log) \in (i + 1)..Len(s)
      BY <1>1
    <3> QED BY <2>1, <3>1
  <2> HIDE DEF w
  <2> QED BY <2>1, <2>2, <2>3 DEF ColumnCurrent, Stores, Keeps
<1> QED BY <1>2, <1>3

\* ... for one log.
LEMMA ColumnAfterLog ==
    ASSUME TypeOK, NEW k \in Columns, NEW l \in LogTypes, log' = log \o <<l>>, UNCHANGED <<next, handler, row>>,
           (ColumnCurrent(k) /\ Mirror'[k] = Mirror[k] /\ Keeps(l, k)) \/ Stores(l, k, Mirror'[k])
    PROVE  ColumnCurrent(k)'
<1> DEFINE s == <<l>>
<1>1. s \in Seq(LogTypes) /\ Len(s) = 1 /\ s[1] = l
  BY ShortSeq
<1> HIDE DEF s
<1>2. log' = log \o s
  BY DEF s
<1>3. CASE ColumnCurrent(k) /\ Mirror'[k] = Mirror[k] /\ Keeps(l, k)
  <2>1. \A i \in 1..Len(s) : Keeps(s[i], k)
    BY <1>1, <1>3
  <2> QED BY <1>1, <1>2, <1>3, <2>1, ColumnEmitted
<1>4. CASE Stores(l, k, Mirror'[k])
  <2>1. 1 \in 1..Len(s) /\ Stores(s[1], k, Mirror'[k]) /\ \A j \in (1 + 1)..Len(s) : Keeps(s[j], k)
    BY <1>1, <1>4
  <2> QED BY <1>1, <1>2, <2>1, ColumnEmitted
<1> QED BY <1>3, <1>4

\* ... for two logs of one transaction.
LEMMA ColumnAfterLogs ==
    ASSUME TypeOK, NEW k \in Columns, NEW a \in LogTypes, NEW b \in LogTypes, log' = log \o <<a, b>>,
           UNCHANGED <<next, handler, row>>,
           \/ ColumnCurrent(k) /\ Mirror'[k] = Mirror[k] /\ Keeps(a, k) /\ Keeps(b, k)
           \/ Stores(a, k, Mirror'[k]) /\ (Keeps(b, k) \/ Stores(b, k, Mirror'[k]))
           \/ Stores(b, k, Mirror'[k])
    PROVE  ColumnCurrent(k)'
<1> DEFINE s == <<a, b>>
<1>1. s \in Seq(LogTypes) /\ Len(s) = 2 /\ s[1] = a /\ s[2] = b
  BY ShortSeq
<1> HIDE DEF s
<1>2. log' = log \o s
  BY DEF s
<1>3. CASE ColumnCurrent(k) /\ Mirror'[k] = Mirror[k] /\ Keeps(a, k) /\ Keeps(b, k)
  <2>1. \A i \in 1..Len(s) : Keeps(s[i], k)
    BY <1>1, <1>3
  <2> QED BY <1>1, <1>2, <1>3, <2>1, ColumnEmitted
<1>4. CASE Stores(b, k, Mirror'[k])
  <2>1. 2 \in 1..Len(s) /\ Stores(s[2], k, Mirror'[k]) /\ \A j \in (2 + 1)..Len(s) : Keeps(s[j], k)
    BY <1>1, <1>4
  <2> QED BY <1>1, <1>2, <2>1, ColumnEmitted
<1>5. CASE Stores(a, k, Mirror'[k]) /\ Keeps(b, k)
  <2>1. 1 \in 1..Len(s) /\ Stores(s[1], k, Mirror'[k]) /\ \A j \in (1 + 1)..Len(s) : Keeps(s[j], k)
    BY <1>1, <1>5
  <2> QED BY <1>1, <1>2, <2>1, ColumnEmitted
<1> QED BY <1>3, <1>4, <1>5

\* A column whose part of the resolver's state a step leaves alone.
LEMMA ColumnStands ==
    ASSUME NEW k \in Columns
    PROVE  /\ k \in {"proposer", "proposedOutcome", "proposerBonded"} /\ UNCHANGED proposal => Mirror'[k] = Mirror[k]
           /\ k \in {"disputer", "counterOutcome"} /\ UNCHANGED dispute => Mirror'[k] = Mirror[k]
           /\ k \in {"route", "settledOutcome", "forfeited", "loser", "settledAt"} /\ UNCHANGED ruling
                 => Mirror'[k] = Mirror[k]
           /\ k \in {"forfeited", "loser"} /\ ruling'.loser = ruling.loser => Mirror'[k] = Mirror[k]
<1>1. UNCHANGED proposal => /\ Mirror'.proposer = Mirror.proposer
                            /\ Mirror'.proposedOutcome = Mirror.proposedOutcome
                            /\ Mirror'.proposerBonded = Mirror.proposerBonded
  BY DEF Mirror
<1>2. UNCHANGED dispute => Mirror'.disputer = Mirror.disputer /\ Mirror'.counterOutcome = Mirror.counterOutcome
  BY DEF Mirror
<1>3. UNCHANGED ruling => /\ Mirror'.route = Mirror.route /\ Mirror'.settledOutcome = Mirror.settledOutcome
                          /\ Mirror'.forfeited = Mirror.forfeited /\ Mirror'.loser = Mirror.loser
                          /\ Mirror'.settledAt = Mirror.settledAt
  BY DEF Mirror
<1>4. ruling'.loser = ruling.loser => Mirror'.forfeited = Mirror.forfeited /\ Mirror'.loser = Mirror.loser
  BY DEF Mirror
<1> QED BY <1>1, <1>2, <1>3, <1>4

\* Propose: every column is written, the dispute's and the settlement's with NULL.
LEMMA ProposeCurrent ==
    ASSUME RowInv, Propose, UNCHANGED <<next, handler, row>>, NEW k \in Columns
    PROVE  ColumnCurrent(k)'
<1>1. PICK p \in Parties, o \in Claims, b \in BOOLEAN :
        /\ proposal' = [proposer |-> p, outcome |-> o, bonded |-> b]
        /\ Emit(<<[type |-> "Proposed", proposer |-> p, outcome |-> o, bonded |-> b]>>)
  BY DEF Propose
<1> DEFINE l == [type |-> "Proposed", proposer |-> p, outcome |-> o, bonded |-> b]
<1>2. l \in LogTypes /\ l.type = "Proposed" /\ l.proposer = p /\ l.outcome = o /\ l.bonded = b
  BY DEF LogTypes
<1>3. log' = log \o <<l>>
  BY <1>1 DEF Emit
<1> HIDE DEF l
<1>4. stage' = "PROPOSED" /\ dispute' = NoDispute /\ ruling' = NoRuling
  BY DEF Propose, RowInv, StageInv
<1>5. Mirror'[k] = OnProposed(Null, l)[k]
  BY <1>1, <1>2, <1>4, NullAssumption DEF Mirror, OnProposed, NoDispute, NoRuling, OutcomeOrVoid, Columns
<1>6. Stores(l, k, Mirror'[k])
  BY <1>2, <1>5, ProposedStores
<1> QED BY <1>2, <1>3, <1>6, ColumnAfterLog DEF RowInv

\* Dispute: the dispute's columns and the phase are written, the others stand.
LEMMA DisputeCurrent ==
    ASSUME RowInv, Dispute, UNCHANGED <<next, handler, row>>, NEW k \in Columns
    PROVE  ColumnCurrent(k)'
<1>1. PICK d \in Parties, o \in Claims :
        /\ dispute' = [disputer |-> d, outcome |-> o]
        /\ Emit(<<[type |-> "Disputed", disputer |-> d, outcome |-> o]>>)
  BY DEF Dispute
<1> DEFINE l == [type |-> "Disputed", disputer |-> d, outcome |-> o]
<1>2. l \in LogTypes /\ l.type = "Disputed" /\ l.disputer = d /\ l.outcome = o
  BY DEF LogTypes
<1>3. log' = log \o <<l>>
  BY <1>1 DEF Emit
<1> HIDE DEF l
<1>4. stage' = "DISPUTED" /\ UNCHANGED <<proposal, ruling>> /\ ColumnCurrent(k)
  BY DEF Dispute, RowInv, StageInv
<1>5. CASE k \in {"phase", "disputer", "counterOutcome"}
  <2>1. Stores(l, k, Mirror'[k])
    BY <1>1, <1>2, <1>4, <1>5, DisputedStores DEF Mirror
  <2> QED BY <1>2, <1>3, <2>1, ColumnAfterLog DEF RowInv
<1>6. CASE k \notin {"phase", "disputer", "counterOutcome"}
  <2>1. Mirror'[k] = Mirror[k] /\ Keeps(l, k)
    BY <1>2, <1>4, <1>6, DisputedStores DEF Mirror, Columns
  <2> QED BY <1>2, <1>3, <1>4, <2>1, ColumnAfterLog DEF RowInv
<1> QED BY <1>5, <1>6

\* Finalize: the settlement's columns and the phase are written; nobody has lost.
LEMMA FinalizeCurrent ==
    ASSUME RowInv, Finalize, UNCHANGED <<next, handler, row>>, NEW k \in Columns
    PROVE  ColumnCurrent(k)'
<1> DEFINE l == [type |-> "Finalized", outcome |-> proposal.outcome]
<1>1. l \in LogTypes /\ l.type = "Finalized" /\ l.outcome = proposal.outcome
  BY DEF LogTypes, RowInv, TypeOK, Finalize
<1>2. log' = log \o <<l>>
  BY DEF Emit, Finalize
<1> HIDE DEF l
<1>3. /\ ruling' = [route |-> "FINALIZED", outcome |-> proposal.outcome, loser |-> Null]
      /\ ruling = NoRuling /\ stage' = "SETTLED" /\ UNCHANGED <<proposal, dispute>> /\ ColumnCurrent(k)
  BY DEF Finalize, RowInv, StageInv
<1>4. CASE k \in {"phase", "route", "settledOutcome", "settledAt"}
  <2>0. /\ Mirror'.phase = "SETTLED" /\ Mirror'.route = "FINALIZED"
        /\ Mirror'.settledOutcome = OutcomeOrVoid(proposal.outcome) /\ Mirror'.settledAt = TRUE
    BY <1>3 DEF Mirror
  <2>1. Stores(l, k, Mirror'[k])
    BY <1>1, <1>4, <2>0, FinalizedStores
  <2> QED BY <1>1, <1>2, <2>1, ColumnAfterLog DEF RowInv
<1>5. CASE k \notin {"phase", "route", "settledOutcome", "settledAt"}
  <2>1. Mirror'[k] = Mirror[k] /\ Keeps(l, k)
    BY <1>1, <1>3, <1>5, ColumnStands, FinalizedStores DEF Columns, NoRuling
  <2> QED BY <1>1, <1>2, <1>3, <2>1, ColumnAfterLog DEF RowInv
<1> QED BY <1>4, <1>5

\* Unwind: the attempt's columns are cleared with its phase; there is no settlement to clear.
LEMMA UnwindCurrent ==
    ASSUME RowInv, Unwind, UNCHANGED <<next, handler, row>>, NEW k \in Columns
    PROVE  ColumnCurrent(k)'
<1>1. PICK l \in LogTypes : l.type \in {"ProposalAbandoned", "DisputeReset"} /\ log' = log \o <<l>>
  <2>1. [type |-> "ProposalAbandoned"] \in LogTypes /\ [type |-> "DisputeReset"] \in LogTypes
    BY DEF LogTypes
  <2> QED BY <2>1 DEF Unwind, Emit
<1>2. /\ proposal' = NoProposal /\ dispute' = NoDispute /\ stage' = "NONE" /\ UNCHANGED ruling
      /\ ColumnCurrent(k)
  BY DEF Unwind, RowInv, StageInv
<1> DEFINE cleared == {"phase", "proposer", "proposedOutcome", "proposerBonded", "disputer", "counterOutcome"}
<1>3. CASE k \in cleared
  <2>0. /\ Mirror'.phase = "NONE" /\ Mirror'.proposer = Null /\ Mirror'.proposedOutcome = Null
        /\ Mirror'.proposerBonded = FALSE /\ Mirror'.disputer = Null /\ Mirror'.counterOutcome = Null
    BY <1>2 DEF Mirror, NoProposal, NoDispute, OutcomeOrVoid
  <2>1. Stores(l, k, Mirror'[k])
    BY <1>1, <1>3, <2>0, ClearedStores
  <2> QED BY <1>1, <2>1, ColumnAfterLog DEF RowInv
<1>4. CASE k \notin cleared
  <2>1. Mirror'[k] = Mirror[k] /\ Keeps(l, k)
    BY <1>1, <1>2, <1>4, ColumnStands, ClearedStores DEF Columns
  <2> QED BY <1>1, <1>2, <2>1, ColumnAfterLog DEF RowInv
<1> QED BY <1>3, <1>4

\* Arbitrate: the award and, in either order, the slashing of whoever lost.  With no loser nobody
\* writes settledAt, and none is expected.
LEMMA ArbitrateCurrent ==
    ASSUME RowInv, Arbitrate, UNCHANGED <<next, handler, row>>, NEW k \in Columns
    PROVE  ColumnCurrent(k)'
<1>1. PICK award \in LogTypes, loser \in Parties \cup {Null} :
        /\ award.type = "Arbitrated" /\ award.loser = loser
        /\ ruling' = [route |-> "ARBITRATED", outcome |-> award.outcome, loser |-> loser]
        /\ LET slash == [type |-> "Slashed", account |-> loser]
           IN  \/ loser = Null /\ log' = log \o <<award>>
               \/ loser # Null /\ (log' = log \o <<award, slash>> \/ log' = log \o <<slash, award>>)
  <2>1. proposal \in [proposer : Parties, outcome : Claims, bonded : BOOLEAN]
        /\ dispute \in [disputer : Parties, outcome : Claims]
    BY DEF Arbitrate, RowInv, TypeOK
  <2>2. PICK upheld \in BOOLEAN :
          LET outcome == IF upheld THEN proposal.outcome ELSE dispute.outcome
              loser   == IF upheld THEN dispute.disputer
                         ELSE IF proposal.bonded THEN proposal.proposer ELSE Null
              award   == [type |-> "Arbitrated", outcome |-> outcome, loser |-> loser]
              slash   == [type |-> "Slashed", account |-> loser]
          IN  /\ ruling' = [route |-> "ARBITRATED", outcome |-> outcome, loser |-> loser]
              /\ IF loser = Null THEN Emit(<<award>>)
                 ELSE Emit(<<award, slash>>) \/ Emit(<<slash, award>>)
    BY DEF Arbitrate
  <2> DEFINE outcome == IF upheld THEN proposal.outcome ELSE dispute.outcome
             loser   == IF upheld THEN dispute.disputer
                        ELSE IF proposal.bonded THEN proposal.proposer ELSE Null
             award   == [type |-> "Arbitrated", outcome |-> outcome, loser |-> loser]
             slash   == [type |-> "Slashed", account |-> loser]
  <2>3. outcome \in Claims /\ loser \in Parties \cup {Null}
    BY <2>1
  <2>4. /\ ruling' = [route |-> "ARBITRATED", outcome |-> outcome, loser |-> loser]
        /\ IF loser = Null THEN Emit(<<award>>) ELSE Emit(<<award, slash>>) \/ Emit(<<slash, award>>)
    BY <2>2
  <2> HIDE DEF outcome, loser
  <2>5. award \in LogTypes /\ award.type = "Arbitrated" /\ award.loser = loser /\ award.outcome = outcome
    BY <2>3 DEF LogTypes
  <2> HIDE DEF award
  <2> QED BY <2>3, <2>4, <2>5 DEF Emit
<1> DEFINE slash == [type |-> "Slashed", account |-> loser]
<1>7. loser # Null => slash \in LogTypes /\ slash.type = "Slashed" /\ slash.account = loser
  BY DEF LogTypes
<1>8. \/ loser = Null /\ log' = log \o <<award>>
      \/ loser # Null /\ (log' = log \o <<award, slash>> \/ log' = log \o <<slash, award>>)
  BY <1>1
<1> HIDE DEF slash
<1>2. /\ ruling = NoRuling /\ stage' = "SETTLED" /\ UNCHANGED <<proposal, dispute>> /\ ColumnCurrent(k)
      /\ TypeOK
  BY DEF Arbitrate, RowInv, StageInv
<1>3. /\ Mirror'.phase = "SETTLED" /\ Mirror'.route = "ARBITRATED"
      /\ Mirror'.settledOutcome = OutcomeOrVoid(award.outcome)
      /\ Mirror'.forfeited = (loser # Null) /\ Mirror'.loser = loser
      /\ Mirror'.settledAt = (loser # Null) /\ Mirror.settledAt = FALSE
  BY <1>1, <1>2, NullAssumption DEF Mirror, NoRuling
<1> DEFINE awarded == {"phase", "route", "settledOutcome", "forfeited", "loser"}
<1>4. CASE k \in awarded
  <2>1. Stores(award, k, Mirror'[k])
    BY <1>1, <1>7, <1>8, <1>3, <1>4, ArbitratedStores
  <2>2. loser # Null => Keeps(slash, k) \/ Stores(slash, k, Mirror'[k])
    <3>1. CASE k \in {"forfeited", "loser"}
      BY <1>1, <1>7, <1>8, <1>3, <3>1, SlashedStores
    <3>2. CASE k \notin {"forfeited", "loser"}
      BY <1>1, <1>7, <1>8, <1>4, <3>2, SlashedStores
    <3> QED BY <3>1, <3>2
  <2>3. CASE loser = Null
    BY <1>1, <1>7, <1>8, <1>2, <2>1, <2>3, ColumnAfterLog
  <2>4. CASE loser # Null /\ log' = log \o <<award, slash>>
    BY <1>1, <1>7, <1>8, <1>2, <2>1, <2>2, <2>4, ColumnAfterLogs
  <2>5. CASE loser # Null /\ log' = log \o <<slash, award>>
    BY <1>1, <1>7, <1>8, <1>2, <2>1, <2>5, ColumnAfterLogs
  <2> QED BY <1>1, <1>7, <1>8, <2>3, <2>4, <2>5
<1>5. CASE k = "settledAt"
  <2>1. Keeps(award, k)
    <3>1. k \in Columns \ awarded
      BY <1>5
    <3> QED BY <1>1, <3>1, ArbitratedStores
  <2>2. CASE loser = Null
    <3>1. Mirror'[k] = Mirror[k]
      BY <1>3, <1>5, <2>2
    <3> QED BY <1>1, <1>7, <1>8, <1>2, <2>1, <2>2, <3>1, ColumnAfterLog
  <2>3. loser # Null => Stores(slash, k, Mirror'[k])
    BY <1>1, <1>7, <1>8, <1>3, <1>5, SlashedStores
  <2>4. CASE loser # Null /\ log' = log \o <<award, slash>>
    BY <1>1, <1>7, <1>8, <1>2, <2>1, <2>3, <2>4, ColumnAfterLogs
  <2>5. CASE loser # Null /\ log' = log \o <<slash, award>>
    BY <1>1, <1>7, <1>8, <1>2, <2>1, <2>3, <2>5, ColumnAfterLogs
  <2> QED BY <1>1, <1>7, <1>8, <2>2, <2>4, <2>5
<1>6. CASE k \notin awarded \cup {"settledAt"}
  <2>1. Mirror'[k] = Mirror[k] /\ Keeps(award, k) /\ (loser # Null => Keeps(slash, k))
    BY <1>1, <1>7, <1>8, <1>2, <1>6, ColumnStands, ArbitratedStores, SlashedStores DEF Columns
  <2>2. CASE loser = Null
    BY <1>1, <1>7, <1>8, <1>2, <2>1, <2>2, ColumnAfterLog
  <2>4. CASE loser # Null /\ log' = log \o <<award, slash>>
    BY <1>1, <1>7, <1>8, <1>2, <2>1, <2>4, ColumnAfterLogs
  <2>5. CASE loser # Null /\ log' = log \o <<slash, award>>
    BY <1>1, <1>7, <1>8, <1>2, <2>1, <2>5, ColumnAfterLogs
  <2> QED BY <1>1, <1>7, <1>8, <2>2, <2>4, <2>5
<1> QED BY <1>4, <1>5, <1>6

\* The first log makes a row, whatever is handled first; later ones find it.
LEMMA WrittenRow ==
    ASSUME RowInv, WriteRow
    PROVE  /\ row' \in RowType
           /\ \E r \in RowType : (row # Null => r = row) /\ row' = Handle(r, log[next + 1])
<1>1. next \in Nat /\ next + 1 \in 1..Len(log) /\ log[next + 1] \in LogTypes
      /\ row \in RowType \cup {Null} /\ log # <<>> /\ row' = Handle(row, log[next + 1])
  BY DEF RowInv, TypeOK, WriteRow
<1>2. CASE row # Null
  <2>1. row \in RowType
    BY <1>1, <1>2
  <2> QED BY <1>1, <1>2, <2>1, HandledRow
<1>3. CASE row = Null
  <2>1. log[next + 1].type = "Proposed"
    BY <1>1, <1>3 DEF RowInv, WriteRow, Landed
  <2>2. Handle(Null, log[next + 1]) # Null
    <3>1. Handle(Null, log[next + 1]).phase = "PROPOSED" /\ OnProposed(Null, log[next + 1]) \in RowType
      <4>1. OutcomeOrVoid(log[next + 1].outcome) \in OptionalOutcome
        BY <1>1, <2>1, LogFields, OutcomeColumn
      <4> QED BY <1>1, <2>1, <4>1, LogFields DEF Handle, OnProposed, RowType, Phases, OptionalOutcome
    <3> QED BY <2>1, <3>1, NullAssumption DEF Handle
  <2>3. row' \in RowType
    BY <1>1, <1>3, <2>2, HandledRow
  <2>4. row' = Handle(row', log[next + 1])
    BY <1>1, <1>3, <2>1 DEF Handle, OnProposed
  <2> QED BY <1>3, <2>3, <2>4
<1> QED BY <1>2, <1>3

\* The next log's row lands: the last write of a column makes it right, and no later log spoils it.
LEMMA WriteRowCurrent ==
    ASSUME RowInv, WriteRow, NEW k \in Columns, ColumnCurrent(k)
    PROVE  ColumnCurrent(k)'
<1>1. PICK r \in RowType : (row # Null => r = row) /\ row' = Handle(r, log[next + 1])
  BY WrittenRow
<1>2. /\ next \in Nat /\ next + 1 \in 1..Len(log) /\ log' = log /\ Mirror' = Mirror
      /\ Len(log) \in Nat /\ Landed = next /\ Landed' = next + 1
  <2>1. /\ handler \in [at : {"write", "drop", "read", "publish"}, read : Phases]
        /\ handler.at = "write" /\ next \in Nat /\ next + 1 \in 1..Len(log) /\ Len(log) \in Nat
        /\ UNCHANGED <<stage, proposal, dispute, ruling, log>>
    BY DEF RowInv, TypeOK, WriteRow, chainVars
  <2>2. \/ handler' = [handler EXCEPT !.at = "drop"] /\ next' = next
        \/ next' = next + 1 /\ handler' = handler
    BY DEF WriteRow
  <2> QED BY <2>1, <2>2 DEF Landed, Mirror
<1>3. PICK w \in 1..Len(log) :
        /\ Stores(log[w], k, Mirror[k])
        /\ \A v \in (w + 1)..Len(log) : Keeps(log[v], k)
        /\ Landed >= w => row[k] = Mirror[k]
  BY DEF ColumnCurrent
<1>4. ASSUME Landed' >= w PROVE row'[k] = Mirror[k]
  <2>1. CASE next + 1 = w
    BY <1>1, <1>3, <2>1 DEF Stores
  <2>2. CASE next + 1 > w
    <3>1. row # Null /\ Landed >= w /\ next + 1 \in (w + 1)..Len(log)
      BY <1>2, <1>3, <2>2 DEF RowInv
    <3> QED BY <1>1, <1>3, <3>1 DEF Keeps
  <2> QED BY <1>2, <1>4, <2>1, <2>2
<1> QED BY <1>2, <1>3, <1>4 DEF ColumnCurrent, Stores, Keeps

\* A row is its columns.
LEMMA RowsEqual ==
    ASSUME NEW r \in RowType, \A k \in Columns : r[k] = Mirror[k]
    PROVE  r = Mirror
<1>1. r = [k \in Columns |-> r[k]]
  BY DEF RowType, Columns
<1>2. Mirror = [k \in Columns |-> Mirror[k]]
  BY DEF Mirror, Columns
<1> QED BY <1>1, <1>2

\* The resolver's step: what is emitted is what the resolver then holds.
LEMMA ResolverCurrent ==
    ASSUME RowInv, Resolver, TypeOK'
    PROVE  RowInv'
<1>1. UNCHANGED <<next, handler, row>>
  BY DEF Resolver, mirrorVars
<1>2. log' # <<>> /\ log'[1].type = "Proposed"
  <2>1. PICK x, y : /\ log' = log \o <<x>> \/ log' = log \o <<x, y>>
                    /\ stage = "NONE" => log' = log \o <<x>> /\ x.type = "Proposed"
    BY Emissions
  <2>2. log \in Seq(LogTypes)
    BY DEF RowInv, TypeOK
  <2>3. CASE log = <<>>
    <3>1. log' = <<x>> /\ x.type = "Proposed"
      BY <2>1, <2>3 DEF RowInv, StageInv
    <3> QED BY <3>1
  <2>4. CASE log # <<>>
    <3> DEFINE more == IF log' = log \o <<x>> THEN <<x>> ELSE <<x, y>>
    <3>0. Len(more) \in Nat /\ more \in Seq({x, y})
      <4>1. <<x>> \in Seq({x, y}) /\ <<x, y>> \in Seq({x, y})
        OBVIOUS
      <4>2. more \in Seq({x, y})
        BY <4>1
      <4> HIDE DEF more
      <4> QED BY <4>2
    <3>1. Len(more) \in Nat /\ log' = log \o more /\ more \in Seq({x, y})
      BY <2>1, <3>0
    <3> HIDE DEF more
    <3>2. Len(log') = Len(log) + Len(more) /\ log'[1] = log[1]
      BY <2>2, <2>4, <3>1
    <3> QED BY <2>2, <2>4, <3>1, <3>2 DEF RowInv
  <2> QED BY <2>3, <2>4
<1>5. StageInv'
  BY <1>2 DEF Resolver, Propose, Dispute, Finalize, Arbitrate, Unwind, RowInv, StageInv
<1>3. \A k \in Columns : ColumnCurrent(k)'
  BY <1>1, ProposeCurrent, DisputeCurrent, FinalizeCurrent, ArbitrateCurrent, UnwindCurrent DEF Resolver
<1>4. Landed' > 0 => row' # Null
  BY <1>1 DEF RowInv, Landed
<1> QED BY <1>2, <1>3, <1>4, <1>5 DEF RowInv

\* At the start there is neither row nor log.
LEMMA RowStarts == Init => RowInv
<1> SUFFICES ASSUME Init PROVE RowInv
  OBVIOUS
<1>1. TypeOK
  BY TypeStarts
<1> QED BY <1>1 DEF Init, Idle, RowInv, StageInv, Landed

\* Whatever the resolver emits and the indexer applies, commits and applies again, every column is
\* right from the last log that writes it on.
LEMMA RowStep == RowInv /\ [Next]_vars => RowInv'
<1> SUFFICES ASSUME RowInv, [Next]_vars PROVE RowInv'
  OBVIOUS
<1>0. TypeOK'
  BY TypeStep DEF RowInv
<1>1. CASE Resolver
  BY <1>0, <1>1, ResolverCurrent
<1>2. CASE WriteRow
  <2>1. row' # Null
    BY <1>2, WrittenRow, NullAssumption
  <2>2. UNCHANGED <<stage, proposal, dispute, ruling, log>> /\ log # <<>>
    BY <1>2 DEF WriteRow, chainVars, RowInv, TypeOK
  <2>3. \A k \in Columns : ColumnCurrent(k)'
    BY <1>2, <2>2, WriteRowCurrent DEF RowInv
  <2> QED BY <1>0, <2>1, <2>2, <2>3 DEF RowInv, StageInv
<1>3. CASE DropViews \/ ReadBack \/ Publish \/ Commit \/ Replay \/ UNCHANGED vars
  <2>1. UNCHANGED <<stage, proposal, dispute, ruling, log, row>>
    BY <1>3 DEF DropViews, ReadBack, Publish, Commit, Replay, vars, chainVars, mirrorVars
  <2>2. Landed' \in Nat /\ Landed \in Nat /\ Landed' <= Landed
    <3>1. /\ handler \in [at : {"write", "drop", "read", "publish"}, read : Phases]
          /\ next \in Nat /\ cursor \in 0..next
      BY DEF RowInv, TypeOK
    <3>2. CASE DropViews \/ ReadBack \/ Commit \/ UNCHANGED vars
      BY <3>1, <3>2 DEF DropViews, ReadBack, Commit, vars, mirrorVars, Landed
    <3>3. CASE Publish \/ Replay
      BY <3>1, <3>3 DEF Publish, Replay, Landed, Idle
    <3> QED BY <1>3, <3>2, <3>3
  <2>3. StageInv'
    BY <2>1 DEF StageInv, RowInv
  <2>4. ASSUME NEW k \in Columns, ColumnCurrent(k) PROVE ColumnCurrent(k)'
    <3>1. Mirror' = Mirror
      BY <2>1 DEF Mirror
    <3> QED BY <2>1, <2>2, <2>4, <3>1 DEF ColumnCurrent, Stores, Keeps
  <2>5. Landed' > 0 => row' # Null
    BY <2>1, <2>2 DEF RowInv
  <2> QED BY <1>0, <2>1, <2>3, <2>4, <2>5 DEF RowInv
<1> QED BY <1>1, <1>2, <1>3 DEF Next, Handler

\* With every log applied, every column's last write is.
LEMMA RowCurrent == RowInv => RowIsCurrent
<1> SUFFICES ASSUME RowInv, next = Len(log), log # <<>> PROVE row # Null /\ row = Mirror
  BY DEF RowIsCurrent, RowInv
<1>1. log \in Seq(LogTypes) /\ row \in RowType \cup {Null}
  BY DEF RowInv, TypeOK
<1>2. Len(log) \in Nat /\ Len(log) > 0 /\ Landed = Len(log)
  BY <1>1 DEF RowInv, TypeOK, Landed
<1>3. row # Null /\ row \in RowType
  BY <1>1, <1>2 DEF RowInv
<1>4. \A k \in Columns : row[k] = Mirror[k]
  BY <1>2 DEF RowInv, ColumnCurrent
<1>5. row = Mirror
  BY <1>3, <1>4, RowsEqual
<1> QED BY <1>3, <1>5

\* resolution_proposals: with every log applied the row describes the resolver's current proposal,
\* after any number of unwound attempts and of ticks replayed halfway.
THEOREM RowsAreCurrent == Spec => []RowIsCurrent
BY RowStarts, RowStep, RowCurrent, PTL DEF Spec
-----------------------------------------------------------------------------
(***************************************************************************)
(* TradeLedger: sums over the accounts and over the outcomes, and the      *)
(* arithmetic of the rows.                                                 *)
(***************************************************************************)
\* There are finitely many outcomes, at least two.
LEMMA OutcomesFinite == IsFiniteSet(Outcomes) /\ 0 \in Outcomes /\ 1 \in Outcomes
<1>1. IsFiniteSet(0..(OutcomeCount - 1))
  BY FS_Interval, LedgerAssumption
<1> QED  BY <1>1, LedgerAssumption DEF Outcomes

\* A sum of integers is an integer.
LEMMA TotalIsInteger ==
    ASSUME NEW S, IsFiniteSet(S), NEW f \in [S -> Int]
    PROVE  SumFunction(f) \in Int
BY SumType DEF SumFunction

\* A sum of naturals is one, and no less than any of them.
LEMMA TotalIsNatural ==
    ASSUME NEW S, IsFiniteSet(S), NEW f \in [S -> Nat]
    PROVE  SumFunction(f) \in Nat /\ \A x \in S : f[x] <= SumFunction(f)
BY SumBounds DEF SumFunction

\* A sum follows a change of one of its terms.
LEMMA TotalMoves ==
    ASSUME NEW S, IsFiniteSet(S), NEW f \in [S -> Int], NEW h \in [S -> Int],
           NEW x \in S, \A y \in S \ {x} : h[y] = f[y]
    PROVE  SumFunction(h) = SumFunction(f) + (h[x] - f[x])
BY SumUpdate DEF SumFunction

\* A sum of zeros but for one term is that term.
LEMMA TotalOfOne ==
    ASSUME NEW S, IsFiniteSet(S), NEW h \in [S -> Int],
           NEW x \in S, \A y \in S \ {x} : h[y] = 0
    PROVE  SumFunction(h) = h[x]
<1> DEFINE z == [y \in S |-> 0]
<1>1. SumFunctionOnSet(z, S) = 0 * Cardinality(S)
  BY SumConstant
<1>2. Cardinality(S) \in Nat
  BY FS_CardinalityType
<1>3. SumFunction(z) = 0
  BY <1>1, <1>2 DEF SumFunction
<1>4. SumFunction(h) = SumFunction(z) + (h[x] - z[x])
  BY TotalMoves, z \in [S -> Int]
<1> QED  BY <1>3, <1>4

\* A sum of zeros is zero.
LEMMA TotalOfZeros ==
    ASSUME NEW S, IsFiniteSet(S), NEW h \in [S -> Int], \A y \in S : h[y] = 0
    PROVE  SumFunction(h) = 0
<1>1. SumFunctionOnSet(h, S) = 0 * Cardinality(S)
  BY SumConstant
<1> QED  BY <1>1, FS_CardinalityType DEF SumFunction

\* The sum of a function that adds another term by term.
LEMMA TotalPlus ==
    ASSUME NEW S, IsFiniteSet(S), NEW f \in [S -> Int], NEW d \in [S -> Int], NEW h \in [S -> Int],
           \A x \in S : h[x] = f[x] + d[x]
    PROVE  SumFunction(h) = SumFunction(f) + SumFunction(d)
BY SumPlus DEF SumFunction

\* What is outstanding follows one account's balance.
LEMMA OutstandingMoves ==
    ASSUME NEW b \in [Accounts -> [Outcomes -> Nat]], NEW c \in [Accounts -> [Outcomes -> Nat]],
           NEW a \in Accounts, \A x \in Accounts \ {a} : c[x] = b[x], NEW o \in Outcomes
    PROVE  Outstanding(c, o) = Outstanding(b, o) + (c[a][o] - b[a][o])
<1> DEFINE f == [x \in Accounts |-> b[x][o]]
           h == [x \in Accounts |-> c[x][o]]
<1>1. f \in [Accounts -> Int] /\ h \in [Accounts -> Int]
  OBVIOUS
<1>2. SumFunction(h) = SumFunction(f) + (h[a] - f[a])
  <2>1. \A y \in Accounts \ {a} : h[y] = f[y]
    OBVIOUS
  <2>2. IsFiniteSet(Accounts)
    BY LedgerAssumption
  <2> HIDE DEF f, h
  <2> QED  BY <1>1, <2>1, <2>2, TotalMoves
<1>3. SumFunction(h) \in Int /\ SumFunction(f) \in Int
  BY <1>1, TotalIsInteger, LedgerAssumption
<1> HIDE DEF f, h
<1>4. h[a] = c[a][o] /\ f[a] = b[a][o]
  BY DEF f, h
<1>5. c[a][o] \in Int /\ b[a][o] \in Int /\ SeedPerOutcome \in Int
  BY LedgerAssumption
<1>6. Outstanding(c, o) = SeedPerOutcome + SumFunction(h) /\ Outstanding(b, o) = SeedPerOutcome + SumFunction(f)
  BY DEF Outstanding, f, h
<1> QED  BY <1>2, <1>3, <1>4, <1>5, <1>6

\* What is outstanding is the seed and more.
LEMMA OutstandingCoversSeed ==
    ASSUME NEW b \in [Accounts -> [Outcomes -> Nat]], NEW o \in Outcomes
    PROVE  Outstanding(b, o) \in Nat /\ SeedPerOutcome <= Outstanding(b, o)
<1>1. SumFunction([x \in Accounts |-> b[x][o]]) \in Nat
  BY TotalIsNatural, LedgerAssumption
<1> QED  BY <1>1, LedgerAssumption DEF Outstanding

-----------------------------------------------------------------------------
(* The rows of updatePosition.                                             *)

\* Dividing a product by one of its factors gives the other; by more than one of them, no more.
LEMMA Proportion ==
    ASSUME NEW cost \in Nat, NEW sold \in Nat, NEW held \in Nat, held > 0, sold <= held
    PROVE  /\ (cost * sold) \div held \in Nat
           /\ (cost * sold) \div held <= cost
           /\ sold = held => (cost * sold) \div held = cost
<1> DEFINE q == (cost * sold) \div held
           r == (cost * sold) % held
<1>1. cost * sold \in Nat /\ cost * held \in Nat
  OBVIOUS
<1>2. cost * sold <= cost * held
  <2>1. \A m, n, k \in Nat : m <= n => k * m <= k * n
    OBVIOUS
  <2> QED  BY <2>1
<1>3. q \in Int /\ r \in 0..(held - 1) /\ cost * sold = held * q + r
  BY <1>1
<1> HIDE DEF q, r
<1>4. q >= 0
  <2> SUFFICES ASSUME q < 0 PROVE FALSE
    BY <1>3
  <2>1. held * (q + 1) <= 0
    BY <1>3
  <2>2. held * q + held <= 0
    BY <2>1, <1>3
  <2> QED  BY <2>2, <1>1, <1>3
<1>5. q <= cost
  <2> SUFFICES ASSUME q >= cost + 1 PROVE FALSE
    BY <1>3
  <2>1. held * (q - cost - 1) >= 0
    BY <1>3
  <2>2. held * q >= held * cost + held
    BY <2>1, <1>3
  <2> QED  BY <2>2, <1>1, <1>2, <1>3
<1>6. ASSUME sold = held PROVE q = cost
  <2> SUFFICES ASSUME q + 1 <= cost PROVE FALSE
    BY <1>3, <1>5
  <2>1. held * (cost - q - 1) >= 0
    BY <1>3
  <2>2. held * cost >= held * q + held
    BY <2>1, <1>3
  <2> QED  BY <2>2, <1>1, <1>3, <1>6
<1> QED  BY <1>3, <1>4, <1>5, <1>6 DEF q

\* The rows the ledger writes: not NULL, an integer basis, and shares that are no fewer than none.
LEMMA NoRowIsNull == SqlNull \notin PositionType
BY LedgerAssumption

\* The shares and the basis of a row that keeps its books: no negative basis, and none without shares.
SoundRow(r) ==
    r # SqlNull => r.costBasis >= 0 /\ (r.shares = 0 => r.costBasis = 0)

\* What a buy does to a row.
LEMMA BuyRowKeeps ==
    ASSUME NEW old \in PositionType \cup {SqlNull}, NEW shares \in Nat, shares > 0, NEW amount \in Nat,
           SoundRow(old)
    PROVE  /\ BuyRow(old, shares, amount) \in PositionType
           /\ SoundRow(BuyRow(old, shares, amount))
           /\ RowShares(BuyRow(old, shares, amount)) = RowShares(old) + shares
           /\ Booked(BuyRow(old, shares, amount)) = Booked(old) - amount
           /\ old = SqlNull => ~BuyRow(old, shares, amount).redeemed
           /\ old # SqlNull => (BuyRow(old, shares, amount).redeemed <=> old.redeemed)
<1>1. CASE old = SqlNull
  <2>1. BuyRow(old, shares, amount) = Row(shares, amount, 0)
    BY <1>1 DEF BuyRow
  <2>2. /\ Row(shares, amount, 0) \in PositionType
        /\ Row(shares, amount, 0).shares = shares /\ Row(shares, amount, 0).costBasis = amount
        /\ Row(shares, amount, 0).realizedPnl = 0 /\ ~Row(shares, amount, 0).redeemed
    BY DEF Row, PositionType
  <2>3. Row(shares, amount, 0) # SqlNull
    BY <2>2, NoRowIsNull
  <2>4. /\ SoundRow(Row(shares, amount, 0))
        /\ RowShares(Row(shares, amount, 0)) = shares /\ Booked(Row(shares, amount, 0)) = -amount
    BY <2>2, <2>3 DEF SoundRow, RowShares, Booked
  <2>5. RowShares(old) = 0 /\ Booked(old) = 0
    BY <1>1 DEF RowShares, Booked
  <2> QED  BY <1>1, <2>1, <2>2, <2>4, <2>5
<1>2. CASE old # SqlNull
  <2> DEFINE new == BuyRow(old, shares, amount)
  <2>1. old \in PositionType
    BY <1>2
  <2>2. new = [old EXCEPT !.shares = old.shares + shares, !.costBasis = old.costBasis + amount]
    BY <1>2 DEF BuyRow
  <2> HIDE DEF new
  <2>5. old.shares \in Nat /\ old.costBasis \in Int /\ old.realizedPnl \in Int
    BY <2>1 DEF PositionType
  <2>3. /\ new \in PositionType
        /\ new.shares = old.shares + shares /\ new.costBasis = old.costBasis + amount
        /\ new.realizedPnl = old.realizedPnl /\ new.redeemed = old.redeemed
    <3>1. old.shares + shares \in Nat /\ old.costBasis + amount \in Int
      BY <2>5
    <3> QED  BY <2>1, <2>2, <3>1 DEF PositionType
  <2>4. new # SqlNull
    BY <2>3, NoRowIsNull
  <2>6. old.costBasis >= 0
    BY <1>2 DEF SoundRow
  <2>7. SoundRow(new)
    BY <2>3, <2>5, <2>6 DEF SoundRow
  <2>8. RowShares(new) = RowShares(old) + shares /\ Booked(new) = Booked(old) - amount
    BY <1>2, <2>3, <2>4, <2>5 DEF RowShares, Booked
  <2> QED  BY <1>2, <2>3, <2>7, <2>8 DEF new
<1> QED  BY <1>1, <1>2

\* What a sell of no more than the row's shares does to it.
LEMMA SellRowKeeps ==
    ASSUME NEW old \in PositionType \cup {SqlNull}, NEW shares \in Nat, NEW amount \in Nat,
           SoundRow(old), shares <= RowShares(old)
    PROVE  /\ SellRow(old, shares, amount) \in PositionType
           /\ SoundRow(SellRow(old, shares, amount))
           /\ RowShares(SellRow(old, shares, amount)) = RowShares(old) - shares
           /\ Booked(SellRow(old, shares, amount)) = Booked(old) + amount
           /\ old = SqlNull => ~SellRow(old, shares, amount).redeemed
           /\ old # SqlNull => (SellRow(old, shares, amount).redeemed <=> old.redeemed)
<1>1. CASE old = SqlNull
  <2>1. SellRow(old, shares, amount) = Row(0, 0, amount)
    BY <1>1 DEF SellRow
  <2>2. shares = 0 /\ RowShares(old) = 0 /\ Booked(old) = 0
    BY <1>1 DEF RowShares, Booked
  <2>3. Row(0, 0, amount) # SqlNull
    <3>1. Row(0, 0, amount) \in PositionType
      BY DEF Row, PositionType
    <3> QED  BY <3>1, NoRowIsNull
  <2>4. /\ Row(0, 0, amount) \in PositionType
        /\ Row(0, 0, amount).shares = 0 /\ Row(0, 0, amount).costBasis = 0
        /\ Row(0, 0, amount).realizedPnl = amount /\ ~Row(0, 0, amount).redeemed
    BY DEF Row, PositionType
  <2>5. /\ SoundRow(Row(0, 0, amount))
        /\ RowShares(Row(0, 0, amount)) = 0 /\ Booked(Row(0, 0, amount)) = amount
    BY <2>3, <2>4 DEF SoundRow, RowShares, Booked
  <2> QED  BY <1>1, <2>1, <2>2, <2>4, <2>5
<1>2. CASE old # SqlNull
  <2> DEFINE new == SellRow(old, shares, amount)
             removed == CostRemoved(old.costBasis, shares, old.shares)
  <2>1. old \in PositionType
    BY <1>2
  <2>2. old.shares \in Nat /\ old.costBasis \in Nat /\ old.realizedPnl \in Int
    BY <1>2, <2>1 DEF PositionType, SoundRow
  <2>3. shares <= old.shares
    BY <1>2 DEF RowShares
  <2>4. removed \in Nat /\ removed <= old.costBasis /\ (shares = old.shares => removed = old.costBasis)
    <3>1. CASE old.shares > 0
      <4>1. removed = (old.costBasis * shares) \div old.shares
        BY <3>1 DEF CostRemoved
      <4> HIDE DEF removed
      <4> QED  BY <3>1, <4>1, <2>2, <2>3, Proportion
    <3>2. CASE old.shares = 0
      <4>1. removed = 0
        BY <3>2 DEF CostRemoved
      <4>2. old.costBasis = 0
        BY <1>2, <3>2 DEF SoundRow
      <4> QED  BY <4>1, <4>2
    <3> QED  BY <3>1, <3>2, <2>2
  <2>5. new = [old EXCEPT !.shares = old.shares - shares,
                          !.costBasis = old.costBasis - removed,
                          !.realizedPnl = old.realizedPnl + (amount - removed)]
    <3>1. (IF shares > old.shares THEN old.shares ELSE shares) = shares
      BY <2>2, <2>3
    <3> QED  BY <1>2, <3>1 DEF SellRow
  <2> HIDE DEF removed, new
  <2>6. /\ new \in PositionType
        /\ new.shares = old.shares - shares /\ new.costBasis = old.costBasis - removed
        /\ new.realizedPnl = old.realizedPnl + (amount - removed) /\ new.redeemed = old.redeemed
    <3>1. /\ old.shares - shares \in Nat /\ old.costBasis - removed \in Int
          /\ old.realizedPnl + (amount - removed) \in Int
      BY <2>2, <2>3, <2>4
    <3> QED  BY <2>1, <2>5, <3>1 DEF PositionType
  <2>7. new # SqlNull
    BY <2>6, NoRowIsNull
  <2>8. SoundRow(new)
    BY <2>2, <2>3, <2>4, <2>6 DEF SoundRow
  <2>9. RowShares(new) = RowShares(old) - shares /\ Booked(new) = Booked(old) + amount
    BY <1>2, <2>2, <2>4, <2>6, <2>7 DEF RowShares, Booked
  <2> QED  BY <1>2, <2>6, <2>8, <2>9 DEF new
<1> QED  BY <1>1, <1>2

\* The legs of a short are two or more outcomes with a last one, and their shares of its cost are
\* naturals that add up to it.
LEMMA LegsOfShort ==
    ASSUME NEW o \in Outcomes
    PROVE  /\ IsFiniteSet(Legs(o)) /\ Legs(o) \subseteq Outcomes
           /\ Cardinality(Legs(o)) = OutcomeCount - 1
           /\ Max(Legs(o)) \in Legs(o)
<1>1. IsFiniteSet(Legs(o)) /\ Legs(o) \subseteq Outcomes
  BY OutcomesFinite, FS_Subset DEF Legs
<1>2. Cardinality(Outcomes) = OutcomeCount
  <2>1. Cardinality(0..(OutcomeCount - 1)) = OutcomeCount
    BY FS_Interval, LedgerAssumption
  <2> QED  BY <2>1 DEF Outcomes
<1>3. Cardinality(Legs(o)) = OutcomeCount - 1
  BY <1>2, OutcomesFinite, FS_RemoveElement DEF Legs
<1>4. \E x \in Legs(o) : \A y \in Legs(o) : x >= y
  <2>1. o \in Int /\ OutcomeCount \in Int /\ OutcomeCount > 1 /\ Legs(o) = (0..(OutcomeCount - 1)) \ {o}
    BY LedgerAssumption DEF Outcomes, Legs
  <2>2. CASE o = OutcomeCount - 1
    <3>1. OutcomeCount - 2 \in Legs(o) /\ \A y \in Legs(o) : OutcomeCount - 2 >= y
      BY <2>1, <2>2
    <3> QED  BY <3>1
  <2>3. CASE o # OutcomeCount - 1
    <3>1. OutcomeCount - 1 \in Legs(o) /\ \A y \in Legs(o) : OutcomeCount - 1 >= y
      BY <2>1, <2>3
    <3> QED  BY <3>1
  <2> QED  BY <2>2, <2>3
<1>5. Max(Legs(o)) \in Legs(o)
  BY <1>4 DEF Max
<1> QED  BY <1>1, <1>3, <1>5

\* A quotient is a natural, and no more than what was divided when multiplied back.
LEMMA EvenPart ==
    ASSUME NEW cost \in Nat, NEW n \in Nat, n > 0
    PROVE  /\ cost \div n \in Nat
           /\ (cost \div n) * n \in Nat /\ (cost \div n) * (n - 1) \in Nat
           /\ (cost \div n) * (n - 1) + cost \div n = (cost \div n) * n
           /\ (cost \div n) * n <= cost
<1> DEFINE q == cost \div n
           r == cost % n
<1>1. q \in Int /\ r \in 0..(n - 1) /\ cost = n * q + r
  OBVIOUS
<1> HIDE DEF q, r
<1>2. q >= 0
  <2> SUFFICES ASSUME q < 0 PROVE FALSE
    BY <1>1
  <2>1. n * (q + 1) <= 0
    BY <1>1
  <2>2. n * q + n <= 0
    BY <2>1, <1>1
  <2> QED  BY <2>2, <1>1
<1>3. q * n = n * q /\ q * (n - 1) + q = q * n /\ q * n \in Int
  BY <1>1
<1>4. q * (n - 1) >= 0
  <2>1. \A x, y \in Nat : x * y >= 0
    OBVIOUS
  <2>2. n - 1 \in Nat /\ q \in Nat
    BY <1>1, <1>2
  <2> QED  BY <2>1, <2>2
<1>5. q * (n - 1) \in Int
  BY <1>1
<1>6. q * (n - 1) \in Nat /\ q * n \in Nat /\ q * n <= cost /\ q \in Nat
  BY <1>1, <1>2, <1>3, <1>4, <1>5
<1> QED  BY <1>3, <1>6 DEF q

\* The legs' shares of a short's cost are naturals.
LEMMA LegBasisNatural ==
    ASSUME NEW o \in Outcomes, NEW i \in Legs(o), NEW cost \in Nat
    PROVE  LegBasis(i, o, cost) \in Nat
<1> DEFINE n == OutcomeCount - 1
<1>1. n \in Nat /\ n > 0 /\ Cardinality(Legs(o)) = n
  BY LegsOfShort, LedgerAssumption
<1> HIDE DEF n
<1>2. LegBasis(i, o, cost) = IF i = Max(Legs(o)) THEN cost - (cost \div n) * (n - 1) ELSE cost \div n
  BY <1>1 DEF LegBasis
<1>3. cost \div n \in Nat /\ (cost \div n) * (n - 1) \in Nat /\ (cost \div n) * (n - 1) <= cost
  BY <1>1, EvenPart
<1> DEFINE q == cost \div n
           rest == (cost \div n) * (n - 1)
<1> HIDE DEF q, rest
<1>4. q \in Nat /\ rest \in Nat /\ rest <= cost
  BY <1>3 DEF q, rest
<1>5. LegBasis(i, o, cost) = IF i = Max(Legs(o)) THEN cost - rest ELSE q
  BY <1>2 DEF q, rest
<1> QED  BY <1>4, <1>5

\* The legs' shares of a short's cost add up to it, whatever the division rounded.
LEMMA LegsShareCost ==
    ASSUME NEW o \in Outcomes, NEW cost \in Nat, NEW d \in [Outcomes -> Int],
           \A i \in Outcomes : d[i] = IF i \in Legs(o) THEN LegBasis(i, o, cost) ELSE 0
    PROVE  SumFunction(d) = cost
<1> DEFINE n == OutcomeCount - 1
           q == cost \div n
           rest == q * (n - 1)
           m == Max(Legs(o))
           e == [i \in Outcomes |-> IF i \in Legs(o) THEN q ELSE 0]
<1>1. n \in Nat /\ n > 0 /\ Cardinality(Legs(o)) = n /\ m \in Legs(o) /\ m \in Outcomes
  BY LegsOfShort, LedgerAssumption
<1>2. q \in Nat /\ rest \in Nat /\ q * n \in Nat /\ rest + q = q * n
  <2> HIDE DEF n
  <2> QED  BY <1>1, EvenPart
<1>3. LegBasis(m, o, cost) = cost - rest /\ \A i \in Legs(o) : i # m => LegBasis(i, o, cost) = q
  BY <1>1 DEF LegBasis
<1> HIDE DEF n, q, rest, m
<1>4. e \in [Outcomes -> Int]
  BY <1>2
<1>5. SumFunctionOnSet(e, Legs(o)) = q * n
  <2>1. \A i \in Legs(o) : e[i] = q
    BY LegsOfShort
  <2> HIDE DEF e
  <2>2. q \in Int
    BY <1>2
  <2>3. SumFunctionOnSet(e, Legs(o)) = q * Cardinality(Legs(o))
    BY <2>1, <2>2, LegsOfShort, SumConstant
  <2> QED  BY <2>3, <1>1
<1>6. SumFunction(e) = q * n
  <2>1. e[o] = 0
    BY DEF Legs
  <2>2. SumFunction(e) = SumFunctionOnSet(e, Outcomes)
    BY DEF SumFunction
  <2> HIDE DEF e
  <2>3. \A y \in Outcomes : e[y] \in Int
    BY <1>4
  <2>4. SumFunctionOnSet(e, Outcomes) = e[o] + SumFunctionOnSet(e, Outcomes \ {o})
    BY <2>3, OutcomesFinite, SumSplit
  <2>5. Outcomes \ {o} = Legs(o)
    BY DEF Legs
  <2>6. SumFunctionOnSet(e, Legs(o)) \in Int
    BY <1>2, <1>5
  <2>7. SumFunction(e) = SumFunctionOnSet(e, Legs(o))
    <3>1. SumFunctionOnSet(e, Outcomes \ {o}) = SumFunctionOnSet(e, Legs(o))
      BY <2>5
    <3>2. SumFunctionOnSet(e, Outcomes) = e[o] + SumFunctionOnSet(e, Legs(o))
      BY <2>4, <3>1
    <3>3. SumFunctionOnSet(e, Outcomes) = 0 + SumFunctionOnSet(e, Legs(o))
      BY <2>1, <3>2
    <3>4. SumFunctionOnSet(e, Outcomes) = SumFunctionOnSet(e, Legs(o))
      BY <2>6, <3>3
    <3> QED  BY <2>2, <3>4
  <2> QED  BY <2>7, <1>5
<1>7. \A y \in Outcomes \ {m} : d[y] = e[y]
  BY <1>3, LegsOfShort
<1>8. d[m] = cost - rest /\ e[m] = q
  BY <1>1, <1>3
<1> HIDE DEF e
<1>9. SumFunction(d) = SumFunction(e) + (d[m] - e[m])
  BY <1>1, <1>4, <1>7, OutcomesFinite, TotalMoves
<1>10. SumFunction(d) = q * n + ((cost - rest) - q)
  BY <1>6, <1>8, <1>9
<1> DEFINE all == q * n
<1>11. all \in Nat /\ rest + q = all /\ SumFunction(d) = all + ((cost - rest) - q)
  BY <1>2, <1>10
<1> HIDE DEF all
<1> QED  BY <1>11, <1>2

-----------------------------------------------------------------------------
(***************************************************************************)
(* TradeLedger: the inductive invariant.                                   *)
(***************************************************************************)
\* What each stage of the market's life says of the rows.
Stages ==
    /\ phase = "none" =>
          /\ status = SqlNull /\ pot = 0 /\ collateral = 0
          /\ \A a \in Accounts : cash[a] = 0
          /\ \A a \in Accounts, o \in Outcomes : balance[a][o] = 0 /\ position[a][o] = SqlNull
    /\ phase = "trading" => status = "TRADING" /\ Solvent(balance, collateral)
    /\ phase \in {"none", "trading"} => claimed = {} /\ seedClaimed = FALSE
    /\ phase = "resolved" => status = "RESOLVED" /\ winningOutcomeId = winner
    /\ phase = "void" => status = "INVALID"

\* The rows closed are those of the accounts that have redeemed.
ClaimedRows ==
    \A a \in Accounts, o \in Outcomes :
        position[a][o] # SqlNull => (position[a][o].redeemed <=> a \in claimed)

LedgerInv ==
    /\ LedgerTypeOK /\ Stages /\ ClaimedRows
    /\ HoldingsMirrored /\ PotIsCollateral /\ BasisAccountsForCash

\* A row's shares, and what it has booked, are numbers.
LEMMA RowNumbers ==
    ASSUME NEW r \in PositionType \cup {SqlNull}
    PROVE  RowShares(r) \in Nat /\ Booked(r) \in Int
<1>1. CASE r = SqlNull
  BY <1>1 DEF RowShares, Booked
<1>2. CASE r # SqlNull
  <2>1. r.shares \in Nat /\ r.costBasis \in Int /\ r.realizedPnl \in Int
    BY <1>2 DEF PositionType
  <2> QED  BY <1>2, <2>1 DEF RowShares, Booked
<1> QED  BY <1>1, <1>2

\* The strings a row's status takes differ from NULL and from each other.
LEMMA StatusStrings ==
    /\ SqlNull # "TRADING" /\ SqlNull # "RESOLVED" /\ SqlNull # "INVALID"
BY LedgerAssumption DEF Statuses

\* Before the market exists the invariant holds.
LEMMA LedgerStarts == LedgerInit => LedgerInv
<1> SUFFICES ASSUME LedgerInit PROVE LedgerInv
  OBVIOUS
<1>1. LedgerTypeOK
  <2>1. balance \in [Accounts -> [Outcomes -> Nat]]
    BY DEF LedgerInit
  <2>2. position \in [Accounts -> [Outcomes -> PositionType \cup {SqlNull}]]
    BY DEF LedgerInit
  <2>3. cash \in [Accounts -> Int] /\ currentShares \in [Outcomes -> Nat] /\ claimed \subseteq Accounts
    BY DEF LedgerInit
  <2>4. trades \in 0..MaxTrades /\ winner \in Outcomes
    BY LedgerAssumption, OutcomesFinite DEF LedgerInit
  <2>5. status \in Statuses \cup {SqlNull} /\ winningOutcomeId \in Outcomes \cup {SqlNull}
    BY DEF LedgerInit
  <2>6. phase \in {"none", "trading", "resolved", "void"} /\ seedClaimed \in BOOLEAN
    BY DEF LedgerInit
  <2>7. collateral \in Nat /\ pot \in Int /\ surplus \in Nat
    BY DEF LedgerInit
  <2> QED  BY <2>1, <2>2, <2>3, <2>4, <2>5, <2>6, <2>7 DEF LedgerTypeOK
<1>2. Stages
  BY DEF LedgerInit, Stages
<1>3. ClaimedRows
  BY DEF LedgerInit, ClaimedRows
<1>4. HoldingsMirrored
  BY DEF LedgerInit, HoldingsMirrored
<1>5. PotIsCollateral
  BY StatusStrings DEF LedgerInit, PotIsCollateral
<1>6. BasisAccountsForCash
  BY StatusStrings DEF LedgerInit, BasisAccountsForCash
<1> QED  BY <1>1, <1>2, <1>3, <1>4, <1>5, <1>6 DEF LedgerInv

\* MarketCreated: the seed is all there is outstanding, and all the rows there are.
LEMMA CreateKeeps == LedgerInv /\ CreateMarket => LedgerInv'
<1> SUFFICES ASSUME LedgerInv, CreateMarket PROVE LedgerInv'
  OBVIOUS
<1>1. /\ LedgerTypeOK /\ Stages /\ phase = "none"
      /\ phase' = "trading" /\ status' = "TRADING" /\ pot' = SeedCost /\ collateral' = SeedCost
      /\ currentShares' = [o \in Outcomes |-> SeedPerOutcome]
      /\ UNCHANGED <<winner, balance, claimed, seedClaimed, cash, trades, winningOutcomeId, surplus, position>>
  BY DEF LedgerInv, CreateMarket
<1>2. /\ status = SqlNull /\ claimed = {} /\ seedClaimed = FALSE
      /\ \A a \in Accounts : cash[a] = 0
      /\ \A a \in Accounts, o \in Outcomes : balance[a][o] = 0 /\ position[a][o] = SqlNull
  BY <1>1 DEF Stages
<1>3. LedgerTypeOK'
  <2>1. SeedCost \in Nat /\ SeedPerOutcome \in Nat
    BY LedgerAssumption
  <2> QED  BY <1>1, <2>1 DEF LedgerTypeOK, Statuses
<1>4. \A o \in Outcomes : Outstanding(balance, o) = SeedPerOutcome
  <2> SUFFICES ASSUME NEW o \in Outcomes PROVE Outstanding(balance, o) = SeedPerOutcome
    OBVIOUS
  <2>1. SumFunction([a \in Accounts |-> balance[a][o]]) = 0
    BY <1>2, TotalOfZeros, LedgerAssumption
  <2> QED  BY <2>1, LedgerAssumption DEF Outstanding
<1>5. Stages'
  <2>1. \A o \in Outcomes : SeedCost >= SeedPerOutcome
    BY LedgerAssumption
  <2>2. Solvent(balance', collateral')
    BY <1>1, <1>4, <2>1 DEF Solvent
  <2> QED  BY <1>1, <1>2, <2>2 DEF Stages
<1>6. ClaimedRows'
  BY <1>1, <1>2 DEF ClaimedRows
<1>7. HoldingsMirrored'
  <2>1. \A a \in Accounts, o \in Outcomes : RowShares(position'[a][o]) = balance'[a][o]
    BY <1>1, <1>2 DEF RowShares
  <2>2. \A o \in Outcomes : currentShares'[o] = Outstanding(balance', o)
    BY <1>1, <1>4
  <2> QED  BY <2>1, <2>2 DEF HoldingsMirrored
<1>8. PotIsCollateral'
  BY <1>1, LedgerAssumption DEF PotIsCollateral
<1>9. BasisAccountsForCash'
  <2>1. \A a \in Accounts : SumFunction([o \in Outcomes |-> Booked(position[a][o])]) = 0
    <3> SUFFICES ASSUME NEW a \in Accounts PROVE SumFunction([o \in Outcomes |-> Booked(position[a][o])]) = 0
      OBVIOUS
    <3>1. \A o \in Outcomes : Booked(position[a][o]) = 0
      BY <1>2 DEF Booked
    <3> QED  BY <3>1, TotalOfZeros, OutcomesFinite
  <2> QED  BY <1>1, <1>2, <2>1 DEF BasisAccountsForCash
<1> QED  BY <1>3, <1>5, <1>6, <1>7, <1>8, <1>9 DEF LedgerInv

\* A trade: the account's shares, the outcomes' stock, the pot and the collateral, the account's
\* cash and what its rows have booked all move by the same.
LEMMA TradeKeeps ==
    ASSUME LedgerInv, NEW a \in Accounts, NEW paid \in Int,
           NEW b \in [Accounts -> [Outcomes -> Nat]], EngineTrade(a, b, paid),
           \A x \in Accounts \ {a} : b[x] = balance[x],
           pot' = pot + paid,
           currentShares' = [o \in Outcomes |-> currentShares[o] + (b[a][o] - balance[a][o])],
           NEW rows \in [Outcomes -> PositionType \cup {SqlNull}],
           position' = [position EXCEPT ![a] = rows],
           \A o \in Outcomes :
               /\ RowShares(rows[o]) = b[a][o] /\ SoundRow(rows[o])
               /\ rows[o] # SqlNull => ~rows[o].redeemed,
           NEW d \in [Outcomes -> Int], SumFunction(d) = -paid,
           \A o \in Outcomes : Booked(rows[o]) = Booked(position[a][o]) + d[o]
    PROVE  LedgerInv'
<1>1. /\ phase = "trading" /\ trades < MaxTrades /\ collateral + paid >= 0 /\ Solvent(b, collateral + paid)
      /\ balance' = b /\ collateral' = collateral + paid
      /\ cash' = [cash EXCEPT ![a] = cash[a] - paid] /\ trades' = trades + 1
      /\ UNCHANGED <<phase, winner, claimed, seedClaimed, status, winningOutcomeId, surplus>>
  BY DEF EngineTrade
<1>2. LedgerTypeOK /\ Stages /\ ClaimedRows /\ HoldingsMirrored /\ PotIsCollateral /\ BasisAccountsForCash
  BY DEF LedgerInv
<1>3. status = "TRADING" /\ claimed = {} /\ seedClaimed = FALSE
  BY <1>1, <1>2 DEF Stages
<1>4. /\ balance \in [Accounts -> [Outcomes -> Nat]] /\ collateral \in Nat /\ cash \in [Accounts -> Int]
      /\ trades \in 0..MaxTrades /\ pot \in Int
      /\ position \in [Accounts -> [Outcomes -> PositionType \cup {SqlNull}]]
  BY <1>2 DEF LedgerTypeOK
<1>5. /\ position'[a] = rows
      /\ \A x \in Accounts \ {a} : position'[x] = position[x]
  BY <1>4
<1>6. \A o \in Outcomes : currentShares'[o] = Outstanding(b, o)
  <2> SUFFICES ASSUME NEW o \in Outcomes PROVE currentShares'[o] = Outstanding(b, o)
    OBVIOUS
  <2>1. Outstanding(b, o) = Outstanding(balance, o) + (b[a][o] - balance[a][o])
    BY <1>4, OutstandingMoves
  <2>2. currentShares[o] = Outstanding(balance, o)
    BY <1>2, <1>3, StatusStrings DEF HoldingsMirrored
  <2> QED  BY <2>1, <2>2
<1>7. LedgerTypeOK'
  <2>1. currentShares' \in [Outcomes -> Nat]
    BY <1>6, OutstandingCoversSeed
  <2>2. position' \in [Accounts -> [Outcomes -> PositionType \cup {SqlNull}]]
    BY <1>4
  <2>3. cash' \in [Accounts -> Int]
    BY <1>1, <1>4
  <2>4. trades' \in 0..MaxTrades
    BY <1>1, <1>4, LedgerAssumption
  <2>5. collateral' \in Nat /\ pot' \in Int
    BY <1>1, <1>4
  <2> QED  BY <1>1, <1>2, <2>1, <2>2, <2>3, <2>4, <2>5 DEF LedgerTypeOK
<1>8. Stages'
  <2>1. Solvent(balance', collateral')
    BY <1>1
  <2> QED  BY <1>1, <1>3, <2>1 DEF Stages
<1>9. ClaimedRows'
  <2> SUFFICES ASSUME NEW x \in Accounts, NEW o \in Outcomes, position'[x][o] # SqlNull
               PROVE  position'[x][o].redeemed <=> x \in claimed'
    BY DEF ClaimedRows
  <2>1. CASE x = a
    BY <1>1, <1>3, <1>5, <2>1
  <2>2. CASE x # a
    BY <1>1, <1>2, <1>5, <2>2 DEF ClaimedRows
  <2> QED  BY <2>1, <2>2
<1>10. HoldingsMirrored'
  <2>1. ASSUME NEW x \in Accounts, NEW o \in Outcomes PROVE RowShares(position'[x][o]) = balance'[x][o]
    <3>1. CASE x = a
      BY <1>1, <1>5, <3>1
    <3>2. CASE x # a
      BY <1>1, <1>2, <1>3, <1>5, <3>2, StatusStrings DEF HoldingsMirrored
    <3> QED  BY <3>1, <3>2
  <2>2. \A o \in Outcomes : currentShares'[o] = Outstanding(balance', o)
    BY <1>1, <1>6
  <2> QED  BY <2>1, <2>2 DEF HoldingsMirrored
<1>11. PotIsCollateral'
  <2>1. pot = collateral
    BY <1>2, <1>3, <1>4 DEF PotIsCollateral
  <2>2. pot' = collateral' /\ status' = "TRADING" /\ collateral' \in Int
    BY <1>1, <1>3, <1>4, <2>1
  <2> QED  BY <2>2 DEF PotIsCollateral
<1>12. BasisAccountsForCash'
  <2>1. ASSUME NEW x \in Accounts
        PROVE  cash'[x] = SumFunction([o \in Outcomes |-> Booked(position'[x][o])])
    <3>1. cash[x] = SumFunction([o \in Outcomes |-> Booked(position[x][o])])
      BY <1>2, <1>3 DEF BasisAccountsForCash
    <3>2. CASE x = a
      <4> DEFINE f == [o \in Outcomes |-> Booked(position[a][o])]
                 h == [o \in Outcomes |-> Booked(position'[a][o])]
      <4>1. f \in [Outcomes -> Int] /\ h \in [Outcomes -> Int]
        BY <1>4, <1>5, RowNumbers
      <4>2. \A o \in Outcomes : h[o] = f[o] + d[o]
        BY <1>5
      <4> HIDE DEF f, h
      <4>3. SumFunction(h) = SumFunction(f) + SumFunction(d)
        BY <4>1, <4>2, OutcomesFinite, TotalPlus
      <4>4. SumFunction(f) = cash[a]
        BY <3>1, <3>2 DEF f
      <4>5. SumFunction(h) = cash[a] - paid /\ cash'[a] = cash[a] - paid
        BY <1>1, <1>4, <4>3, <4>4
      <4> QED  BY <3>2, <4>5 DEF h
    <3>3. CASE x # a
      BY <1>1, <1>4, <1>5, <3>1, <3>3
    <3> QED  BY <3>2, <3>3
  <2>2. ASSUME NEW x \in Accounts, NEW o \in Outcomes PROVE SoundRow(position'[x][o])
    <3>1. CASE x = a
      BY <1>5, <3>1
    <3>2. CASE x # a
      BY <1>2, <1>5, <3>2 DEF BasisAccountsForCash, SoundRow
    <3> QED  BY <3>1, <3>2
  <2> QED  BY <2>1, <2>2 DEF BasisAccountsForCash, SoundRow
<1> QED  BY <1>7, <1>8, <1>9, <1>10, <1>11, <1>12 DEF LedgerInv

\* What the trades need of the account's rows.
LEMMA RowsBeforeTrade ==
    ASSUME LedgerInv, phase = "trading", NEW a \in Accounts, NEW o \in Outcomes
    PROVE  /\ position[a][o] \in PositionType \cup {SqlNull} /\ SoundRow(position[a][o])
           /\ RowShares(position[a][o]) = balance[a][o] /\ balance[a][o] \in Nat
           /\ position[a][o] # SqlNull => ~position[a][o].redeemed
           /\ currentShares[o] \in Nat
<1>1. LedgerTypeOK /\ Stages /\ ClaimedRows /\ HoldingsMirrored /\ BasisAccountsForCash
  BY DEF LedgerInv
<1>2. status = "TRADING" /\ claimed = {}
  BY <1>1 DEF Stages
<1>3. position[a][o] \in PositionType \cup {SqlNull} /\ balance[a][o] \in Nat /\ currentShares[o] \in Nat
  BY <1>1 DEF LedgerTypeOK
<1>4. RowShares(position[a][o]) = balance[a][o]
  BY <1>1, <1>2, StatusStrings DEF HoldingsMirrored
<1>5. SoundRow(position[a][o])
  BY <1>1 DEF BasisAccountsForCash, SoundRow
<1>6. position[a][o] # SqlNull => ~position[a][o].redeemed
  <2> SUFFICES ASSUME position[a][o] # SqlNull PROVE ~position[a][o].redeemed
    OBVIOUS
  <2>1. position[a][o].redeemed <=> a \in claimed
    BY <1>1 DEF ClaimedRows
  <2>2. position[a][o].redeemed \in BOOLEAN
    BY <1>3 DEF PositionType
  <2> QED  BY <2>1, <2>2, <1>2
<1> QED  BY <1>3, <1>4, <1>5, <1>6

\* A buy is such a trade.
LEMMA BuyKeeps == LedgerInv /\ OnBought => LedgerInv'
<1> SUFFICES ASSUME LedgerInv, OnBought PROVE LedgerInv'
  OBVIOUS
<1>1. PICK a \in Accounts, k \in Outcomes, shares \in 1..MaxShares, cost \in Amounts :
        /\ EngineTrade(a, [balance EXCEPT ![a][k] = @ + shares], cost)
        /\ pot' = pot + cost
        /\ currentShares' = [currentShares EXCEPT ![k] = @ + shares]
        /\ position' = [position EXCEPT ![a][k] = BuyRow(@, shares, cost)]
  BY DEF OnBought
<1> DEFINE b == [balance EXCEPT ![a][k] = balance[a][k] + shares]
           rows == [position[a] EXCEPT ![k] = BuyRow(position[a][k], shares, cost)]
           d == [o \in Outcomes |-> IF o = k THEN -cost ELSE 0]
<1>2. /\ balance \in [Accounts -> [Outcomes -> Nat]] /\ currentShares \in [Outcomes -> Nat]
      /\ position \in [Accounts -> [Outcomes -> PositionType \cup {SqlNull}]]
  BY DEF LedgerInv, LedgerTypeOK
<1>3. shares \in Nat /\ shares > 0 /\ cost \in Nat /\ cost \in Int /\ -cost \in Int
  BY LedgerAssumption
<1>4. phase = "trading" /\ EngineTrade(a, b, cost)
  BY <1>1 DEF EngineTrade
<1>5. /\ b \in [Accounts -> [Outcomes -> Nat]] /\ \A x \in Accounts \ {a} : b[x] = balance[x]
      /\ b[a][k] = balance[a][k] + shares /\ \A o \in Outcomes \ {k} : b[a][o] = balance[a][o]
  BY <1>2, <1>3
<1>6. /\ BuyRow(position[a][k], shares, cost) \in PositionType
      /\ SoundRow(BuyRow(position[a][k], shares, cost))
      /\ RowShares(BuyRow(position[a][k], shares, cost)) = balance[a][k] + shares
      /\ Booked(BuyRow(position[a][k], shares, cost)) = Booked(position[a][k]) - cost
      /\ ~BuyRow(position[a][k], shares, cost).redeemed
  BY <1>3, <1>4, RowsBeforeTrade, BuyRowKeeps
<1>7. /\ rows \in [Outcomes -> PositionType \cup {SqlNull}]
      /\ rows[k] = BuyRow(position[a][k], shares, cost)
      /\ \A o \in Outcomes \ {k} : rows[o] = position[a][o]
  BY <1>2, <1>6
<1>8. position' = [position EXCEPT ![a] = rows]
  BY <1>1, <1>2
<1>9. d \in [Outcomes -> Int] /\ d[k] = -cost /\ \A o \in Outcomes \ {k} : d[o] = 0
  BY <1>3
<1> HIDE DEF b, rows, d
<1>10. SumFunction(d) = -cost
  BY <1>9, OutcomesFinite, TotalOfOne
<1>11. currentShares' = [o \in Outcomes |-> currentShares[o] + (b[a][o] - balance[a][o])]
  <2>1. ASSUME NEW o \in Outcomes
        PROVE  currentShares[o] + (b[a][o] - balance[a][o]) = IF o = k THEN currentShares[k] + shares ELSE currentShares[o]
    <3>1. balance[a][o] \in Nat /\ currentShares[o] \in Nat
      BY <1>2
    <3> QED  BY <3>1, <1>3, <1>5
  <2>2. currentShares' = [o \in Outcomes |-> IF o = k THEN currentShares[k] + shares ELSE currentShares[o]]
    BY <1>1, <1>2
  <2> QED  BY <2>1, <2>2
<1>12. ASSUME NEW o \in Outcomes
       PROVE  /\ RowShares(rows[o]) = b[a][o] /\ SoundRow(rows[o])
              /\ rows[o] # SqlNull => ~rows[o].redeemed
              /\ Booked(rows[o]) = Booked(position[a][o]) + d[o]
  <2>1. CASE o = k
    <3>1. Booked(position[a][k]) \in Int
      BY <1>2, RowNumbers
    <3>2. Booked(rows[k]) = Booked(position[a][k]) + d[k]
      BY <3>1, <1>3, <1>6, <1>7, <1>9
    <3> QED  BY <2>1, <3>2, <1>5, <1>6, <1>7
  <2>2. CASE o # k
    <3>1. Booked(position[a][o]) \in Int
      BY <1>2, RowNumbers
    <3>2. rows[o] = position[a][o] /\ b[a][o] = balance[a][o] /\ d[o] = 0
      BY <2>2, <1>5, <1>7, <1>9
    <3> QED  BY <3>1, <3>2, <1>4, RowsBeforeTrade
  <2> QED  BY <2>1, <2>2
<1>13. pot' = pot + cost
  BY <1>1
<1> QED  BY <1>3, <1>4, <1>5, <1>7, <1>8, <1>9, <1>10, <1>11, <1>12, <1>13, TradeKeeps

\* So is a sell, of no more than the account has.
LEMMA SellKeeps == LedgerInv /\ OnSold => LedgerInv'
<1> SUFFICES ASSUME LedgerInv, OnSold PROVE LedgerInv'
  OBVIOUS
<1>1. PICK a \in Accounts, k \in Outcomes, shares \in 1..MaxShares, proceeds \in Amounts :
        /\ shares <= balance[a][k]
        /\ EngineTrade(a, [balance EXCEPT ![a][k] = @ - shares], -proceeds)
        /\ pot' = pot - proceeds
        /\ currentShares' = [currentShares EXCEPT ![k] = @ - shares]
        /\ position' = [position EXCEPT ![a][k] = SellRow(@, shares, proceeds)]
  BY DEF OnSold
<1> DEFINE b == [balance EXCEPT ![a][k] = balance[a][k] - shares]
           rows == [position[a] EXCEPT ![k] = SellRow(position[a][k], shares, proceeds)]
           d == [o \in Outcomes |-> IF o = k THEN proceeds ELSE 0]
<1>2. /\ balance \in [Accounts -> [Outcomes -> Nat]] /\ currentShares \in [Outcomes -> Nat] /\ pot \in Int
      /\ position \in [Accounts -> [Outcomes -> PositionType \cup {SqlNull}]]
  BY DEF LedgerInv, LedgerTypeOK
<1>3. shares \in Nat /\ shares > 0 /\ proceeds \in Nat /\ -proceeds \in Int /\ -(-proceeds) = proceeds
  BY LedgerAssumption
<1>4. phase = "trading" /\ EngineTrade(a, b, -proceeds)
  BY <1>1 DEF EngineTrade
<1>5. /\ b \in [Accounts -> [Outcomes -> Nat]] /\ \A x \in Accounts \ {a} : b[x] = balance[x]
      /\ b[a][k] = balance[a][k] - shares /\ \A o \in Outcomes \ {k} : b[a][o] = balance[a][o]
  <2>1. balance[a][k] - shares \in Nat
    BY <1>1, <1>2, <1>3
  <2> QED  BY <1>2, <2>1
<1>6. /\ SellRow(position[a][k], shares, proceeds) \in PositionType
      /\ SoundRow(SellRow(position[a][k], shares, proceeds))
      /\ RowShares(SellRow(position[a][k], shares, proceeds)) = balance[a][k] - shares
      /\ Booked(SellRow(position[a][k], shares, proceeds)) = Booked(position[a][k]) + proceeds
      /\ ~SellRow(position[a][k], shares, proceeds).redeemed
  BY <1>1, <1>3, <1>4, RowsBeforeTrade, SellRowKeeps
<1>7. /\ rows \in [Outcomes -> PositionType \cup {SqlNull}]
      /\ rows[k] = SellRow(position[a][k], shares, proceeds)
      /\ \A o \in Outcomes \ {k} : rows[o] = position[a][o]
  BY <1>2, <1>6
<1>8. position' = [position EXCEPT ![a] = rows]
  BY <1>1, <1>2
<1>9. d \in [Outcomes -> Int] /\ d[k] = proceeds /\ \A o \in Outcomes \ {k} : d[o] = 0
  BY <1>3
<1> HIDE DEF b, rows, d
<1>10. SumFunction(d) = -(-proceeds)
  BY <1>3, <1>9, OutcomesFinite, TotalOfOne
<1>11. currentShares' = [o \in Outcomes |-> currentShares[o] + (b[a][o] - balance[a][o])]
  <2>1. ASSUME NEW o \in Outcomes
        PROVE  currentShares[o] + (b[a][o] - balance[a][o]) = IF o = k THEN currentShares[k] - shares ELSE currentShares[o]
    <3>1. balance[a][o] \in Nat /\ currentShares[o] \in Nat
      BY <1>2
    <3> QED  BY <3>1, <1>3, <1>5
  <2>2. currentShares' = [o \in Outcomes |-> IF o = k THEN currentShares[k] - shares ELSE currentShares[o]]
    BY <1>1, <1>2
  <2> QED  BY <2>1, <2>2
<1>12. ASSUME NEW o \in Outcomes
       PROVE  /\ RowShares(rows[o]) = b[a][o] /\ SoundRow(rows[o])
              /\ rows[o] # SqlNull => ~rows[o].redeemed
              /\ Booked(rows[o]) = Booked(position[a][o]) + d[o]
  <2>1. CASE o = k
    <3>1. /\ RowShares(rows[k]) = b[a][k] /\ SoundRow(rows[k])
          /\ Booked(rows[k]) = Booked(position[a][k]) + d[k]
      BY <1>5, <1>6, <1>7, <1>9
    <3>2. ~rows[k].redeemed
      BY <1>6, <1>7
    <3> QED  BY <2>1, <3>1, <3>2
  <2>2. CASE o # k
    <3>1. Booked(position[a][o]) \in Int
      BY <1>2, RowNumbers
    <3>2. rows[o] = position[a][o] /\ b[a][o] = balance[a][o] /\ d[o] = 0
      BY <2>2, <1>5, <1>7, <1>9
    <3> QED  BY <3>1, <3>2, <1>4, RowsBeforeTrade
  <2> QED  BY <2>1, <2>2
<1>13. pot' = pot + (-proceeds)
  BY <1>1, <1>2, <1>3
<1> QED  BY <1>3, <1>4, <1>5, <1>7, <1>8, <1>9, <1>10, <1>11, <1>12, <1>13, TradeKeeps

\* So is a short, on every outcome but the one it is against.
LEMMA ShortKeeps == LedgerInv /\ OnShorted => LedgerInv'
<1> SUFFICES ASSUME LedgerInv, OnShorted PROVE LedgerInv'
  OBVIOUS
<1>1. PICK a \in Accounts, k \in Outcomes, shares \in 1..MaxShares, cost \in Amounts :
        /\ EngineTrade(a, [balance EXCEPT ![a] = [i \in Outcomes |-> IF i = k THEN @[i] ELSE @[i] + shares]], cost)
        /\ currentShares' = [i \in Outcomes |->
               IF i \in Legs(k) THEN currentShares[i] + shares ELSE currentShares[i]]
        /\ position' = [position EXCEPT ![a] = [i \in Outcomes |->
               IF i \in Legs(k) THEN BuyRow(@[i], shares, LegBasis(i, k, cost)) ELSE @[i]]]
        /\ pot' = pot + cost
  BY DEF OnShorted
<1> DEFINE held == [i \in Outcomes |-> IF i = k THEN balance[a][i] ELSE balance[a][i] + shares]
           b == [balance EXCEPT ![a] = held]
           rows == [i \in Outcomes |->
                     IF i \in Legs(k) THEN BuyRow(position[a][i], shares, LegBasis(i, k, cost)) ELSE position[a][i]]
           legs == [i \in Outcomes |-> IF i \in Legs(k) THEN LegBasis(i, k, cost) ELSE 0]
           d == [i \in Outcomes |-> IF i \in Legs(k) THEN -LegBasis(i, k, cost) ELSE 0]
<1>2. /\ balance \in [Accounts -> [Outcomes -> Nat]] /\ currentShares \in [Outcomes -> Nat] /\ pot \in Int
      /\ position \in [Accounts -> [Outcomes -> PositionType \cup {SqlNull}]]
  BY DEF LedgerInv, LedgerTypeOK
<1>3. shares \in Nat /\ shares > 0 /\ cost \in Nat /\ cost \in Int
  BY LedgerAssumption
<1>4. phase = "trading" /\ EngineTrade(a, b, cost)
  BY <1>1 DEF EngineTrade
<1>5. \A i \in Outcomes : i \in Legs(k) <=> i # k
  BY DEF Legs
<1>6. \A i \in Legs(k) : LegBasis(i, k, cost) \in Nat
  BY <1>3, LegBasisNatural
<1>7. held \in [Outcomes -> Nat]
  BY <1>2, <1>3
<1>8. /\ b \in [Accounts -> [Outcomes -> Nat]] /\ \A x \in Accounts \ {a} : b[x] = balance[x]
      /\ b[a] = held
  <2> HIDE DEF held
  <2> QED  BY <1>2, <1>7
<1>9. \A i \in Outcomes : b[a][i] = IF i \in Legs(k) THEN balance[a][i] + shares ELSE balance[a][i]
  BY <1>5, <1>8
<1>10. position' = [position EXCEPT ![a] = rows]
  BY <1>1
<1>11. ASSUME NEW i \in Legs(k)
       PROVE  /\ BuyRow(position[a][i], shares, LegBasis(i, k, cost)) \in PositionType
              /\ SoundRow(BuyRow(position[a][i], shares, LegBasis(i, k, cost)))
              /\ RowShares(BuyRow(position[a][i], shares, LegBasis(i, k, cost))) = balance[a][i] + shares
              /\ Booked(BuyRow(position[a][i], shares, LegBasis(i, k, cost)))
                     = Booked(position[a][i]) - LegBasis(i, k, cost)
              /\ ~BuyRow(position[a][i], shares, LegBasis(i, k, cost)).redeemed
  <2>1. i \in Outcomes /\ LegBasis(i, k, cost) \in Nat
    BY <1>6, LegsOfShort
  <2> QED  BY <2>1, <1>3, <1>4, RowsBeforeTrade, BuyRowKeeps
<1>12. rows \in [Outcomes -> PositionType \cup {SqlNull}]
  BY <1>2, <1>11
<1>13. SumFunction(legs) = cost
  <2>1. legs \in [Outcomes -> Int]
    BY <1>6
  <2>2. \A i \in Outcomes : legs[i] = IF i \in Legs(k) THEN LegBasis(i, k, cost) ELSE 0
    OBVIOUS
  <2> HIDE DEF legs
  <2> QED  BY <2>1, <2>2, <1>3, LegsShareCost
<1>14. legs \in [Outcomes -> Int] /\ d \in [Outcomes -> Int]
  BY <1>6
<1>15. \A i \in Outcomes : 0 = legs[i] + d[i]
  BY <1>6
<1>16. SumFunction(d) = -cost
  <2> DEFINE z == [i \in Outcomes |-> 0]
  <2> HIDE DEF legs, d
  <2>1. z \in [Outcomes -> Int] /\ \A i \in Outcomes : z[i] = legs[i] + d[i]
    BY <1>15
  <2>2. SumFunction(z) = 0
    BY TotalOfZeros, OutcomesFinite
  <2> HIDE DEF z
  <2>3. SumFunction(z) = SumFunction(legs) + SumFunction(d)
    BY <2>1, <1>14, OutcomesFinite, TotalPlus
  <2>4. SumFunction(d) \in Int
    BY <1>14, OutcomesFinite, TotalIsInteger
  <2> QED  BY <2>2, <2>3, <2>4, <1>3, <1>13
<1>17. currentShares' = [o \in Outcomes |-> currentShares[o] + (b[a][o] - balance[a][o])]
  <2>1. ASSUME NEW o \in Outcomes
        PROVE  currentShares[o] + (b[a][o] - balance[a][o])
                   = IF o \in Legs(k) THEN currentShares[o] + shares ELSE currentShares[o]
    <3>1. balance[a][o] \in Nat /\ currentShares[o] \in Nat
      BY <1>2
    <3> HIDE DEF b
    <3> QED  BY <3>1, <1>3, <1>9
  <2> HIDE DEF b
  <2> QED  BY <2>1, <1>1
<1>18. ASSUME NEW o \in Outcomes
       PROVE  /\ RowShares(rows[o]) = b[a][o] /\ SoundRow(rows[o])
              /\ rows[o] # SqlNull => ~rows[o].redeemed
              /\ Booked(rows[o]) = Booked(position[a][o]) + d[o]
  <2>1. Booked(position[a][o]) \in Int
    BY <1>2, RowNumbers
  <2>2. CASE o \in Legs(k)
    <3>1. /\ rows[o] = BuyRow(position[a][o], shares, LegBasis(o, k, cost)) /\ d[o] = -LegBasis(o, k, cost)
          /\ b[a][o] = balance[a][o] + shares
      BY <2>2, <1>9
    <3> HIDE DEF rows, d, b
    <3>2. LegBasis(o, k, cost) \in Nat
      BY <2>2, <1>6
    <3>3. Booked(rows[o]) = Booked(position[a][o]) + d[o]
      BY <2>1, <2>2, <3>1, <3>2, <1>11
    <3>4. RowShares(rows[o]) = b[a][o] /\ SoundRow(rows[o]) /\ ~rows[o].redeemed
      BY <2>2, <3>1, <1>11
    <3> QED  BY <3>3, <3>4
  <2>3. CASE o \notin Legs(k)
    <3>1. rows[o] = position[a][o] /\ d[o] = 0 /\ b[a][o] = balance[a][o]
      BY <2>3, <1>9
    <3> HIDE DEF rows, d, b
    <3> QED  BY <2>1, <3>1, <1>4, RowsBeforeTrade
  <2> QED  BY <2>2, <2>3
<1>19. pot' = pot + cost
  BY <1>1
<1> HIDE DEF b, rows, d, held, legs
<1> QED  BY <1>3, <1>4, <1>8, <1>10, <1>12, <1>14, <1>16, <1>17, <1>18, <1>19, TradeKeeps

\* After resolution the portfolio shows an account that has not redeemed its winning shares, and
\* one that has nothing.
Unpaid(a) == IF a \in claimed THEN 0 ELSE balance[a][winner]

\* What is owed then is what is unpaid, and the seed.
LEMMA ResolvedLiability ==
    LedgerTypeOK /\ ClaimedRows /\ HoldingsMirrored /\ status = "RESOLVED" /\ winningOutcomeId = winner
      => Liability = SumFunction([a \in Accounts |-> Unpaid(a)]) + (IF seedClaimed THEN 0 ELSE SeedPerOutcome)
<1> SUFFICES ASSUME LedgerTypeOK, ClaimedRows, HoldingsMirrored, status = "RESOLVED", winningOutcomeId = winner
             PROVE  \A a \in Accounts : Worth(a) = Unpaid(a)
  BY DEF Liability
<1> TAKE a \in Accounts
<1>1. /\ winner \in Outcomes /\ \A o \in Outcomes : balance[a][o] \in Nat
      /\ \A o \in Outcomes : position[a][o] \in PositionType \cup {SqlNull}
  BY DEF LedgerTypeOK
<1>2. \A o \in Outcomes : RowShares(position[a][o]) = balance[a][o]
  BY StatusStrings DEF HoldingsMirrored
<1> DEFINE h == [o \in Outcomes |->
                  IF Unredeemed(position[a][o]) THEN MarkToMarket(position[a][o], o) ELSE 0]
<1>3. \A o \in Outcomes : h[o] = IF o = winner THEN Unpaid(a) ELSE 0
  <2> SUFFICES ASSUME NEW o \in Outcomes PROVE h[o] = IF o = winner THEN Unpaid(a) ELSE 0
    OBVIOUS
  <2>1. CASE position[a][o] = SqlNull
    <3>1. balance[a][o] = 0
      BY <1>2, <2>1 DEF RowShares
    <3>2. h[o] = 0
      BY <2>1 DEF Unredeemed
    <3> QED  BY <3>1, <3>2 DEF Unpaid
  <2>2. CASE position[a][o] # SqlNull /\ a \in claimed
    <3>1. ~Unredeemed(position[a][o])
      BY <2>2 DEF ClaimedRows, Unredeemed
    <3> QED  BY <3>1, <2>2 DEF Unpaid
  <2>3. CASE position[a][o] # SqlNull /\ a \notin claimed
    <3>1. Unredeemed(position[a][o])
      BY <2>3 DEF ClaimedRows, Unredeemed
    <3>2. position[a][o].shares = balance[a][o]
      BY <1>2, <2>3 DEF RowShares
    <3>3. MarkToMarket(position[a][o], o) = IF o = winner THEN balance[a][o] ELSE 0
      BY <2>3, <3>2 DEF MarkToMarket
    <3> QED  BY <3>1, <3>3, <2>3 DEF Unpaid
  <2> QED  BY <2>1, <2>2, <2>3
<1>4. Unpaid(a) \in Int
  BY <1>1 DEF Unpaid
<1>5. h \in [Outcomes -> Int]
  <2>1. \A o \in Outcomes : h[o] \in Int
    BY <1>3, <1>4
  <2>2. h = [o \in Outcomes |-> h[o]]
    OBVIOUS
  <2> HIDE DEF h
  <2> QED  BY <2>1, <2>2
<1>6. Worth(a) = SumFunction(h)
  BY DEF Worth
<1> HIDE DEF h
<1>7. SumFunction(h) = h[winner]
  BY <1>1, <1>3, <1>5, OutcomesFinite, TotalOfOne
<1> QED  BY <1>1, <1>3, <1>6, <1>7

\* The same of the state after a step.
LEMMA ResolvedLiabilityNext ==
    (LedgerTypeOK /\ ClaimedRows /\ HoldingsMirrored /\ status = "RESOLVED" /\ winningOutcomeId = winner)'
      => (Liability = SumFunction([a \in Accounts |-> Unpaid(a)]) + (IF seedClaimed THEN 0 ELSE SeedPerOutcome))'
BY ResolvedLiability, PTL

\* What is unpaid is a natural, and so is its sum.
LEMMA UnpaidNatural ==
    ASSUME LedgerTypeOK
    PROVE  /\ [a \in Accounts |-> Unpaid(a)] \in [Accounts -> Nat]
           /\ SumFunction([a \in Accounts |-> Unpaid(a)]) \in Nat
           /\ \A a \in Accounts : Unpaid(a) <= SumFunction([x \in Accounts |-> Unpaid(x)])
<1> DEFINE f == [a \in Accounts |-> Unpaid(a)]
<1>1. f \in [Accounts -> Nat]
  BY DEF LedgerTypeOK, Unpaid
<1>2. \A a \in Accounts : f[a] = Unpaid(a)
  OBVIOUS
<1> HIDE DEF f
<1>3. SumFunction(f) \in Nat /\ \A x \in Accounts : f[x] <= SumFunction(f)
  BY <1>1, TotalIsNatural, LedgerAssumption
<1>4. SumFunction(f) \in Nat /\ f \in [Accounts -> Nat] /\ \A a \in Accounts : Unpaid(a) <= SumFunction(f)
  BY <1>1, <1>2, <1>3
<1> QED  BY <1>4 DEF f

\* MarketResolved: the pot becomes the liability, and the engine keeps as much.
LEMMA ResolveKeeps == LedgerInv /\ OnResolved => LedgerInv'
<1> SUFFICES ASSUME LedgerInv, OnResolved PROVE LedgerInv'
  OBVIOUS
<1>1. PICK w \in Outcomes :
        LET owed == Outstanding(balance, w) IN
          /\ phase' = "resolved" /\ winner' = w /\ collateral' = owed
          /\ status' = "RESOLVED" /\ winningOutcomeId' = w
          /\ pot' = owed /\ surplus' = collateral - owed
  BY DEF OnResolved
<1> DEFINE owed == Outstanding(balance, w)
<1>2. /\ phase = "trading"
      /\ UNCHANGED <<balance, claimed, seedClaimed, cash, trades, currentShares, position>>
  BY DEF OnResolved
<1>3. LedgerTypeOK /\ Stages /\ ClaimedRows /\ HoldingsMirrored /\ BasisAccountsForCash
  BY DEF LedgerInv
<1>4. status = "TRADING" /\ claimed = {} /\ seedClaimed = FALSE /\ Solvent(balance, collateral)
  BY <1>2, <1>3 DEF Stages
<1>5. owed \in Nat /\ collateral \in Nat /\ owed <= collateral
  BY <1>3, <1>4, OutstandingCoversSeed DEF LedgerTypeOK, Solvent
<1>6. LedgerTypeOK'
  <2>1. collateral' \in Nat /\ pot' \in Int /\ surplus' \in Nat
    BY <1>1, <1>5
  <2> QED  BY <1>1, <1>2, <1>3, <2>1 DEF LedgerTypeOK, Statuses
<1>7. Stages'
  BY <1>1 DEF Stages
<1>8. ClaimedRows'
  BY <1>2, <1>3 DEF ClaimedRows
<1>9. HoldingsMirrored'
  BY <1>2, <1>3, <1>4, StatusStrings DEF HoldingsMirrored
<1>10. BasisAccountsForCash'
  BY <1>1, <1>2, <1>3 DEF BasisAccountsForCash
<1>11. PotIsCollateral'
  <2>1. (Liability = SumFunction([a \in Accounts |-> Unpaid(a)]) + (IF seedClaimed THEN 0 ELSE SeedPerOutcome))'
    BY <1>1, <1>6, <1>8, <1>9, ResolvedLiabilityNext
  <2>2. ([a \in Accounts |-> Unpaid(a)])' = [a \in Accounts |-> balance[a][w]]
    BY <1>1, <1>2, <1>4 DEF Unpaid
  <2>3. SumFunction([a \in Accounts |-> balance[a][w]]) \in Int
    <3>1. [a \in Accounts |-> balance[a][w]] \in [Accounts -> Int]
      BY <1>3 DEF LedgerTypeOK
    <3> QED  BY <3>1, TotalIsInteger, LedgerAssumption
  <2>4. Liability' = owed
    BY <1>2, <1>4, <2>1, <2>2, <2>3, LedgerAssumption DEF Outstanding
  <2>5. pot' = owed /\ collateral' = owed /\ status' = "RESOLVED"
    BY <1>1
  <2> QED  BY <1>5, <2>4, <2>5 DEF PotIsCollateral
<1> QED  BY <1>6, <1>7, <1>8, <1>9, <1>10, <1>11 DEF LedgerInv

\* What a void market refunds an account is a natural.
LEMMA RefundNatural ==
    ASSUME LedgerInv, NEW a \in Accounts
    PROVE  Refund(a) \in Nat
<1> DEFINE f == [o \in Outcomes |-> IF position[a][o] = SqlNull THEN 0 ELSE position[a][o].costBasis]
<1>1. ASSUME NEW o \in Outcomes PROVE f[o] \in Nat
  <2>1. CASE position[a][o] = SqlNull
    BY <2>1
  <2>2. CASE position[a][o] # SqlNull
    <3>1. position[a][o] \in PositionType
      BY <2>2 DEF LedgerInv, LedgerTypeOK
    <3>2. position[a][o].costBasis \in Int /\ position[a][o].costBasis >= 0
      BY <2>2, <3>1 DEF PositionType, LedgerInv, BasisAccountsForCash
    <3> QED  BY <2>2, <3>2
  <2> QED  BY <2>1, <2>2
<1>2. f \in [Outcomes -> Nat]
  BY <1>1
<1>3. Refund(a) = SumFunction(f)
  BY DEF Refund
<1> HIDE DEF f
<1> QED  BY <1>2, <1>3, OutcomesFinite, TotalIsNatural

\* MarketInvalidated: what is swept leaves the engine and stays in the pot.
LEMMA InvalidateKeeps == LedgerInv /\ OnInvalidated => LedgerInv'
<1> SUFFICES ASSUME LedgerInv, OnInvalidated PROVE LedgerInv'
  OBVIOUS
<1> DEFINE refunds == SumFunction([a \in Accounts |-> Refund(a)])
           swept   == IF refunds < collateral THEN collateral - refunds ELSE 0
<1>1. /\ phase = "trading" /\ phase' = "void" /\ collateral' = collateral - swept
      /\ status' = "INVALID" /\ surplus' = swept
      /\ UNCHANGED <<winner, balance, claimed, seedClaimed, cash, trades, winningOutcomeId, pot, currentShares, position>>
  BY DEF OnInvalidated
<1>2. LedgerTypeOK /\ Stages /\ ClaimedRows /\ HoldingsMirrored /\ PotIsCollateral /\ BasisAccountsForCash
  BY DEF LedgerInv
<1>3. status = "TRADING" /\ claimed = {} /\ seedClaimed = FALSE
  BY <1>1, <1>2 DEF Stages
<1>4. refunds \in Nat
  <2> DEFINE f == [a \in Accounts |-> Refund(a)]
  <2>1. f \in [Accounts -> Nat]
    BY RefundNatural
  <2> HIDE DEF f
  <2>2. SumFunction(f) \in Nat
    BY <2>1, TotalIsNatural, LedgerAssumption
  <2> QED  BY <2>2 DEF f
<1>5. collateral \in Nat /\ pot = collateral
  BY <1>2, <1>3 DEF LedgerTypeOK, PotIsCollateral
<1> HIDE DEF refunds
<1>6. swept \in Nat /\ collateral - swept \in Nat
  BY <1>4, <1>5
<1> HIDE DEF swept
<1>7. LedgerTypeOK'
  <2>1. collateral' \in Nat /\ surplus' \in Nat
    BY <1>1, <1>6
  <2> QED  BY <1>1, <1>2, <2>1 DEF LedgerTypeOK, Statuses
<1>8. Stages'
  BY <1>1 DEF Stages
<1>9. ClaimedRows'
  BY <1>1, <1>2 DEF ClaimedRows
<1>10. HoldingsMirrored'
  BY <1>1, <1>2, <1>3, StatusStrings DEF HoldingsMirrored
<1>11. PotIsCollateral'
  BY <1>1, <1>5, <1>6 DEF PotIsCollateral
<1>12. BasisAccountsForCash'
  BY <1>1, <1>2 DEF BasisAccountsForCash
<1> QED  BY <1>7, <1>8, <1>9, <1>10, <1>11, <1>12 DEF LedgerInv

\* Redeemed: the account is paid no more than there is, its rows are closed, and pot, collateral
\* and liability fall by the payout.
LEMMA RedeemKeeps == LedgerInv /\ OnRedeemed => LedgerInv'
<1> SUFFICES ASSUME LedgerInv, OnRedeemed PROVE LedgerInv'
  OBVIOUS
<1>1. PICK a \in Accounts \ claimed : LET payout == Payout(a) IN
        /\ phase \in {"resolved", "void"} /\ Holds(a)
        /\ claimed' = claimed \cup {a}
        /\ collateral' = collateral - payout
        /\ cash' = [cash EXCEPT ![a] = @ + payout]
        /\ position' = [position EXCEPT ![a] = [o \in Outcomes |-> CloseRow(@[o], payout)]]
        /\ pot' = pot - payout
        /\ UNCHANGED <<phase, winner, balance, seedClaimed, trades, status, winningOutcomeId, surplus, currentShares>>
  BY DEF OnRedeemed
<1> DEFINE payout == Payout(a)
           rows == [o \in Outcomes |-> CloseRow(position[a][o], payout)]
<1>2. LedgerTypeOK /\ Stages /\ ClaimedRows /\ HoldingsMirrored /\ PotIsCollateral /\ BasisAccountsForCash
  BY DEF LedgerInv
<1>3. /\ balance \in [Accounts -> [Outcomes -> Nat]] /\ winner \in Outcomes /\ collateral \in Nat /\ pot \in Int
      /\ position \in [Accounts -> [Outcomes -> PositionType \cup {SqlNull}]]
      /\ cash \in [Accounts -> Int] /\ claimed \subseteq Accounts /\ surplus \in Nat
  BY <1>2 DEF LedgerTypeOK
<1>4. phase = "resolved" => /\ status = "RESOLVED" /\ winningOutcomeId = winner
                            /\ pot = Liability /\ pot = collateral
  BY <1>2, <1>3 DEF Stages, PotIsCollateral
<1>5. phase = "void" => status = "INVALID"
  BY <1>2 DEF Stages
<1>6. phase = "resolved" => collateral = SumFunction([x \in Accounts |-> Unpaid(x)])
                                           + (IF seedClaimed THEN 0 ELSE SeedPerOutcome)
  BY <1>2, <1>4, ResolvedLiability
<1>7. payout \in Nat /\ payout <= collateral /\ (phase = "resolved" => payout = Unpaid(a))
  <2>1. CASE phase = "resolved"
    <3>1. payout = Unpaid(a) /\ payout = balance[a][winner]
      BY <1>1, <2>1 DEF Payout, Unpaid
    <3>2. Unpaid(a) <= SumFunction([x \in Accounts |-> Unpaid(x)]) /\ SumFunction([x \in Accounts |-> Unpaid(x)]) \in Nat
      BY <1>2, UnpaidNatural
    <3> DEFINE total == SumFunction([x \in Accounts |-> Unpaid(x)])
    <3> HIDE DEF total, payout
    <3>3. payout \in Nat /\ payout <= total /\ total \in Nat /\ total <= collateral
      <4>1. collateral = total + (IF seedClaimed THEN 0 ELSE SeedPerOutcome) /\ SeedPerOutcome \in Nat
        BY <1>6, <2>1, LedgerAssumption DEF total
      <4>2. payout <= total /\ total \in Nat
        BY <3>1, <3>2 DEF total
      <4>3. balance[a][winner] \in Nat
        BY <1>1, <1>3
      <4> QED  BY <4>1, <4>2, <4>3, <3>1
    <3> QED  BY <1>3, <3>1, <3>3
  <2>2. CASE phase # "resolved"
    <3>1. payout = IF Refund(a) < collateral THEN Refund(a) ELSE collateral
      BY <2>2 DEF Payout
    <3>2. Refund(a) \in Nat
      BY <1>1, RefundNatural
    <3> HIDE DEF payout
    <3> QED  BY <1>3, <2>2, <3>1, <3>2
  <2> QED  BY <2>1, <2>2
<1> HIDE DEF payout
<1>8. /\ position' = [position EXCEPT ![a] = rows]
      /\ cash' = [cash EXCEPT ![a] = cash[a] + payout]
      /\ collateral' = collateral - payout /\ pot' = pot - payout
  <2>1. position' = [position EXCEPT ![a] = rows]
    BY <1>1 DEF payout
  <2>2. cash' = [cash EXCEPT ![a] = cash[a] + payout]
    BY <1>1 DEF payout
  <2>3. collateral' = collateral - payout /\ pot' = pot - payout
    BY <1>1 DEF payout
  <2> QED  BY <2>1, <2>2, <2>3
<1>9. ASSUME NEW o \in Outcomes, position[a][o] # SqlNull
      PROVE  /\ rows[o] \in PositionType /\ rows[o] # SqlNull /\ rows[o].redeemed
             /\ rows[o].shares = position[a][o].shares /\ rows[o].costBasis = position[a][o].costBasis
  <2>1. position[a][o] \in PositionType
    BY <1>1, <1>3, <1>9
  <2>2. position[a][o].realizedPnl + payout \in Int
    BY <2>1, <1>7 DEF PositionType
  <2>3. rows[o] = [position[a][o] EXCEPT !.redeemed = TRUE, !.realizedPnl = position[a][o].realizedPnl + payout]
    BY <1>9 DEF CloseRow
  <2> HIDE DEF rows
  <2>4. /\ rows[o] \in PositionType /\ rows[o].redeemed
        /\ rows[o].shares = position[a][o].shares /\ rows[o].costBasis = position[a][o].costBasis
    BY <2>1, <2>2, <2>3 DEF PositionType
  <2> QED  BY <2>4, NoRowIsNull
<1>10. ASSUME NEW o \in Outcomes, position[a][o] = SqlNull PROVE rows[o] = SqlNull
  BY <1>10 DEF CloseRow
<1>11. rows \in [Outcomes -> PositionType \cup {SqlNull}]
  <2>1. \A o \in Outcomes : rows[o] \in PositionType \cup {SqlNull}
    <3> HIDE DEF rows
    <3> QED  BY <1>9, <1>10
  <2>2. rows = [o \in Outcomes |-> rows[o]]
    OBVIOUS
  <2> HIDE DEF rows
  <2> QED  BY <2>1, <2>2
<1> HIDE DEF rows
<1>12. position'[a] = rows /\ \A x \in Accounts \ {a} : position'[x] = position[x]
  BY <1>1, <1>3, <1>8
<1>13. LedgerTypeOK'
  <2>1. position' \in [Accounts -> [Outcomes -> PositionType \cup {SqlNull}]]
    BY <1>3, <1>8, <1>11
  <2>2. cash' \in [Accounts -> Int]
    <3>1. cash[a] + payout \in Int
      BY <1>3, <1>7
    <3> QED  BY <1>3, <1>8, <3>1
  <2>3. collateral' \in Nat /\ pot' \in Int
    BY <1>3, <1>7, <1>8
  <2>4. claimed' \subseteq Accounts
    BY <1>1, <1>3
  <2> QED  BY <1>1, <1>2, <2>1, <2>2, <2>3, <2>4 DEF LedgerTypeOK
<1>14. Stages'
  BY <1>1, <1>4, <1>5 DEF Stages
<1>15. ClaimedRows'
  <2> SUFFICES ASSUME NEW x \in Accounts, NEW o \in Outcomes, position'[x][o] # SqlNull
               PROVE  position'[x][o].redeemed <=> x \in claimed'
    BY DEF ClaimedRows
  <2>1. CASE x = a
    <3>1. position[a][o] # SqlNull
      BY <1>10, <1>12, <2>1
    <3> QED  BY <1>1, <1>9, <1>12, <2>1, <3>1
  <2>2. CASE x # a
    BY <1>1, <1>2, <1>12, <2>2 DEF ClaimedRows
  <2> QED  BY <2>1, <2>2
<1>16. HoldingsMirrored'
  <2>1. status # SqlNull /\ status' = status
    BY <1>1, <1>4, <1>5, StatusStrings
  <2>2. ASSUME NEW x \in Accounts, NEW o \in Outcomes PROVE RowShares(position'[x][o]) = balance'[x][o]
    <3>1. RowShares(position[x][o]) = balance[x][o] /\ balance' = balance
      BY <1>1, <1>2, <2>1 DEF HoldingsMirrored
    <3>2. CASE x # a
      BY <1>12, <3>1, <3>2
    <3>3. CASE x = a /\ position[a][o] = SqlNull
      BY <1>10, <1>12, <3>1, <3>3
    <3>4. CASE x = a /\ position[a][o] # SqlNull
      <4>1. RowShares(rows[o]) = RowShares(position[a][o])
        BY <1>9, <3>4 DEF RowShares
      <4> QED  BY <1>12, <3>1, <3>4, <4>1
    <3> QED  BY <3>2, <3>3, <3>4
  <2>3. \A o \in Outcomes : currentShares'[o] = Outstanding(balance', o)
    BY <1>1, <1>2, <2>1 DEF HoldingsMirrored
  <2> QED  BY <2>2, <2>3 DEF HoldingsMirrored
<1>17. BasisAccountsForCash'
  <2>1. status' # "TRADING"
    BY <1>1, <1>4, <1>5
  <2>2. ASSUME NEW x \in Accounts, NEW o \in Outcomes PROVE SoundRow(position'[x][o])
    <3>1. SoundRow(position[x][o])
      BY <1>2 DEF BasisAccountsForCash, SoundRow
    <3>2. CASE x # a
      BY <1>12, <3>1, <3>2
    <3>3. CASE x = a /\ position[a][o] = SqlNull
      BY <1>10, <1>12, <3>1, <3>3
    <3>4. CASE x = a /\ position[a][o] # SqlNull
      BY <1>9, <1>12, <3>1, <3>4 DEF SoundRow
    <3> QED  BY <3>2, <3>3, <3>4
  <2> QED  BY <2>1, <2>2 DEF BasisAccountsForCash, SoundRow
<1>18. PotIsCollateral'
  <2>1. CASE phase = "void"
    <3>1. status = "INVALID" /\ pot = collateral + surplus
      BY <1>2, <1>5, <2>1 DEF PotIsCollateral
    <3>2. pot' = pot - payout /\ collateral' = collateral - payout /\ surplus' = surplus /\ status' = "INVALID"
      BY <1>1, <1>8, <3>1
    <3>3. pot' = collateral' + surplus'
      BY <1>3, <1>7, <3>1, <3>2
    <3> QED  BY <3>2, <3>3 DEF PotIsCollateral
  <2>2. CASE phase = "resolved"
    <3> DEFINE f == [x \in Accounts |-> Unpaid(x)]
               h == [x \in Accounts |-> IF x = a THEN 0 ELSE Unpaid(x)]
               seed == IF seedClaimed THEN 0 ELSE SeedPerOutcome
    <3>1. f' = h
      BY <1>1 DEF Unpaid
    <3>2. (Liability = SumFunction([x \in Accounts |-> Unpaid(x)]) + (IF seedClaimed THEN 0 ELSE SeedPerOutcome))'
      BY <1>1, <1>4, <1>13, <1>15, <1>16, <2>2, ResolvedLiabilityNext
    <3>3. Liability' = SumFunction(h) + seed
      BY <1>1, <3>1, <3>2
    <3>4. f \in [Accounts -> Int] /\ h \in [Accounts -> Int] /\ f[a] = payout /\ h[a] = 0
          /\ \A y \in Accounts \ {a} : h[y] = f[y]
      <4>1. \A x \in Accounts : Unpaid(x) \in Nat
        BY <1>3 DEF Unpaid
      <4>2. a \in Accounts /\ f[a] = payout
        BY <1>1, <1>7, <2>2
      <4>3. f \in [Accounts -> Int] /\ h \in [Accounts -> Int]
        BY <4>1
      <4>4. h[a] = 0 /\ \A y \in Accounts \ {a} : h[y] = f[y]
        BY <4>2
      <4> QED  BY <4>2, <4>3, <4>4
    <3>5. collateral = SumFunction(f) + seed
      BY <1>6, <2>2
    <3> HIDE DEF f, h
    <3>6. SumFunction(h) = SumFunction(f) + (0 - payout)
      <4>0. IsFiniteSet(Accounts) /\ a \in Accounts
        BY <1>1, LedgerAssumption
      <4>1. SumFunction(h) = SumFunction(f) + (h[a] - f[a])
        BY <4>0, <3>4, TotalMoves
      <4> QED  BY <3>4, <4>1
    <3>7. SumFunction(f) \in Int /\ seed \in Int
      BY <3>4, TotalIsInteger, LedgerAssumption
    <3> HIDE DEF seed
    <3>8. Liability' = collateral - payout
      BY <1>3, <1>7, <3>3, <3>5, <3>6, <3>7
    <3>9. pot' = collateral - payout /\ collateral' = collateral - payout /\ status' = "RESOLVED"
      BY <1>1, <1>2, <1>4, <1>8, <2>2 DEF PotIsCollateral
    <3> QED  BY <1>3, <1>7, <3>8, <3>9 DEF PotIsCollateral
  <2> QED  BY <1>1, <2>1, <2>2
<1> QED  BY <1>13, <1>14, <1>15, <1>16, <1>17, <1>18 DEF LedgerInv

\* SeedRedeemed: a resolved market pays the seed, which was part of the liability.
LEMMA SeedKeeps == LedgerInv /\ OnSeedRedeemed => LedgerInv'
<1> SUFFICES ASSUME LedgerInv, OnSeedRedeemed PROVE LedgerInv'
  OBVIOUS
<1> DEFINE amount == IF phase = "resolved" THEN SeedPerOutcome ELSE 0
<1>1. /\ phase \in {"resolved", "void"} /\ seedClaimed = FALSE /\ seedClaimed' = TRUE
      /\ collateral' = collateral - amount /\ pot' = IF amount = 0 THEN pot ELSE pot - amount
      /\ UNCHANGED <<phase, winner, balance, claimed, cash, trades, status, winningOutcomeId, surplus, currentShares, position>>
  <2>1. /\ phase \in {"resolved", "void"} /\ ~seedClaimed /\ seedClaimed' = TRUE
        /\ collateral' = collateral - amount /\ pot' = IF amount = 0 THEN pot ELSE pot - amount
        /\ UNCHANGED <<phase, winner, balance, claimed, cash, trades, status, winningOutcomeId, surplus, currentShares, position>>
    BY DEF OnSeedRedeemed
  <2>2. seedClaimed \in BOOLEAN
    BY DEF LedgerInv, LedgerTypeOK
  <2> QED  BY <2>1, <2>2
<1>2. LedgerTypeOK /\ Stages /\ ClaimedRows /\ HoldingsMirrored /\ PotIsCollateral /\ BasisAccountsForCash
  BY DEF LedgerInv
<1>3. collateral \in Nat /\ pot \in Int /\ SeedPerOutcome \in Nat /\ surplus \in Nat
  BY <1>2, LedgerAssumption DEF LedgerTypeOK
<1>4. /\ phase = "resolved" => status = "RESOLVED" /\ winningOutcomeId = winner
      /\ phase = "void" => status = "INVALID"
  BY <1>2 DEF Stages
<1> DEFINE total == SumFunction([x \in Accounts |-> Unpaid(x)])
<1>5. total \in Nat
  BY <1>2, UnpaidNatural
<1>6. phase = "resolved" => Liability = total + SeedPerOutcome /\ pot = Liability /\ pot = collateral
  <2>1. phase = "resolved" => Liability = total + (IF seedClaimed THEN 0 ELSE SeedPerOutcome)
    BY <1>2, <1>4, ResolvedLiability
  <2> HIDE DEF total
  <2>2. phase = "resolved" => pot = Liability /\ pot = collateral
    BY <1>2, <1>3, <1>4 DEF PotIsCollateral
  <2> QED  BY <1>1, <2>1, <2>2
<1>7. total' = total
  BY <1>1 DEF Unpaid
<1> HIDE DEF total
<1>8. amount \in Nat /\ amount <= collateral
  BY <1>3, <1>5, <1>6
<1>9. pot' = pot - amount
  BY <1>1, <1>3, <1>8
<1>10. LedgerTypeOK'
  <2> HIDE DEF amount
  <2>1. collateral' \in Nat /\ pot' \in Int
    BY <1>1, <1>3, <1>8, <1>9
  <2> QED  BY <1>1, <1>2, <2>1 DEF LedgerTypeOK
<1>11. Stages'
  BY <1>1, <1>2 DEF Stages
<1>12. ClaimedRows'
  BY <1>1, <1>2 DEF ClaimedRows
<1>13. HoldingsMirrored'
  BY <1>1, <1>2 DEF HoldingsMirrored
<1>14. BasisAccountsForCash'
  BY <1>1, <1>2 DEF BasisAccountsForCash
<1>15. PotIsCollateral'
  <2>1. CASE phase = "void"
    <3>1. pot' = pot /\ collateral' = collateral /\ status' = status /\ surplus' = surplus /\ status = "INVALID"
      BY <1>1, <1>3, <1>4, <2>1
    <3>2. pot = collateral + surplus
      BY <1>2, <3>1 DEF PotIsCollateral
    <3> QED  BY <3>1, <3>2 DEF PotIsCollateral
  <2>2. CASE phase = "resolved"
    <3>1. (Liability = total + (IF seedClaimed THEN 0 ELSE SeedPerOutcome))'
      BY <1>1, <1>4, <1>10, <1>12, <1>13, <2>2, ResolvedLiabilityNext DEF total
    <3>2. Liability' = total
      BY <1>1, <1>5, <1>7, <3>1
    <3>3. pot' = total /\ collateral' = total /\ status' = "RESOLVED"
      BY <1>1, <1>3, <1>4, <1>5, <1>6, <1>9, <2>2
    <3> QED  BY <1>5, <3>2, <3>3 DEF PotIsCollateral
  <2> QED  BY <1>1, <2>1, <2>2
<1> QED  BY <1>10, <1>11, <1>12, <1>13, <1>14, <1>15 DEF LedgerInv

\* Every step keeps the invariant.
LEMMA LedgerStep == LedgerInv /\ [LedgerNext]_ledgerVars => LedgerInv'
<1> SUFFICES ASSUME LedgerInv, [LedgerNext]_ledgerVars PROVE LedgerInv'
  OBVIOUS
<1>1. CASE LedgerNext
  BY <1>1, CreateKeeps, BuyKeeps, SellKeeps, ShortKeeps, ResolveKeeps, InvalidateKeeps, RedeemKeeps, SeedKeeps
     DEF LedgerNext
<1>2. CASE UNCHANGED ledgerVars
  <2>1. /\ LedgerTypeOK' = LedgerTypeOK /\ Stages' = Stages /\ ClaimedRows' = ClaimedRows
        /\ HoldingsMirrored' = HoldingsMirrored /\ BasisAccountsForCash' = BasisAccountsForCash
    BY <1>2 DEF ledgerVars, engineVars, LedgerTypeOK, Stages, ClaimedRows, HoldingsMirrored, BasisAccountsForCash
  <2>2. PotIsCollateral' = PotIsCollateral
    BY <1>2 DEF ledgerVars, engineVars, PotIsCollateral, Liability, Worth, MarkToMarket
  <2> QED  BY <2>1, <2>2 DEF LedgerInv
<1> QED  BY <1>1, <1>2

\* The engine's state and the rows keep their types: no balance, outcome or collateral is negative.
THEOREM LedgerTypes == LedgerSpec => []LedgerTypeOK
<1>1. LedgerInv => LedgerTypeOK
  BY DEF LedgerInv
<1> QED  BY <1>1, LedgerStarts, LedgerStep, PTL DEF LedgerSpec

\* updatePosition: account by account the rows hold what the engine holds, and every outcome's stock
\* is what is outstanding, through buys, sells and the fan-out of shorts.
THEOREM LedgerMirrorsHoldings == LedgerSpec => []HoldingsMirrored
<1>1. LedgerInv => HoldingsMirrored
  BY DEF LedgerInv
<1> QED  BY <1>1, LedgerStarts, LedgerStep, PTL DEF LedgerSpec

\* Market.pot: the collateral the market holds, and after resolution the outstanding liability, through
\* every trade and every redemption.
THEOREM PotTracksCollateral == LedgerSpec => []PotIsCollateral
<1>1. LedgerInv => PotIsCollateral
  BY DEF LedgerInv
<1> QED  BY <1>1, LedgerStarts, LedgerStep, PTL DEF LedgerSpec

\* updatePosition, onShort: the cost basis and the realised profit of an account's rows account for its
\* cash to the unit, whatever the divisions rounded.
THEOREM RowsAccountForCash == LedgerSpec => []BasisAccountsForCash
<1>1. LedgerInv => BasisAccountsForCash
  BY DEF LedgerInv
<1> QED  BY <1>1, LedgerStarts, LedgerStep, PTL DEF LedgerSpec
=============================================================================
