-------------------------- MODULE ResolutionMirror --------------------------
(***************************************************************************)
(* One market's bonded resolution and the ResolutionProposal row that      *)
(* mirrors it: the handlers onProposed .. onResolutionCleared and          *)
(* announceResolution of src/chain/event-processor.service.ts.             *)
(*                                                                         *)
(* The resolver contract is external: it emits a sequence of logs.  The    *)
(* indexer handles them in order (MarketIndexer), commits its cursor now   *)
(* and then, and after a failed tick starts over from the cursor, so that  *)
(* a handler may meet a row that a later log has already written.  A       *)
(* handler awaits its row write, and announceResolution then awaits the    *)
(* cache's deletions, a read of the row and the publication: each may      *)
(* throw, and the process may die between any two.                         *)
(***************************************************************************)
EXTENDS Integers, Sequences

CONSTANTS
    Parties,     \* market accounts that propose and dispute
    Answers,     \* outcome indices
    Void,        \* INVALID_OUTCOME: "void this market"
    Null,        \* SQL NULL, and the zero address
    MaxLogs,     \* bound: logs of the resolver
    MaxReplays   \* bound: failed ticks

Claims == Answers \cup {Void}

ASSUME ResolutionAssumption ==
    Void \notin Answers /\ MaxLogs \in Nat /\ MaxReplays \in Nat

\* OptimisticResolver logs.  A log carries the fields its handler stores.
LogTypes ==
    [type : {"Proposed"}, proposer : Parties, outcome : Claims, bonded : BOOLEAN]
    \cup [type : {"Disputed"}, disputer : Parties, outcome : Claims]
    \cup [type : {"Finalized"}, outcome : Claims]
    \cup [type : {"Arbitrated"}, outcome : Claims, loser : Parties \cup {Null}]
    \cup [type : {"Slashed"}, account : Parties]
    \cup [type : {"ProposalAbandoned", "DisputeReset"}]

VARIABLES
    \* the resolver
    stage,      \* "NONE", "PROPOSED", "DISPUTED", "SETTLED"
    proposal,   \* the live proposal: who, what, staked or not
    dispute,    \* the live dispute: who, what
    ruling,     \* the settlement: how, what, who lost
    log,        \* every log emitted so far
    \* the indexer
    listed,     \* the market has a row to subscribe to
    next,       \* logs handled
    handler,    \* the handler of the next log: what it is about to do, and the phase it read back
    cursor,     \* logs committed
    replays,    \* bound counter
    row,        \* the resolution_proposals row, or Null
    written,    \* history: the last log whose handler has written the row
    announced   \* the phase last pushed to the market's subscribers

chainVars == <<stage, proposal, dispute, ruling, log>>
mirrorVars == <<listed, next, handler, cursor, replays, row, written, announced>>
vars == <<chainVars, mirrorVars>>

NoProposal == [proposer |-> Null, outcome |-> Null, bonded |-> FALSE]
NoDispute  == [disputer |-> Null, outcome |-> Null]
NoRuling   == [route |-> Null, outcome |-> Null, loser |-> Null]

-----------------------------------------------------------------------------
(***************************************************************************)
(* The resolver.  (External: from the events it emits and the comments of  *)
(* the handlers that decode them.)                                         *)
(***************************************************************************)
Emit(s) == Len(log) + Len(s) <= MaxLogs /\ log' = log \o s

Propose ==
    /\ stage = "NONE"
    /\ \E p \in Parties, o \in Claims, b \in BOOLEAN :
          /\ proposal' = [proposer |-> p, outcome |-> o, bonded |-> b]
          /\ Emit(<<[type |-> "Proposed", proposer |-> p, outcome |-> o, bonded |-> b]>>)
    /\ stage' = "PROPOSED"
    /\ UNCHANGED <<dispute, ruling>>

Dispute ==
    /\ stage = "PROPOSED"
    /\ \E d \in Parties \ {proposal.proposer}, o \in Claims \ {proposal.outcome} :
          /\ dispute' = [disputer |-> d, outcome |-> o]
          /\ Emit(<<[type |-> "Disputed", disputer |-> d, outcome |-> o]>>)
    /\ stage' = "DISPUTED"
    /\ UNCHANGED <<proposal, ruling>>

Finalize ==
    /\ stage = "PROPOSED"
    /\ ruling' = [route |-> "FINALIZED", outcome |-> proposal.outcome, loser |-> Null]
    /\ Emit(<<[type |-> "Finalized", outcome |-> proposal.outcome]>>)
    /\ stage' = "SETTLED"
    /\ UNCHANGED <<proposal, dispute>>

\* The loser forfeits and is slashed, in the same transaction; overturning a bond-free proposal
\* leaves nobody to punish.
Arbitrate ==
    /\ stage = "DISPUTED"
    /\ \E upheld \in BOOLEAN :
          LET outcome == IF upheld THEN proposal.outcome ELSE dispute.outcome
              loser   == IF upheld THEN dispute.disputer
                         ELSE IF proposal.bonded THEN proposal.proposer ELSE Null
              award   == [type |-> "Arbitrated", outcome |-> outcome, loser |-> loser]
              slash   == [type |-> "Slashed", account |-> loser]
          IN  /\ ruling' = [route |-> "ARBITRATED", outcome |-> outcome, loser |-> loser]
              /\ IF loser = Null THEN Emit(<<award>>)
                 ELSE Emit(<<award, slash>>) \/ Emit(<<slash, award>>)
    /\ stage' = "SETTLED"
    /\ UNCHANGED <<proposal, dispute>>

\* A stake comes back without a settlement: an abandoned proposal, or a dispute nobody ruled on.
Unwind ==
    /\ \/ stage = "PROPOSED" /\ Emit(<<[type |-> "ProposalAbandoned"]>>)
       \/ stage = "DISPUTED" /\ Emit(<<[type |-> "DisputeReset"]>>)
    /\ stage' = "NONE"
    /\ proposal' = NoProposal /\ dispute' = NoDispute
    /\ UNCHANGED ruling

-----------------------------------------------------------------------------
(***************************************************************************)
(* The handlers: the row a log leaves.                                     *)
(***************************************************************************)
OutcomeOrVoid(o) == IF o = Void THEN Null ELSE o

\* Upserted; dispute and settlement columns are cleared, whatever was there.
OnProposed(r, l) ==
    [phase |-> "PROPOSED", proposer |-> l.proposer, proposedOutcome |-> OutcomeOrVoid(l.outcome),
     proposerBonded |-> l.bonded, disputer |-> Null, counterOutcome |-> Null, route |-> Null,
     settledOutcome |-> Null, forfeited |-> FALSE, loser |-> Null, settledAt |-> FALSE]

OnDisputed(r, l) ==
    [r EXCEPT !.phase = "DISPUTED", !.disputer = l.disputer, !.counterOutcome = OutcomeOrVoid(l.outcome)]

OnFinalized(r, l) ==
    [r EXCEPT !.phase = "SETTLED", !.route = "FINALIZED", !.settledOutcome = OutcomeOrVoid(l.outcome),
              !.settledAt = TRUE]

OnArbitrated(r, l) ==
    [r EXCEPT !.phase = "SETTLED", !.route = "ARBITRATED", !.settledOutcome = OutcomeOrVoid(l.outcome),
              !.forfeited = (l.loser # Null), !.loser = l.loser]

OnSlashed(r, l) ==
    [r EXCEPT !.loser = l.account, !.forfeited = TRUE, !.settledAt = TRUE]

\* onResolutionCleared leaving the disputed attempt's columns.
OnClearedPhaseOnly(r) == [r EXCEPT !.phase = "NONE"]
OnResolutionCleared(r) ==
    [r EXCEPT !.phase = "NONE", !.proposer = Null, !.proposedOutcome = Null, !.proposerBonded = FALSE,
              !.disputer = Null, !.counterOutcome = Null]

\* Everything but onProposed is an updateMany, which touches nothing when there is no row.
Handle(r, l) ==
    IF l.type = "Proposed" THEN OnProposed(r, l)
    ELSE IF r = Null THEN Null
    ELSE CASE l.type = "Disputed" -> OnDisputed(r, l)
           [] l.type = "Finalized" -> OnFinalized(r, l)
           [] l.type = "Arbitrated" -> OnArbitrated(r, l)
           [] l.type = "Slashed" -> OnSlashed(r, l)
           [] OTHER -> OnResolutionCleared(r)

\* Every handler but onSlashed ends in announceResolution.
Announces(l) == l.type # "Slashed"

Phase(r) == IF r = Null THEN "NONE" ELSE r.phase

Idle == [at |-> "write", read |-> "NONE"]

-----------------------------------------------------------------------------
\* MarketIndexer brings every log of a market behind its creation, so a market the handlers do not
\* find is one created before the indexer's first block, and stays unlisted.
Init ==
    /\ stage = "NONE" /\ proposal = NoProposal /\ dispute = NoDispute /\ ruling = NoRuling
    /\ log = <<>>
    /\ listed \in BOOLEAN
    /\ next = 0 /\ handler = Idle /\ cursor = 0 /\ replays = 0
    /\ row = Null /\ written = 0 /\ announced = "NONE"

\* The next log's handler looks the market up and writes the row.  It is done if it announces
\* nothing, or if there is no market to announce to.
WriteRow ==
    /\ handler.at = "write" /\ next < Len(log)
    /\ row' = Handle(row, log[next + 1])
    /\ written' = IF next + 1 > written THEN next + 1 ELSE written
    /\ IF listed /\ Announces(log[next + 1])
       THEN handler' = [handler EXCEPT !.at = "drop"] /\ UNCHANGED next
       ELSE next' = next + 1 /\ UNCHANGED handler
    /\ UNCHANGED <<chainVars, listed, cursor, replays, announced>>

\* announceResolution deletes the cached views of the market (MarketFeed) ...
DropViews ==
    /\ handler.at = "drop"
    /\ handler' = [handler EXCEPT !.at = "read"]
    /\ UNCHANGED <<chainVars, listed, next, cursor, replays, row, written, announced>>

\* ... reads the row back ...
ReadBack ==
    /\ handler.at = "read"
    /\ handler' = [at |-> "publish", read |-> Phase(row)]
    /\ UNCHANGED <<chainVars, listed, next, cursor, replays, row, written, announced>>

\* A publication whose failure is caught and passed over, as that of a price read is.
PublishOrPassOver ==
    /\ handler.at = "publish"
    /\ announced' \in {announced, handler.read}
    /\ next' = next + 1 /\ handler' = Idle
    /\ UNCHANGED <<chainVars, listed, cursor, replays, row, written>>
\* ... and publishes its phase.
Publish ==
    /\ handler.at = "publish"
    /\ announced' = handler.read
    /\ next' = next + 1 /\ handler' = Idle
    /\ UNCHANGED <<chainVars, listed, cursor, replays, row, written>>

Commit ==
    /\ handler.at = "write" /\ cursor < next
    /\ cursor' = next
    /\ UNCHANGED <<chainVars, listed, next, handler, replays, row, written, announced>>

\* An await throws, or the process dies, after some rows were written: the next tick handles its
\* logs again.
Replay ==
    /\ cursor < next \/ handler.at # "write"
    /\ replays < MaxReplays /\ replays' = replays + 1
    /\ next' = cursor /\ handler' = Idle
    /\ UNCHANGED <<chainVars, listed, cursor, row, written, announced>>

Resolver == (Propose \/ Dispute \/ Finalize \/ Arbitrate \/ Unwind) /\ UNCHANGED mirrorVars
Handler == WriteRow \/ DropViews \/ ReadBack \/ Publish
Next == Resolver \/ Handler \/ Commit \/ Replay
Spec == Init /\ [][Next]_vars

-----------------------------------------------------------------------------
(***************************************************************************)
(* Properties                                                              *)
(***************************************************************************)
OptionalOutcome == Answers \cup {Null}
Phases == {"NONE", "PROPOSED", "DISPUTED", "SETTLED"}
RowType ==
    [phase : Phases, proposer : Parties \cup {Null},
     proposedOutcome : OptionalOutcome, proposerBonded : BOOLEAN,
     disputer : Parties \cup {Null}, counterOutcome : OptionalOutcome,
     route : {"FINALIZED", "ARBITRATED", Null}, settledOutcome : OptionalOutcome,
     forfeited : BOOLEAN, loser : Parties \cup {Null}, settledAt : BOOLEAN]

\* NULL is no row, and no route.
ASSUME NullAssumption == Null \notin RowType /\ Null # "FINALIZED"

\* The types of the resolver's state and of the row; the void sentinel never reaches a column.
TypeOK ==
    /\ stage \in {"NONE", "PROPOSED", "DISPUTED", "SETTLED"}
    /\ stage \in {"PROPOSED", "DISPUTED"} =>
          proposal \in [proposer : Parties, outcome : Claims, bonded : BOOLEAN]
    /\ stage = "DISPUTED" => dispute \in [disputer : Parties, outcome : Claims]
    /\ log \in Seq(LogTypes)
    /\ listed \in BOOLEAN
    /\ cursor \in 0..next /\ next \in 0..Len(log) /\ replays \in 0..MaxReplays
    /\ handler \in [at : {"write", "drop", "read", "publish"}, read : Phases]
    /\ handler.at # "write" => listed /\ next < Len(log) /\ next < written
    /\ row \in RowType \cup {Null} /\ written \in next..Len(log)
    /\ announced \in Phases

Mirror ==
    [phase |-> stage,
     proposer |-> proposal.proposer, proposedOutcome |-> OutcomeOrVoid(proposal.outcome),
     proposerBonded |-> proposal.bonded,
     disputer |-> dispute.disputer, counterOutcome |-> OutcomeOrVoid(dispute.outcome),
     route |-> ruling.route, settledOutcome |-> OutcomeOrVoid(ruling.outcome),
     forfeited |-> ruling.loser # Null, loser |-> ruling.loser,
     settledAt |-> ruling.route = "FINALIZED" \/ ruling.loser # Null]

\* With every log handled, the row describes the resolver's current proposal and not a union of
\* attempts, however many attempts were unwound and however often a tick was replayed halfway.  A
\* ruling that slashes nobody leaves settledAt null.
RowIsCurrent == next = Len(log) => (IF row = Null THEN log = <<>> ELSE row = Mirror)

\* Subscribers were last told the phase the row has, except while a log that has written the row is
\* still to be announced, or announced again (announceResolution, and the throw that aborts the
\* batch): whatever failed after a row write, a cursor that passes the log passes its announcement.
\* Nothing is ever announced of a market that is not listed.
AnnouncedIsStored ==
    /\ listed /\ next = written => announced = Phase(row)
    /\ ~listed => announced = "NONE"
=============================================================================
