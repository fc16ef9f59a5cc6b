---------------------------- MODULE Relay_proofs ----------------------------
(***************************************************************************)
(* Proofs about the gas relay and its settlement keeper: RelayQueue, the   *)
(* sending path; RelayBoot, the wiring checks and the shared balance read; *)
(* Settlement, the keeper that finalises proposals through the relay.      *)
(* Every theorem is about one of the three specifications alone: the       *)
(* modules are read together because the three share their vocabulary and  *)
(* the lemmas on sums, not because their steps interleave.                 *)
(***************************************************************************)
EXTENDS RelayQueue, RelayBoot, Settlement, SumLemmas

-----------------------------------------------------------------------------
(***************************************************************************)
(* RelayQueue: one nonce is never used twice, a request is only replayed   *)
(* if its copy was pending, every broadcast is charged and every rate      *)
(* counter ends, for any submissions, limits, days and failures.           *)
(*                                                                         *)
(* SendInv is inductive: only the head of the promise chain is being sent, *)
(* so that what it has read of the chain is still so when it is broadcast. *)
(***************************************************************************)

Sending == {"simulated", "signed", "sent"}

QueueType ==
    /\ pc \in [Submissions -> PCs] /\ nonce \in [Submissions -> Nat]
    /\ queue \in Seq(Submissions)
    /\ accepted \in Seq(Submissions) /\ mined \in 0..Len(accepted)
    /\ fate \in [Submissions -> Fates]

\* What is being sent is the head of the chain.
HeadOnly == \A s \in Submissions : pc[s] \in Sending => Runs(s)

\* What is signed is signed with the next nonce.
NonceCurrent == \A s \in Submissions : pc[s] = "signed" => nonce[s] = Len(accepted)

\* Neither executed nor pending.
Fresh(s) ==
    /\ Request[s] \notin Consumed
    /\ \A j \in mined + 1 .. Len(accepted) : Request[accepted[j]] # Request[s]

\* A submission whose simulation saw no copy pending is fresh until it is broadcast ...
SendsFresh == \A s \in Submissions : pc[s] \in {"simulated", "signed"} /\ s \notin raced => Fresh(s)

\* ... and from then on no copy is ahead of it.
PendingFresh ==
    \A i \in mined + 1 .. Len(accepted) : accepted[i] \notin raced =>
        /\ Request[accepted[i]] \notin Consumed
        /\ \A j \in mined + 1 .. i - 1 : Request[accepted[j]] # Request[accepted[i]]

SendInv ==
    QueueType /\ HeadOnly /\ NonceCurrent /\ SendsFresh /\ PendingFresh /\ NoNonceRace /\ ReplaysRaced

\* What Move does to the submissions.
LEMMA Moves ==
    ASSUME pc \in [Submissions -> PCs], NEW s \in Submissions, NEW to \in PCs, Move(s, to)
    PROVE  /\ pc' \in [Submissions -> PCs] /\ pc'[s] = to
           /\ \A t \in Submissions \ {s} : pc'[t] = pc[t]
BY DEF Move

\* Whoever joins the chain leaves its head where it was.
LEMMA Joins ==
    ASSUME QueueType, HeadOnly, NEW s \in Submissions, pc[s] \notin Sending, Enqueue(s)
    PROVE  /\ pc' \in [Submissions -> PCs] /\ queue' \in Seq(Submissions)
           /\ \A t \in Submissions : pc'[t] \in Sending => pc'[t] = pc[t] /\ Runs(t)'
<1>1. pc' \in [Submissions -> PCs] /\ pc'[s] = "queued" /\ \A t \in Submissions \ {s} : pc'[t] = pc[t]
  BY Moves DEF Enqueue, QueueType, PCs, InTurn
<1>2. queue' = Append(queue, s) /\ queue \in Seq(Submissions)
  BY DEF Enqueue, QueueType
<1>3. queue # <<>> => queue' # <<>> /\ Head(queue') = Head(queue)
  BY <1>2
<1> QED BY <1>1, <1>2, <1>3 DEF HeadOnly, Runs, Sending

\* Once the head is done, nothing is being sent.
LEMMA LeavesChain ==
    ASSUME QueueType, HeadOnly, NEW s \in Submissions, Runs(s), NEW to \in {"done", "rejected"},
           Finish(s, to)
    PROVE  /\ pc' \in [Submissions -> PCs] /\ queue' \in Seq(Submissions)
           /\ \A t \in Submissions : pc'[t] \notin Sending
<1>1. pc' \in [Submissions -> PCs] /\ pc'[s] = to /\ \A t \in Submissions \ {s} : pc'[t] = pc[t]
  BY Moves DEF Finish, QueueType, PCs
<1>2. queue' \in Seq(Submissions)
  BY DEF Finish, QueueType, Runs
<1>3. \A t \in Submissions \ {s} : pc[t] \notin Sending
  BY DEF HeadOnly, Runs
<1> QED BY <1>1, <1>2, <1>3 DEF Sending

\* A step that starts to send nothing, and leaves the chain and what is signed alone.
LEMMA QuietStep ==
    ASSUME SendInv, UNCHANGED <<nonce, accepted, mined, fate, raced>>,
           pc' \in [Submissions -> PCs], queue' \in Seq(Submissions),
           \A t \in Submissions : pc'[t] \in Sending => pc'[t] = pc[t] /\ Runs(t)'
    PROVE  SendInv'
<1>1. QueueType' /\ HeadOnly'
  BY DEF SendInv, QueueType, HeadOnly
<1>2. NonceCurrent'
  BY DEF SendInv, NonceCurrent, Sending
<1>3. SendsFresh'
  BY DEF SendInv, SendsFresh, Fresh, Consumed, Sending
<1>4. PendingFresh' /\ NoNonceRace' /\ ReplaysRaced'
  BY DEF SendInv, PendingFresh, NoNonceRace, ReplaysRaced, Consumed
<1> QED BY <1>1, <1>2, <1>3, <1>4 DEF SendInv

\* A submission that moves on without being sent is such a step.
LEMMA QuietMove ==
    ASSUME SendInv, NEW s \in Submissions, NEW to \in PCs \ Sending, Move(s, to),
           UNCHANGED <<queue, nonce, accepted, mined, fate, raced>>
    PROVE  SendInv'
<1>1. QueueType /\ HeadOnly
  BY DEF SendInv
<1>2. pc' \in [Submissions -> PCs] /\ pc'[s] = to /\ \A t \in Submissions \ {s} : pc'[t] = pc[t]
  BY <1>1, Moves DEF QueueType
<1>3. \A t \in Submissions : pc'[t] \in Sending => pc'[t] = pc[t] /\ Runs(t)'
  BY <1>1, <1>2 DEF HeadOnly, Runs
<1> QED BY <1>1, <1>2, <1>3, QuietStep DEF QueueType

\* So is the end of one.
LEMMA QuietEnd ==
    ASSUME SendInv, NEW s \in Submissions, Runs(s), NEW to \in {"done", "rejected"}, Finish(s, to),
           UNCHANGED <<nonce, accepted, mined, fate, raced>>
    PROVE  SendInv'
BY LeavesChain, QuietStep DEF SendInv

\* What is simulated is not executed, nor pending unless it counts as raced.
LEMMA SimulateKeeps ==
    ASSUME SendInv, Simulate
    PROVE  SendInv'
<1> PICK s \in Submissions :
      /\ pc[s] = "queued" /\ Runs(s)
      /\ \/ /\ Request[s] \notin Consumed
            /\ Move(s, "simulated") /\ UNCHANGED queue
            /\ raced' = IF Request[s] \in {Request[x] : x \in Pending} THEN raced \cup {s} ELSE raced
         \/ Finish(s, "rejected") /\ UNCHANGED raced
  BY DEF Simulate
<1>1. UNCHANGED <<nonce, accepted, mined, fate>>
  BY DEF Simulate, chainVars
<1>2. CASE Finish(s, "rejected") /\ UNCHANGED raced
  BY <1>1, <1>2, QuietEnd
<1>3. CASE /\ Request[s] \notin Consumed
           /\ Move(s, "simulated") /\ UNCHANGED queue
           /\ raced' = IF Request[s] \in {Request[x] : x \in Pending} THEN raced \cup {s} ELSE raced
  <2>1. pc' \in [Submissions -> PCs] /\ pc'[s] = "simulated"
        /\ \A t \in Submissions \ {s} : pc'[t] = pc[t]
    BY <1>3, Moves DEF SendInv, QueueType, PCs, InTurn
  <2>2. QueueType' /\ HeadOnly'
    BY <1>1, <1>3, <2>1 DEF SendInv, QueueType, HeadOnly, Runs
  <2>3. NonceCurrent'
    BY <1>1, <2>1 DEF SendInv, NonceCurrent
  <2>4. raced \subseteq raced'
    BY <1>3
  <2>5. s \notin raced' => Fresh(s)'
    BY <1>1, <1>3 DEF Fresh, Consumed, Pending
  <2>6. SendsFresh'
    BY <1>1, <2>1, <2>4, <2>5 DEF SendInv, SendsFresh, Fresh, Consumed
  <2>7. PendingFresh' /\ NoNonceRace' /\ ReplaysRaced'
    BY <1>1, <2>4 DEF SendInv, PendingFresh, NoNonceRace, ReplaysRaced, Consumed
  <2> QED BY <2>2, <2>3, <2>6, <2>7 DEF SendInv
<1> QED BY <1>2, <1>3

\* The head of the chain reads the nonce that is next.
LEMMA ReadNonceKeeps ==
    ASSUME SendInv, ReadNonce
    PROVE  SendInv'
<1> PICK s \in Submissions :
      /\ pc[s] = "simulated" /\ Runs(s) /\ Move(s, "signed")
      /\ nonce' = [nonce EXCEPT ![s] = Len(accepted)]
  BY DEF ReadNonce
<1>1. UNCHANGED <<queue, accepted, mined, fate, raced>>
  BY DEF ReadNonce, chainVars, historyVars
<1>2. pc' \in [Submissions -> PCs] /\ pc'[s] = "signed" /\ \A t \in Submissions \ {s} : pc'[t] = pc[t]
  BY Moves DEF SendInv, QueueType, PCs, InTurn
<1>3. nonce' \in [Submissions -> Nat] /\ nonce'[s] = Len(accepted)
      /\ \A t \in Submissions \ {s} : nonce'[t] = nonce[t]
  BY DEF SendInv, QueueType
<1>4. QueueType' /\ HeadOnly'
  BY <1>1, <1>2, <1>3 DEF SendInv, QueueType, HeadOnly, Runs
<1>5. NonceCurrent'
  BY <1>1, <1>2, <1>3 DEF SendInv, NonceCurrent
<1>6. SendsFresh'
  BY <1>1, <1>2 DEF SendInv, SendsFresh, Fresh, Consumed
<1>7. PendingFresh' /\ NoNonceRace' /\ ReplaysRaced'
  BY <1>1 DEF SendInv, PendingFresh, NoNonceRace, ReplaysRaced, Consumed
<1> QED BY <1>4, <1>5, <1>6, <1>7 DEF SendInv

\* A transaction that the node takes is the last in nonce order, and no copy is ahead of a fresh one.
LEMMA Takes ==
    ASSUME SendInv, NEW s \in Submissions, pc[s] = "signed", accepted' = Append(accepted, s),
           UNCHANGED <<mined, fate, raced>>
    PROVE  /\ accepted' \in Seq(Submissions) /\ mined' \in 0..Len(accepted')
           /\ PendingFresh'
<1>1. accepted \in Seq(Submissions) /\ Len(accepted) \in Nat /\ mined \in 0..Len(accepted)
  BY DEF SendInv, QueueType
<1>2. accepted' \in Seq(Submissions) /\ Len(accepted') = Len(accepted) + 1
      /\ accepted'[Len(accepted) + 1] = s /\ \A i \in 1..Len(accepted) : accepted'[i] = accepted[i]
  BY <1>1
<1>3. Consumed' = Consumed
  BY DEF Consumed
<1>4. ASSUME NEW i \in mined + 1 .. Len(accepted) + 1, accepted'[i] \notin raced
      PROVE  /\ Request[accepted'[i]] \notin Consumed
             /\ \A j \in mined + 1 .. i - 1 : Request[accepted'[j]] # Request[accepted'[i]]
  <2>1. CASE i \in mined + 1 .. Len(accepted)
    <3>1. accepted'[i] = accepted[i] /\ \A j \in mined + 1 .. i - 1 : accepted'[j] = accepted[j]
      BY <1>1, <1>2, <2>1
    <3> QED BY <1>4, <2>1, <3>1 DEF SendInv, PendingFresh
  <2>2. CASE i = Len(accepted) + 1
    <3>1. s \notin raced
      BY <1>2, <1>4, <2>2
    <3>2. Fresh(s)
      BY <3>1 DEF SendInv, SendsFresh
    <3>3. \A j \in mined + 1 .. i - 1 : accepted'[j] = accepted[j]
      BY <1>1, <1>2, <2>2
    <3> QED BY <1>1, <1>2, <2>2, <3>2, <3>3 DEF Fresh
  <2> QED BY <1>1, <2>1, <2>2
<1>5. PendingFresh'
  BY <1>2, <1>3, <1>4 DEF PendingFresh
<1>6. mined' \in 0..Len(accepted')
  BY <1>1, <1>2
<1> QED BY <1>2, <1>5, <1>6

\* The head of the chain broadcasts with the nonce that is still next.
LEMMA BroadcastKeeps ==
    ASSUME SendInv, Broadcast
    PROVE  SendInv'
<1> PICK s \in Submissions :
      /\ pc[s] = "signed" /\ Runs(s)
      /\ IF nonce[s] = Len(accepted)
         THEN accepted' = Append(accepted, s) /\ Move(s, "sent") /\ UNCHANGED <<queue, fate>>
         ELSE Finish(s, "rejected") /\ fate' = [fate EXCEPT ![s] = "dropped"] /\ UNCHANGED accepted
  BY DEF Broadcast
<1>1. UNCHANGED <<nonce, mined, raced>>
  BY DEF Broadcast, historyVars
<1>2. accepted' = Append(accepted, s) /\ Move(s, "sent") /\ UNCHANGED <<queue, fate>>
  BY DEF SendInv, NonceCurrent
<1>3. pc' \in [Submissions -> PCs] /\ pc'[s] = "sent" /\ \A t \in Submissions \ {s} : pc'[t] = pc[t]
  BY <1>2, Moves DEF SendInv, QueueType, PCs, InTurn
<1>4. \A t \in Submissions : pc'[t] \notin {"simulated", "signed"}
  BY <1>3 DEF SendInv, HeadOnly, Runs, Sending
<1>5. accepted' \in Seq(Submissions) /\ mined' \in 0..Len(accepted') /\ PendingFresh'
  BY <1>1, <1>2, Takes
<1>6. QueueType' /\ HeadOnly'
  BY <1>1, <1>2, <1>3, <1>5 DEF SendInv, QueueType, HeadOnly, Runs, Sending
<1>7. NonceCurrent' /\ SendsFresh'
  BY <1>4 DEF NonceCurrent, SendsFresh
<1>8. NoNonceRace' /\ ReplaysRaced'
  BY <1>1, <1>2 DEF SendInv, NoNonceRace, ReplaysRaced
<1> QED BY <1>5, <1>6, <1>7, <1>8 DEF SendInv

\* An answer that is lost ends the submission, whose transaction is out all the same.
LEMMA AnswerLostKeeps ==
    ASSUME SendInv, AnswerLost
    PROVE  SendInv'
<1> PICK s \in Submissions :
      /\ pc[s] = "signed" /\ Runs(s) /\ nonce[s] = Len(accepted)
      /\ accepted' = Append(accepted, s) /\ Finish(s, "rejected")
  BY DEF AnswerLost
<1>1. UNCHANGED <<nonce, mined, fate, raced>>
  BY DEF AnswerLost
<1>2. pc' \in [Submissions -> PCs] /\ queue' \in Seq(Submissions)
      /\ \A t \in Submissions : pc'[t] \notin Sending
  BY LeavesChain DEF SendInv
<1>3. accepted' \in Seq(Submissions) /\ mined' \in 0..Len(accepted') /\ PendingFresh'
  BY <1>1, Takes
<1>4. QueueType' /\ HeadOnly' /\ NonceCurrent' /\ SendsFresh'
  BY <1>1, <1>2, <1>3 DEF SendInv, QueueType, HeadOnly, NonceCurrent, SendsFresh, Sending
<1>5. NoNonceRace' /\ ReplaysRaced'
  BY <1>1 DEF SendInv, NoNonceRace, ReplaysRaced
<1> QED BY <1>3, <1>4, <1>5 DEF SendInv

\* A block makes one pending request an executed one: no fresh submission asks for it, and if it was
\* executed before, its submission had raced.
LEMMA MineKeeps ==
    ASSUME SendInv, Mine
    PROVE  SendInv'
<1> DEFINE next == accepted[mined + 1]
<1>1. UNCHANGED <<pc, queue, nonce, accepted, raced>> /\ mined' = mined + 1 /\ mined < Len(accepted)
  BY DEF Mine, historyVars
<1>2. accepted \in Seq(Submissions) /\ Len(accepted) \in Nat /\ mined \in 0..Len(accepted)
      /\ fate \in [Submissions -> Fates]
  BY DEF SendInv, QueueType
<1>3. mined + 1 \in 1..Len(accepted) /\ next \in Submissions
  BY <1>1, <1>2
<1> HIDE DEF next
<1>4. PICK f \in Fates \ {"none", "dropped"} :
        /\ f = "replayed" => Request[next] \in Consumed
        /\ fate' = [fate EXCEPT ![next] = f]
  BY DEF Mine, Fates, next
<1>5. fate' \in [Submissions -> Fates] /\ fate'[next] = f
      /\ \A s \in Submissions \ {next} : fate'[s] = fate[s]
  BY <1>2, <1>3, <1>4
<1>6. Consumed' \subseteq Consumed \cup {Request[next]}
  BY <1>5 DEF Consumed
<1>7. f = "replayed" => next \in raced
  <2>1. next \notin raced => Request[next] \notin Consumed
    BY <1>1, <1>2, <1>3 DEF SendInv, PendingFresh, next
  <2> QED BY <1>4, <2>1
<1>8. QueueType' /\ HeadOnly' /\ NonceCurrent'
  BY <1>1, <1>2, <1>5 DEF SendInv, QueueType, HeadOnly, Runs, NonceCurrent
<1>9. SendsFresh'
  <2> SUFFICES ASSUME NEW s \in Submissions, Fresh(s) PROVE Fresh(s)'
    BY <1>1 DEF SendInv, SendsFresh
  <2>1. Request[next] # Request[s]
    BY <1>1, <1>2, <1>3 DEF Fresh, next
  <2> QED BY <1>1, <1>2, <1>6, <2>1 DEF Fresh
<1>10. PendingFresh'
  <2> SUFFICES ASSUME NEW i \in mined + 2 .. Len(accepted), accepted[i] \notin raced
               PROVE  /\ Request[accepted[i]] \notin Consumed'
                      /\ \A j \in mined + 2 .. i - 1 : Request[accepted[j]] # Request[accepted[i]]
    BY <1>1, <1>2 DEF PendingFresh
  <2>1. i \in mined + 1 .. Len(accepted)
    BY <1>2
  <2>2. Request[accepted[i]] \notin Consumed
        /\ \A j \in mined + 1 .. i - 1 : Request[accepted[j]] # Request[accepted[i]]
    BY <2>1 DEF SendInv, PendingFresh
  <2>3. Request[next] # Request[accepted[i]]
    BY <1>2, <2>2 DEF next
  <2> QED BY <1>2, <1>6, <2>2, <2>3
<1>11. NoNonceRace' /\ ReplaysRaced'
  BY <1>1, <1>4, <1>5, <1>7 DEF SendInv, NoNonceRace, ReplaysRaced
<1> QED BY <1>8, <1>9, <1>10, <1>11 DEF SendInv

\* The steps around the chain of promises, and the ends of what runs in it.
LEMMA QuietSteps ==
    ASSUME SendInv, Count \/ Expire \/ Cap \/ Verify \/ Record \/ Fails \/ RecordUnanswered
                    \/ ExpireLost \/ Midnight \/ WindowEnds \/ UNCHANGED vars
    PROVE  SendInv'
<1> USE DEF chainVars, historyVars, PCs, InTurn, Sending
<1>1. CASE Count
  BY <1>1, QuietMove DEF Count
<1>2. CASE Expire
  BY <1>2, QuietMove DEF Expire
<1>3. CASE Cap \/ Verify
  <2>1. UNCHANGED <<nonce, accepted, mined, fate, raced>>
    BY <1>3 DEF Cap, Verify
  <2>2. PICK s \in Submissions :
          /\ pc[s] \in {"new", "counted", "capped"}
          /\ \/ (Move(s, "rejected") \/ Move(s, "capped")) /\ UNCHANGED queue
             \/ Enqueue(s)
    BY <1>3 DEF Cap, Verify
  <2>3. CASE (Move(s, "rejected") \/ Move(s, "capped")) /\ UNCHANGED queue
    BY <2>1, <2>3, QuietMove
  <2>4. CASE Enqueue(s)
    <3>1. pc[s] \notin Sending
      BY <2>2
    <3> QED BY <2>1, <2>4, <3>1, Joins, QuietStep DEF SendInv
  <2> QED BY <2>2, <2>3, <2>4
<1>4. CASE Record
  BY <1>4, QuietEnd DEF Record
<1>5. CASE Fails \/ RecordUnanswered
  BY <1>5, QuietEnd DEF Fails, RecordUnanswered
<1>6. CASE ExpireLost
  BY <1>6, QuietMove DEF ExpireLost
<1>7. CASE Midnight \/ WindowEnds \/ UNCHANGED vars
  <2>1. UNCHANGED <<pc, queue, nonce, accepted, mined, fate, raced>>
    BY <1>7 DEF Midnight, WindowEnds, vars
  <2> QED BY <2>1, QuietStep DEF SendInv, QueueType, HeadOnly, Runs
<1> QED BY <1>1, <1>2, <1>3, <1>4, <1>5, <1>6, <1>7

\* At the start nothing is sent, pending or executed.
LEMMA SendInit == Init => SendInv
BY DEF Init, SendInv, QueueType, HeadOnly, NonceCurrent, SendsFresh, PendingFresh, NoNonceRace,
       ReplaysRaced, PCs, Fates, Sending, InTurn

\* Whatever the service, the chain and the failures do, what is fresh stays fresh until it is sent.
LEMMA SendStep == SendInv /\ [Next]_vars => SendInv'
BY SimulateKeeps, ReadNonceKeeps, BroadcastKeeps, AnswerLostKeeps, MineKeeps, QuietSteps
   DEF Next, Service, Failure

\* The sends of any number of concurrent submissions never use one nonce twice, whatever failed
\* before and whichever answer was lost (enqueue: one send at a time).
THEOREM NoncesDoNotRace == Spec => []NoNonceRace
<1>1. SendInv => NoNonceRace
  BY DEF SendInv
<1> QED BY <1>1, SendInit, SendStep, PTL DEF Spec

\* A request is executed again at the relay's cost only if its copy was pending when it was simulated
\* (simulateAndSend).
THEOREM ReplaysHaveRaced == Spec => []ReplaysRaced
<1>1. SendInv => ReplaysRaced
  BY DEF SendInv
<1> QED BY <1>1, SendInit, SendStep, PTL DEF Spec

-----------------------------------------------------------------------------
(* The charges *)

\* Broadcast and not recorded yet.
InHand == {s \in Submissions : pc[s] = "sent"}

ChargeType == spent \in [Days -> Nat] /\ day \in Days /\ uncharged \in Nat

ChargeInv == SendInv /\ ChargeType /\ ChargesAccounted

\* The keys of finitely many days add up.
LEMMA SpentAddsUp ==
    ASSUME ChargeType
    PROVE  IsFiniteSet(Days) /\ SumFunctionOnSet(spent, Days) \in Int
<1>1. IsFiniteSet(Days)
  BY RelayAssumption, FS_Interval DEF Days
<1> QED BY <1>1, SumType DEF ChargeType

\* recordSpend() raises the sum by one, whichever day it is by now.
LEMMA ChargeAdds ==
    ASSUME ChargeType, spent' = [spent EXCEPT ![day] = @ + 1]
    PROVE  /\ spent' \in [Days -> Nat]
           /\ SumFunctionOnSet(spent', Days) = SumFunctionOnSet(spent, Days) + 1
<1>1. spent' \in [Days -> Nat] /\ spent'[day] = spent[day] + 1 /\ \A d \in Days \ {day} : spent'[d] = spent[d]
  BY DEF ChargeType
<1>2. SumFunctionOnSet(spent', Days) = SumFunctionOnSet(spent, Days) + (spent'[day] - spent[day])
  <2> DEFINE after == spent'
  <2>1. /\ IsFiniteSet(Days) /\ day \in Days
        /\ \A d \in Days : spent[d] \in Int
        /\ \A d \in Days \ {day} : after[d] = spent[d]
        /\ after[day] \in Int
    BY <1>1, SpentAddsUp DEF ChargeType
  <2> HIDE DEF after
  <2>2. SumFunctionOnSet(after, Days) = SumFunctionOnSet(spent, Days) + (after[day] - spent[day])
    BY <2>1, SumUpdate, Zenon
  <2> QED BY <2>2 DEF after
<1>3. spent'[day] - spent[day] = 1
  BY <1>1 DEF ChargeType
<1> QED BY <1>1, <1>2, <1>3

\* One broadcast at a time is waiting to be recorded: the head of the chain, if it is any.
LEMMA HandHolds ==
    ASSUME HeadOnly
    PROVE  /\ InHand = {} => Cardinality(InHand) = 0
           /\ \A s \in InHand : InHand = {s} /\ Cardinality(InHand) = 1
           /\ Cardinality(InHand) \in Nat
<1>1. ASSUME NEW s \in InHand PROVE InHand = {s} /\ Cardinality(InHand) = 1
  <2>1. InHand = {s}
    BY <1>1 DEF InHand, HeadOnly, Sending, Runs
  <2> QED BY <2>1, FS_Singleton
<1>2. InHand = {} => Cardinality(InHand) = 0
  BY FS_EmptySet
<1> HIDE DEF InHand
<1> QED BY <1>1, <1>2

\* Nobody else has sent while one that has not is at the head of the chain.
LEMMA HandEmpty ==
    ASSUME HeadOnly, NEW s \in Submissions, Runs(s), pc[s] # "sent"
    PROVE  InHand = {}
BY DEF InHand, HeadOnly, Sending, Runs

\* A submission that moves between two places where nothing is sent leaves the hand alone.
LEMMA HandKept ==
    ASSUME pc \in [Submissions -> PCs], NEW s \in Submissions, pc[s] # "sent",
           NEW to \in PCs \ {"sent"}, Move(s, to)
    PROVE  InHand' = InHand
BY Moves DEF InHand

\* The account of a step that neither sends nor charges.
LEMMA NothingCharged ==
    ASSUME ChargeInv, SendInv', UNCHANGED <<accepted, spent, uncharged, InHand>>, day' \in Days
    PROVE  ChargeInv'
BY DEF ChargeInv, ChargeType, ChargesAccounted, InHand

\* The account of a step of the head of the chain, by what it adds to each part.
LEMMA HeadCharged ==
    ASSUME ChargeInv, SendInv', NEW sends \in {0, 1}, NEW charges \in {0, 1}, NEW loses \in {0, 1},
           Len(accepted') = Len(accepted) + sends, day' \in Days,
           IF charges = 1 THEN spent' = [spent EXCEPT ![day] = @ + 1] ELSE spent' = spent,
           uncharged' = uncharged + loses,
           Cardinality(InHand') = Cardinality(InHand) + sends - charges - loses
    PROVE  ChargeInv'
<1>1. Len(accepted) \in Nat /\ Cardinality(InHand) \in Nat /\ uncharged \in Nat
  BY HandHolds DEF ChargeInv, SendInv, QueueType, ChargeType
<1>2. spent' \in [Days -> Nat] /\ SumFunctionOnSet(spent', Days) = SumFunctionOnSet(spent, Days) + charges
  <2>1. CASE charges = 1
    BY <2>1, ChargeAdds DEF ChargeInv
  <2>2. CASE charges = 0
    BY <2>2, SpentAddsUp DEF ChargeInv, ChargeType
  <2> QED BY <2>1, <2>2
<1>3. SumFunctionOnSet(spent, Days) \in Int
  BY SpentAddsUp DEF ChargeInv
<1>4. Len(accepted) = SumFunctionOnSet(spent, Days) + Cardinality(InHand) + uncharged
  BY DEF ChargeInv, ChargesAccounted, InHand
<1>5. Len(accepted') = SumFunctionOnSet(spent', Days) + Cardinality(InHand') + uncharged'
  <2> HIDE DEF InHand
  <2> QED BY <1>1, <1>2, <1>3, <1>4
<1> QED BY <1>1, <1>2, <1>5 DEF ChargeInv, ChargeType, ChargesAccounted, InHand

\* The head of the chain ends: what it had sent is no longer in hand.
LEMMA HandEnds ==
    ASSUME SendInv, NEW s \in Submissions, Runs(s), NEW to \in PCs \ {"sent"}, Move(s, to)
    PROVE  /\ InHand' = {} /\ Cardinality(InHand') = 0
           /\ Cardinality(InHand) = IF pc[s] = "sent" THEN 1 ELSE 0
<1>1. pc' \in [Submissions -> PCs] /\ pc'[s] = to /\ \A t \in Submissions \ {s} : pc'[t] = pc[t]
  BY Moves DEF SendInv, QueueType
<1>2. \A t \in Submissions \ {s} : pc[t] # "sent"
  BY DEF SendInv, HeadOnly, Sending, Runs
<1>3. InHand' = {}
  BY <1>1, <1>2 DEF InHand
<1>4. CASE pc[s] = "sent"
  BY <1>3, <1>4, HandHolds, FS_EmptySet DEF SendInv, InHand
<1>5. CASE pc[s] # "sent"
  BY <1>3, <1>5, HandEmpty, FS_EmptySet DEF SendInv
<1> QED BY <1>3, <1>4, <1>5, FS_EmptySet

\* The steps before a broadcast, and those of the day, the windows and the miners.
LEMMA UnsentSteps ==
    ASSUME ChargeInv, SendInv',
           Count \/ Expire \/ Cap \/ Verify \/ Simulate \/ ReadNonce \/ ExpireLost
           \/ Mine \/ Midnight \/ WindowEnds \/ UNCHANGED vars
    PROVE  ChargeInv'
<1>1. UNCHANGED <<accepted, spent, uncharged>> /\ day' \in Days
  BY RelayAssumption DEF ChargeInv, ChargeType, Count, Expire, Cap, Verify, Simulate, ReadNonce, ExpireLost,
        Mine, Midnight, WindowEnds, vars, redisVars, chainVars, historyVars, Days
<1>2. CASE Mine \/ Midnight \/ WindowEnds \/ UNCHANGED vars
  <2>1. pc' = pc
    BY <1>2 DEF Mine, Midnight, WindowEnds, vars
  <2> QED BY <1>1, <2>1, NothingCharged DEF InHand
<1>3. CASE Count \/ Expire \/ Cap \/ Verify \/ Simulate \/ ReadNonce \/ ExpireLost
  <2>1. PICK s \in Submissions, to \in PCs \ {"sent"} : pc[s] # "sent" /\ Move(s, to)
    <3> USE DEF PCs, InTurn
    <3>1. CASE Count
      BY <3>1 DEF Count
    <3>2. CASE Expire \/ ExpireLost
      BY <3>2 DEF Expire, ExpireLost
    <3>3. CASE Cap \/ Verify
      BY <3>3 DEF Cap, Verify, Enqueue
    <3>4. CASE Simulate \/ ReadNonce
      BY <3>4 DEF Simulate, ReadNonce, Finish
    <3> QED BY <1>3, <3>1, <3>2, <3>3, <3>4
  <2>2. InHand' = InHand
    BY <2>1, HandKept DEF ChargeInv, SendInv, QueueType
  <2> QED BY <1>1, <2>2, NothingCharged
<1> QED BY <1>2, <1>3

\* The node takes the head's transaction: it is in hand until it is recorded.
LEMMA BroadcastCharges ==
    ASSUME ChargeInv, SendInv', Broadcast
    PROVE  ChargeInv'
<1>1. PICK s \in Submissions :
        /\ pc[s] = "signed" /\ Runs(s)
        /\ IF nonce[s] = Len(accepted)
           THEN accepted' = Append(accepted, s) /\ Move(s, "sent")
           ELSE Finish(s, "rejected") /\ UNCHANGED accepted
  BY DEF Broadcast
<1>2. UNCHANGED <<spent, uncharged, day>> /\ day \in Days /\ uncharged \in Nat
  BY DEF Broadcast, redisVars, historyVars, ChargeInv, ChargeType
<1>3. Cardinality(InHand) = 0
  BY <1>1, HandEmpty, HandHolds DEF ChargeInv, SendInv
<1>4. CASE nonce[s] = Len(accepted)
  <2>1. Len(accepted') = Len(accepted) + 1
    BY <1>1, <1>4 DEF ChargeInv, SendInv, QueueType
  <2>2. pc' \in [Submissions -> PCs] /\ pc'[s] = "sent"
    BY <1>1, <1>4, Moves DEF ChargeInv, SendInv, QueueType, PCs, InTurn
  <2>3. Cardinality(InHand') = 1
    <3>1. s \in InHand' /\ HeadOnly'
      BY <2>2 DEF InHand, SendInv
    <3>2. \A t \in InHand' : t = s
      BY <2>2, <3>1 DEF InHand, HeadOnly, Sending, Runs
    <3>3. InHand' = {s}
      BY <3>1, <3>2
    <3> QED BY <3>3, FS_Singleton
  <2> HIDE DEF InHand
  <2>4. uncharged' = uncharged + 0 /\ Cardinality(InHand') = Cardinality(InHand) + 1 - 0 - 0
    BY <1>2, <1>3, <2>3
  <2> QED BY <1>2, <2>1, <2>4, HeadCharged
<1>5. CASE nonce[s] # Len(accepted)
  <2>1. InHand' = {} /\ InHand = {} /\ accepted' = accepted
    BY <1>1, <1>5, HandEnds, HandEmpty DEF Finish, PCs, InTurn, ChargeInv, SendInv
  <2> QED BY <1>2, <2>1, NothingCharged
<1> QED BY <1>4, <1>5

\* What was in hand is recorded, with the answer or without.
LEMMA RecordCharges ==
    ASSUME ChargeInv, SendInv', Record \/ RecordUnanswered
    PROVE  ChargeInv'
<1>1. PICK s \in Submissions, to \in {"done", "rejected"} : pc[s] = "sent" /\ Runs(s) /\ Finish(s, to)
  BY DEF Record, RecordUnanswered
<1>2. /\ UNCHANGED <<accepted, uncharged, day>> /\ day \in Days /\ uncharged \in Nat
      /\ spent' = [spent EXCEPT ![day] = @ + 1]
      /\ Len(accepted) \in Nat
  BY DEF Record, RecordUnanswered, chainVars, historyVars, ChargeInv, ChargeType, SendInv, QueueType
<1>3. Cardinality(InHand') = 0 /\ Cardinality(InHand) = 1
  BY <1>1, HandEnds DEF Finish, PCs, InTurn, ChargeInv
<1> HIDE DEF InHand
<1>4. Len(accepted') = Len(accepted) + 0 /\ uncharged' = uncharged + 0
      /\ Cardinality(InHand') = Cardinality(InHand) + 0 - 1 - 0
  BY <1>2, <1>3
<1> QED BY <1>2, <1>4, HeadCharged

\* A failure in the chain loses the charge of what was in hand, and of nothing else.
LEMMA FailsCharges ==
    ASSUME ChargeInv, SendInv', Fails
    PROVE  ChargeInv'
<1>1. PICK s \in Submissions :
        /\ Runs(s) /\ Finish(s, "rejected")
        /\ uncharged' = uncharged + (IF pc[s] = "sent" THEN 1 ELSE 0)
  BY DEF Fails
<1>2. UNCHANGED <<accepted, spent, day>> /\ day \in Days /\ Len(accepted) \in Nat
  BY DEF Fails, chainVars, redisVars, ChargeInv, ChargeType, SendInv, QueueType
<1>3. Cardinality(InHand') = 0 /\ Cardinality(InHand) = IF pc[s] = "sent" THEN 1 ELSE 0
  BY <1>1, HandEnds DEF Finish, PCs, InTurn, ChargeInv
<1> DEFINE lost == IF pc[s] = "sent" THEN 1 ELSE 0
<1>4. lost \in {0, 1} /\ Cardinality(InHand) = lost /\ uncharged' = uncharged + lost
  BY <1>1, <1>3
<1> HIDE DEF lost, InHand
<1>5. Len(accepted') = Len(accepted) + 0 /\ Cardinality(InHand') = Cardinality(InHand) + 0 - 0 - lost
  BY <1>2, <1>3, <1>4
<1>6. CASE lost = 1
  BY <1>2, <1>4, <1>5, <1>6, HeadCharged
<1>7. CASE lost = 0
  BY <1>2, <1>4, <1>5, <1>7, HeadCharged
<1> QED BY <1>4, <1>6, <1>7

\* An answer that is lost loses the charge of what the node took.
LEMMA AnswerLostCharges ==
    ASSUME ChargeInv, SendInv', AnswerLost
    PROVE  ChargeInv'
<1>1. PICK s \in Submissions :
        pc[s] = "signed" /\ Runs(s) /\ accepted' = Append(accepted, s) /\ Finish(s, "rejected")
  BY DEF AnswerLost
<1>2. UNCHANGED <<spent, day>> /\ day \in Days /\ uncharged' = uncharged + 1
  BY DEF AnswerLost, redisVars, ChargeInv, ChargeType
<1>3. Cardinality(InHand') = 0 /\ Cardinality(InHand) = 0
  BY <1>1, HandEnds DEF Finish, PCs, InTurn, ChargeInv
<1>4. Len(accepted') = Len(accepted) + 1
  BY <1>1 DEF ChargeInv, SendInv, QueueType
<1> HIDE DEF InHand
<1>5. Cardinality(InHand') = Cardinality(InHand) + 1 - 0 - 1
  BY <1>3
<1> QED BY <1>2, <1>4, <1>5, HeadCharged

\* At the start nothing is sent and nothing charged.
LEMMA ChargeStarts == Init => ChargeInv
<1> SUFFICES ASSUME Init PROVE ChargeInv
  OBVIOUS
<1>1. SendInv /\ ChargeType
  BY SendInit, RelayAssumption DEF Init, ChargeType, Days
<1>2. InHand = {} /\ Len(accepted) = 0 /\ uncharged = 0
  BY DEF Init, InHand
<1>3. SumFunctionOnSet(spent, Days) = 0
  <2>1. \A d \in Days : spent[d] = 0
    BY DEF Init
  <2>2. Cardinality(Days) \in Nat /\ SumFunctionOnSet(spent, Days) = 0 * Cardinality(Days)
    BY <1>1, <2>1, SpentAddsUp, FS_CardinalityType, SumConstant
  <2> QED BY <2>2
<1> QED BY <1>1, <1>2, <1>3, FS_EmptySet DEF ChargeInv, ChargesAccounted, InHand

\* Every broadcast is recorded on one day's key, is about to be, or had its charge lost by a failure,
\* and nothing else is charged: for any submissions, any number of days and any failures
\* (simulateAndSend, recordSpend).
THEOREM ChargesAreAccounted == Spec => []ChargesAccounted
<1>1. ChargeInv /\ [Next]_vars => ChargeInv'
  <2> SUFFICES ASSUME ChargeInv, [Next]_vars PROVE ChargeInv'
    OBVIOUS
  <2>1. SendInv'
    BY SendStep DEF ChargeInv
  <2> QED BY <2>1, UnsentSteps, BroadcastCharges, RecordCharges, FailsCharges, AnswerLostCharges
          DEF Next, Service, Failure
<1>2. ChargeInv => ChargesAccounted
  BY DEF ChargeInv
<1> QED BY <1>1, <1>2, ChargeStarts, PTL DEF Spec

-----------------------------------------------------------------------------
(* The rate counters *)

WindowInv ==
    /\ pc \in [Submissions -> PCs]
    /\ rate \in [Accounts -> Nat] /\ expiring \in [Accounts -> BOOLEAN]
    /\ WindowsEnd

\* Who signed a submission is an account.
LEMMA Signers == \A s \in Submissions : Account[s] \in Accounts
BY RelayAssumption DEF Accounts, Range

\* A step that leaves the counters alone, and nobody's EXPIRE undone, unless it is lost.
LEMMA CountersKeep ==
    ASSUME WindowInv, pc' \in [Submissions -> PCs], UNCHANGED <<rate, expiring>>,
           locked \subseteq locked',
           \A s \in Submissions : pc[s] = "first" => pc'[s] = "first" \/ Account[s] \in locked'
    PROVE  WindowInv'
BY DEF WindowInv, WindowsEnd

\* The same for one submission that moves, from anywhere but the EXPIRE it owes.
LEMMA CountersKeepMove ==
    ASSUME WindowInv, NEW s \in Submissions, pc[s] # "first", NEW to \in PCs, Move(s, to),
           UNCHANGED <<rate, expiring, locked>>
    PROVE  WindowInv'
<1>1. pc' \in [Submissions -> PCs] /\ \A t \in Submissions \ {s} : pc'[t] = pc[t]
  BY Moves DEF WindowInv
<1> QED BY <1>1, CountersKeep

\* INCR makes its caller the one to set the window's end, unless another has done so or still will.
LEMMA CountKeeps ==
    ASSUME WindowInv, Count
    PROVE  WindowInv'
<1> PICK s \in Submissions :
      /\ pc[s] = "new" /\ Rated(s)
      /\ LET count == rate[Account[s]] + 1
         IN  /\ rate' = [rate EXCEPT ![Account[s]] = count]
             /\ Move(s, IF count = 1 THEN "first"
                        ELSE IF count > AccountLimit THEN "rejected" ELSE "counted")
  BY DEF Count
<1> DEFINE mine == Account[s]
           to == IF rate[mine] + 1 = 1 THEN "first"
                 ELSE IF rate[mine] + 1 > AccountLimit THEN "rejected" ELSE "counted"
<1>1. mine \in Accounts /\ rate[mine] \in Nat
  BY Signers DEF WindowInv
<1>2. rate' \in [Accounts -> Nat] /\ \A a \in Accounts \ {mine} : rate'[a] = rate[a]
  BY <1>1 DEF WindowInv
<1>3. pc' \in [Submissions -> PCs] /\ pc'[s] = to /\ \A t \in Submissions \ {s} : pc'[t] = pc[t]
  BY Moves DEF WindowInv, PCs
<1>4. UNCHANGED <<expiring, locked>>
  BY DEF Count, historyVars
<1>5. ASSUME NEW a \in Accounts \ locked, rate'[a] > 0
      PROVE  expiring[a] \/ \E t \in Submissions : pc'[t] = "first" /\ Account[t] = a
  <2>1. CASE rate[a] > 0
    BY <1>3, <2>1 DEF WindowInv, WindowsEnd
  <2>2. CASE ~ (rate[a] > 0)
    <3>1. a = mine /\ rate[mine] = 0
      BY <1>1, <1>2, <1>5, <2>2 DEF WindowInv
    <3> QED BY <1>3, <3>1
  <2> QED BY <2>1, <2>2
<1> QED BY <1>2, <1>3, <1>4, <1>5 DEF WindowInv, WindowsEnd

\* The EXPIRE that follows the first INCR of a window.
LEMMA ExpireKeeps ==
    ASSUME WindowInv, Expire
    PROVE  WindowInv'
<1> PICK s \in Submissions :
      /\ pc[s] = "first" /\ Move(s, "counted")
      /\ expiring' = [expiring EXCEPT ![Account[s]] = TRUE]
  BY DEF Expire
<1>1. UNCHANGED <<rate, locked>>
  BY DEF Expire, historyVars
<1>2. pc' \in [Submissions -> PCs] /\ \A t \in Submissions \ {s} : pc'[t] = pc[t]
  BY Moves DEF WindowInv, PCs
<1>3. expiring' \in [Accounts -> BOOLEAN] /\ expiring'[Account[s]]
      /\ \A a \in Accounts \ {Account[s]} : expiring'[a] = expiring[a]
  BY Signers DEF WindowInv
<1>4. WindowsEnd'
  <2> SUFFICES ASSUME NEW a \in Accounts \ locked, rate[a] > 0
               PROVE  expiring'[a] \/ \E t \in Submissions : pc'[t] = "first" /\ Account[t] = a
    BY <1>1 DEF WindowsEnd
  <2>1. CASE a = Account[s]
    BY <1>3, <2>1
  <2>2. CASE a # Account[s]
    BY <1>2, <1>3, <2>2 DEF WindowInv, WindowsEnd
  <2> QED BY <2>1, <2>2
<1> QED BY <1>1, <1>2, <1>3, <1>4 DEF WindowInv

\* A counter that expires counts from nothing again.
LEMMA WindowEndsKeeps ==
    ASSUME WindowInv, WindowEnds
    PROVE  WindowInv'
<1> PICK a \in Accounts :
      rate' = [rate EXCEPT ![a] = 0] /\ expiring' = [expiring EXCEPT ![a] = FALSE]
  BY DEF WindowEnds
<1>1. UNCHANGED <<pc, locked>>
  BY DEF WindowEnds, historyVars
<1>2. rate' \in [Accounts -> Nat] /\ rate'[a] = 0 /\ \A b \in Accounts \ {a} : rate'[b] = rate[b]
  BY DEF WindowInv
<1>3. expiring' \in [Accounts -> BOOLEAN] /\ \A b \in Accounts \ {a} : expiring'[b] = expiring[b]
  BY DEF WindowInv
<1>4. WindowsEnd'
  BY <1>1, <1>2, <1>3 DEF WindowInv, WindowsEnd
<1> QED BY <1>1, <1>2, <1>3, <1>4 DEF WindowInv

\* The rest of a submission's way leaves the counters alone.
LEMMA SendingKeepsCounters ==
    ASSUME WindowInv, Cap \/ Verify \/ Simulate \/ ReadNonce \/ Broadcast \/ Record \/ Fails
                      \/ AnswerLost \/ RecordUnanswered
    PROVE  WindowInv'
<1>1. UNCHANGED <<rate, expiring, locked>>
  BY DEF Cap, Verify, Simulate, ReadNonce, Broadcast, Record, Fails, AnswerLost, RecordUnanswered,
         redisVars, historyVars
<1>2. CASE Cap
  BY <1>1, <1>2, CountersKeepMove DEF Cap, Enqueue, PCs, InTurn
<1>3. CASE Verify
  BY <1>1, <1>3, CountersKeepMove DEF Verify, Enqueue, PCs, InTurn
<1>4. CASE Simulate
  BY <1>1, <1>4, CountersKeepMove DEF Simulate, Finish, PCs, InTurn
<1>5. CASE ReadNonce
  BY <1>1, <1>5, CountersKeepMove DEF ReadNonce, PCs, InTurn
<1>6. CASE Broadcast
  BY <1>1, <1>6, CountersKeepMove DEF Broadcast, Finish, PCs, InTurn
<1>7. CASE Record
  BY <1>1, <1>7, CountersKeepMove DEF Record, Finish, PCs, InTurn
<1>8. CASE Fails
  BY <1>1, <1>8, CountersKeepMove DEF Fails, Finish, PCs, InTurn
<1>9. CASE AnswerLost
  BY <1>1, <1>9, CountersKeepMove DEF AnswerLost, Finish, PCs, InTurn
<1>10. CASE RecordUnanswered
  BY <1>1, <1>10, CountersKeepMove DEF RecordUnanswered, Finish, PCs, InTurn
<1> QED BY <1>2, <1>3, <1>4, <1>5, <1>6, <1>7, <1>8, <1>9, <1>10

\* An EXPIRE that is lost locks its account.
LEMMA ExpireLostKeeps ==
    ASSUME WindowInv, ExpireLost
    PROVE  WindowInv'
<1> PICK s \in Submissions :
      pc[s] = "first" /\ Move(s, "rejected") /\ locked' = locked \cup {Account[s]}
  BY DEF ExpireLost
<1>1. pc' \in [Submissions -> PCs] /\ \A t \in Submissions \ {s} : pc'[t] = pc[t]
  BY Moves DEF WindowInv, PCs
<1> QED BY <1>1, CountersKeep DEF ExpireLost, redisVars

\* There is no counter at the start.
LEMMA WindowInit == Init => WindowInv
BY DEF Init, WindowInv, WindowsEnd, PCs, InTurn

\* No step leaves a counter without an end.
LEMMA WindowStep == WindowInv /\ [Next]_vars => WindowInv'
<1> SUFFICES ASSUME WindowInv, [Next]_vars PROVE WindowInv'
  OBVIOUS
<1>1. CASE Mine \/ Midnight \/ UNCHANGED vars
  <2>1. UNCHANGED <<pc, rate, expiring, locked>>
    BY <1>1 DEF Mine, Midnight, vars, redisVars, historyVars
  <2> QED BY <2>1, CountersKeep DEF WindowInv
<1> QED BY <1>1, CountKeeps, ExpireKeeps, WindowEndsKeeps, SendingKeepsCounters, ExpireLostKeeps
        DEF Next, Service, Failure

\* A rate counter without a time to live is about to get one, unless the call that sets it was lost,
\* for any limit and any number of accounts, submissions and failures (enforceAccountRate).
THEOREM CountersEnd == Spec => []WindowsEnd
<1>1. WindowInv => WindowsEnd
  BY DEF WindowInv
<1> QED BY <1>1, WindowInit, WindowStep, PTL DEF Spec

-----------------------------------------------------------------------------
(***************************************************************************)
(* RelayBoot: what the wiring checks leave the service with, and what the  *)
(* shared balance read promises, for any number of selectors, retries,     *)
(* pollers and failed reads.                                               *)
(*                                                                         *)
(* Both are invariants of an induction.  BootInv adds to BootDecides what  *)
(* each check has established by the read it is at; GaugeInv adds to the   *)
(* gauge's promise how old the value in flight and the cached one may be.  *)
(***************************************************************************)

BootType ==
    /\ configured \in BOOLEAN /\ wallet \in BOOLEAN /\ engine \in BOOLEAN /\ resolution \in BOOLEAN
    /\ wiring \in [Forwarders -> [target: Targets, allows: SUBSET (1..Selectors)]]
    /\ boot \in [at: Forwarders \cup {"over"}, attempt: Nat, read: Nat]
    /\ failed \in [Forwarders -> Nat]

\* What the answers so far have shown of the forwarder that is being verified.
Confirmed(f) ==
    /\ boot.read > 0 => wiring[f].target = "ours"
    /\ \A s \in 1..Selectors : s < boot.read => s \in wiring[f].allows

\* During the first check there is a wallet, and its failed reads are its attempts.
DuringTrading ==
    /\ configured /\ wallet /\ ~ resolution
    /\ failed["trading"] = boot.attempt /\ failed["resolution"] = 0
    /\ boot.read > 0 => engine
    /\ Confirmed("trading")

\* After it, the wallet that is left is a good one.
AfterTrading ==
    /\ wallet => engine /\ Wired("trading")
    /\ Wired("trading") /\ failed["trading"] <= Retries => wallet

DuringResolution ==
    /\ configured /\ ~ resolution
    /\ failed["resolution"] = boot.attempt
    /\ Confirmed("resolution")

AfterResolution ==
    /\ resolution => Wired("resolution")
    /\ Wired("resolution") /\ failed["resolution"] <= Retries => resolution

BootInv ==
    /\ BootType
    /\ boot.at = "trading" => DuringTrading
    /\ boot.at = "resolution" => AfterTrading /\ DuringResolution
    /\ boot.at = "over" /\ configured => AfterTrading /\ AfterResolution

\* A forwarder whose destination and whose every selector were confirmed is wired right.
LEMMA AllConfirmed ==
    ASSUME BootType, NEW f \in Forwarders, Confirmed(f), ~ Refused(f), boot.read >= Selectors
    PROVE  Wired(f)
<1>1. Selectors \in Nat \ {0} /\ boot.read \in Nat /\ wiring[f].allows \in SUBSET (1..Selectors)
  BY BootAssumption DEF BootType
<1>2. wiring[f].target = "ours"
  BY <1>1 DEF Confirmed
<1>3. \A s \in 1..Selectors : s \in wiring[f].allows
  <2>1. TAKE s \in 1..Selectors
  <2>2. CASE s < boot.read
    BY <2>2 DEF Confirmed
  <2>3. CASE s = boot.read
    BY <1>1, <2>3 DEF Refused
  <2> QED BY <1>1, <2>2, <2>3
<1>4. wiring[f].allows = 1..Selectors
  BY <1>1, <1>3
<1> QED BY <1>2, <1>4 DEF Wired

\* A read that is refused shows a forwarder that is not wired right.
LEMMA RefusedIsNotWired ==
    ASSUME BootType, NEW f \in Forwarders, Refused(f)
    PROVE  ~ Wired(f)
<1>1. CASE boot.read = 0
  BY <1>1 DEF Refused, Wired
<1>2. CASE boot.read # 0
  <2>1. boot.read \in 1..Selectors
    BY <1>2, BootAssumption DEF BootType, Refused
  <2> QED BY <1>2, <2>1 DEF Refused, Wired
<1> QED BY <1>1, <1>2

\* One read on, one more answer is confirmed.
LEMMA ConfirmedFurther ==
    ASSUME BootType, NEW f \in Forwarders, Confirmed(f), ~ Refused(f),
           wiring' = wiring, boot' = [boot EXCEPT !.read = @ + 1]
    PROVE  Confirmed(f)'
<1>1. boot.read \in Nat /\ boot'.read = boot.read + 1 /\ Selectors \in Nat
  BY BootAssumption DEF BootType
<1>2. wiring[f].target = "ours"
  BY <1>1 DEF Confirmed, Refused
<1>3. \A s \in 1..Selectors : s < boot.read + 1 => s \in wiring[f].allows
  <2>1. TAKE s \in 1..Selectors
  <2>2. CASE s < boot.read
    BY <2>2 DEF Confirmed
  <2>3. CASE s = boot.read
    BY <1>1, <2>3 DEF Refused
  <2> QED BY <1>1, <2>2, <2>3
<1> QED BY <1>1, <1>2, <1>3 DEF Confirmed

\* A check that starts has confirmed nothing, and needs nothing.
LEMMA NothingConfirmed ==
    ASSUME NEW f \in Forwarders, boot.read = 0
    PROVE  Confirmed(f)
BY BootAssumption DEF Confirmed

\* Before the first read, nothing is claimed but what BootInit sets.
LEMMA BootStarts == BootInit => BootInv
<1> SUFFICES ASSUME BootInit PROVE BootInv
  OBVIOUS
<1> USE DEF BootInit, Forwarders, Targets
<1>1. BootType
  BY DEF BootType
<1>2. boot.at = "trading" => DuringTrading
  <2>1. Confirmed("trading")
    BY NothingConfirmed
  <2> QED BY <2>1 DEF DuringTrading
<1>3. boot.at # "resolution" /\ (boot.at = "over" => ~ configured)
  OBVIOUS
<1> QED BY <1>1, <1>2, <1>3 DEF BootInv

\* What the trading check must leave behind for the next check, or for service, to start from.
LEMMA TradingEnds ==
    ASSUME boot' = NextCheck("trading"), UNCHANGED deployVars, BootType', AfterTrading',
           configured, ~ resolution', failed'["resolution"] = 0
    PROVE  BootInv'
<1> USE DEF deployVars
<1>1. CASE wiring["resolution"].target # "none"
  <2>1. boot' = [at |-> "resolution", attempt |-> 0, read |-> 0]
    BY <1>1 DEF NextCheck
  <2>2. Confirmed("resolution")'
    BY <2>1, BootAssumption DEF Confirmed
  <2> QED BY <2>1, <2>2 DEF BootInv, DuringResolution
<1>2. CASE wiring["resolution"].target = "none"
  <2>1. boot'.at = "over"
    BY <1>2 DEF NextCheck
  <2>2. AfterResolution'
    BY <1>2 DEF AfterResolution, Wired
  <2> QED BY <2>1, <2>2 DEF BootInv
<1> QED BY <1>1, <1>2

\* The same for the resolution check, after which the service listens.
LEMMA ResolutionEnds ==
    ASSUME boot' = NextCheck("resolution"), BootType', AfterTrading', AfterResolution'
    PROVE  BootInv'
<1>1. boot'.at = "over"
  BY DEF NextCheck
<1> QED BY <1>1 DEF BootInv

\* The next check is one that BootType knows.
LEMMA NextCheckType ==
    ASSUME NEW f \in Forwarders
    PROVE  NextCheck(f) \in [at: Forwarders \cup {"over"}, attempt: Nat, read: Nat]
BY DEF NextCheck, Forwarders

\* A wrong answer leaves the trading check without a wallet and without blame for the forwarder.
LEMMA RefuseKeeps ==
    ASSUME BootInv, NEW f \in Forwarders, Refuse(f)
    PROVE  BootInv'
<1> USE DEF Refuse, deployVars
<1>1. BootType'
  BY NextCheckType DEF BootInv, BootType
<1>2. BootType /\ ~ Wired(f)
  BY RefusedIsNotWired DEF BootInv
<1>3. CASE f = "trading"
  <2>1. DuringTrading
    BY <1>3 DEF BootInv
  <2>2. ~ wallet' /\ ~ Wired("trading")'
    BY <1>2, <1>3, <2>1 DEF DuringTrading, BootType, Wired
  <2>3. AfterTrading'
    BY <2>2 DEF AfterTrading
  <2> QED BY <1>1, <1>3, <2>1, <2>3, TradingEnds DEF DuringTrading
<1>4. CASE f = "resolution"
  <2>1. AfterTrading /\ DuringResolution
    BY <1>4 DEF BootInv
  <2>2. AfterTrading'
    BY <1>2, <1>4, <2>1 DEF AfterTrading, BootType, Wired
  <2>3. AfterResolution'
    BY <1>2, <1>4, <2>1 DEF AfterResolution, DuringResolution, Wired
  <2> QED BY <1>1, <1>4, <2>2, <2>3, ResolutionEnds
<1> QED BY <1>3, <1>4 DEF Forwarders

\* A right answer brings the check one read further.
LEMMA ConfirmKeeps ==
    ASSUME BootInv, NEW f \in Forwarders, Confirm(f)
    PROVE  BootInv'
<1> USE DEF Confirm, deployVars
<1>1. BootType /\ boot.at = f
  BY DEF BootInv
<1>2. boot' \in [at: Forwarders \cup {"over"}, attempt: Nat, read: Nat]
      /\ boot'.at = boot.at /\ boot'.attempt = boot.attempt
  BY <1>1 DEF BootType
<1>3. BootType'
  <2>1. engine' \in BOOLEAN
    BY <1>1 DEF BootType
  <2> QED BY <1>1, <1>2, <2>1 DEF BootType
<1>4. CASE f = "trading"
  <2>1. DuringTrading
    BY <1>1, <1>4 DEF BootInv
  <2>2. Confirmed("trading")'
    BY <1>1, <1>4, <2>1, ConfirmedFurther DEF DuringTrading
  <2>3. engine'
    <3>1. boot.read = 0 \/ boot.read > 0
      BY <1>1 DEF BootType
    <3>2. engine' = (engine \/ boot.read = 0)
      BY <1>4, Zenon
    <3> QED BY <2>1, <3>1, <3>2, Zenon DEF DuringTrading
  <2>4. DuringTrading'
    BY <1>2, <2>1, <2>2, <2>3 DEF DuringTrading
  <2> QED BY <1>1, <1>2, <1>3, <1>4, <2>4 DEF BootInv
<1>5. CASE f = "resolution"
  <2>1. AfterTrading /\ DuringResolution
    BY <1>1, <1>5 DEF BootInv
  <2>2. Confirmed("resolution")'
    BY <1>1, <1>5, <2>1, ConfirmedFurther DEF DuringResolution
  <2>3. DuringResolution'
    BY <1>2, <2>1, <2>2 DEF DuringResolution
  <2>4. AfterTrading'
    BY <1>1, <1>5, <2>1 DEF AfterTrading, BootType, Wired
  <2> QED BY <1>1, <1>2, <1>3, <1>5, <2>3, <2>4 DEF BootInv
<1> QED BY <1>4, <1>5 DEF Forwarders

\* The last right answer leaves a forwarder that is wired right, and the service has what it needs.
LEMMA ReadyKeeps ==
    ASSUME BootInv, NEW f \in Forwarders, Ready(f)
    PROVE  BootInv'
<1> USE DEF Ready, deployVars
<1>1. BootType /\ boot.at = f
  BY DEF BootInv
<1>2. boot.read >= Selectors /\ boot.read > 0 /\ ~ Refused(f)
  BY BootAssumption DEF LastRead
<1>3. BootType'
  <2>1. resolution' \in BOOLEAN
    BY <1>1 DEF BootType
  <2>2. boot' \in [at: Forwarders \cup {"over"}, attempt: Nat, read: Nat]
    BY NextCheckType
  <2> QED BY <1>1, <2>1, <2>2 DEF BootType
<1>4. CASE f = "trading"
  <2>1. DuringTrading
    BY <1>1, <1>4 DEF BootInv
  <2>2. Wired("trading")
    BY <1>1, <1>2, <1>4, <2>1, AllConfirmed DEF DuringTrading
  <2>3. engine
    BY <1>1, <1>2, <2>1, BootAssumption DEF DuringTrading, BootType
  <2>4. AfterTrading'
    BY <2>1, <2>2, <2>3 DEF AfterTrading, DuringTrading, Wired
  <2>5. ~ resolution'
    BY <1>4, <2>1, Zenon DEF DuringTrading
  <2> QED BY <1>3, <1>4, <2>1, <2>4, <2>5, TradingEnds DEF DuringTrading
<1>5. CASE f = "resolution"
  <2>1. AfterTrading /\ DuringResolution
    BY <1>1, <1>5 DEF BootInv
  <2>2. Wired("resolution")
    BY <1>1, <1>2, <1>5, <2>1, AllConfirmed DEF DuringResolution
  <2>3. resolution'
    BY <1>5, Zenon
  <2>4. AfterResolution'
    BY <2>2, <2>3 DEF AfterResolution, Wired
  <2>5. AfterTrading'
    BY <2>1 DEF AfterTrading, Wired
  <2> QED BY <1>3, <1>5, <2>4, <2>5, ResolutionEnds
<1> QED BY <1>4, <1>5 DEF Forwarders

\* A read that fails is tried again, or counts one failure more than are forgiven.
LEMMA ReadFailsKeeps ==
    ASSUME BootInv, NEW f \in Forwarders, ReadFails(f)
    PROVE  BootInv'
<1> USE DEF ReadFails, deployVars
<1>1. BootType /\ boot.at = f
  BY DEF BootInv
<1>2. failed' \in [Forwarders -> Nat] /\ failed'[f] = failed[f] + 1
      /\ \A g \in Forwarders \ {f} : failed'[g] = failed[g]
  BY <1>1 DEF BootType
<1>3. BootType'
  <2>1. wallet' \in BOOLEAN
    BY <1>1 DEF BootType
  <2>2. boot' \in [at: Forwarders \cup {"over"}, attempt: Nat, read: Nat]
    <3>1. CASE boot' = [boot EXCEPT !.attempt = boot.attempt + 1, !.read = 0]
      <4>1. boot \in [at: Forwarders \cup {"over"}, attempt: Nat, read: Nat]
        BY <1>1 DEF BootType
      <4>2. boot.attempt + 1 \in Nat
        BY <4>1
      <4> HIDE DEF ReadFails
      <4> QED BY <3>1, <4>1, <4>2
    <3>2. CASE boot' = NextCheck(f)
      BY <3>2, NextCheckType
    <3> QED BY <3>1, <3>2
  <2> QED BY <1>1, <1>2, <2>1, <2>2 DEF BootType
<1>4. CASE boot.attempt < Retries
  <2>1. boot' = [boot EXCEPT !.attempt = @ + 1, !.read = 0] /\ wallet' = wallet
    BY <1>4
  <2>2. boot'.at = f /\ boot'.attempt = boot.attempt + 1 /\ boot'.read = 0
    BY <1>1, <2>1 DEF BootType
  <2>3. Confirmed(f)'
    BY <2>2, BootAssumption DEF Confirmed
  <2>4. CASE f = "trading"
    <3>1. DuringTrading
      BY <1>1, <2>4 DEF BootInv
    <3>2. DuringTrading'
      BY <1>2, <2>1, <2>2, <2>3, <2>4, <3>1 DEF DuringTrading, Forwarders
    <3> QED BY <1>3, <2>2, <2>4, <3>2 DEF BootInv
  <2>5. CASE f = "resolution"
    <3>1. AfterTrading /\ DuringResolution
      BY <1>1, <2>5 DEF BootInv
    <3>2. DuringResolution'
      BY <1>2, <2>1, <2>2, <2>3, <2>5, <3>1 DEF DuringResolution, Forwarders
    <3>3. AfterTrading'
      BY <1>2, <2>1, <2>5, <3>1 DEF AfterTrading, Wired, Forwarders
    <3> QED BY <1>3, <2>2, <2>5, <3>2, <3>3 DEF BootInv
  <2> QED BY <2>4, <2>5 DEF Forwarders
<1>5. CASE ~ (boot.attempt < Retries)
  <2>1. boot' = NextCheck(f) /\ wallet' = (wallet /\ f # "trading")
    BY <1>5
  <2>2. boot.attempt \in Nat /\ Retries \in Nat
    BY <1>1, BootAssumption DEF BootType
  <2>3. CASE f = "trading"
    <3>1. DuringTrading
      BY <1>1, <2>3 DEF BootInv
    <3>2. ~ wallet'
      BY <2>1, <2>3
    <3>3. ~ (failed'["trading"] <= Retries) /\ failed'["resolution"] = 0
      BY <1>2, <1>5, <2>2, <2>3, <3>1 DEF DuringTrading, Forwarders
    <3>4. AfterTrading'
      BY <3>2, <3>3 DEF AfterTrading
    <3> QED BY <1>3, <2>1, <2>3, <3>1, <3>3, <3>4, TradingEnds DEF DuringTrading
  <2>4. CASE f = "resolution"
    <3>1. AfterTrading /\ DuringResolution
      BY <1>1, <2>4 DEF BootInv
    <3>2. wallet' = wallet
      BY <1>1, <2>1, <2>4 DEF BootType
    <3>3. AfterTrading'
      BY <1>2, <2>4, <3>1, <3>2 DEF AfterTrading, Wired, Forwarders
    <3>4. ~ resolution' /\ ~ (failed'["resolution"] <= Retries)
      BY <1>2, <1>5, <2>2, <2>4, <3>1 DEF DuringResolution
    <3>5. AfterResolution'
      BY <3>4 DEF AfterResolution
    <3> QED BY <1>3, <2>1, <2>4, <3>3, <3>5, ResolutionEnds
  <2> QED BY <2>3, <2>4 DEF Forwarders
<1> QED BY <1>4, <1>5

\* The gauge, the chain and the clock leave the deployment and the checks alone.
LEMMA GaugeLeavesBoot ==
    ASSUME BootInv, UNCHANGED <<deployVars, bootVars>>
    PROVE  BootInv'
BY DEF deployVars, bootVars, BootInv, BootType, DuringTrading, AfterTrading, DuringResolution,
       AfterResolution, Confirmed, Wired

\* Whatever happens, a check stays as far as its answers have brought it.
LEMMA BootStep == BootInv /\ [BootNext]_relayVars => BootInv'
<1> SUFFICES ASSUME BootInv, [BootNext]_relayVars PROVE BootInv'
  OBVIOUS
<1>1. ASSUME NEW f \in Forwarders, Check(f) PROVE BootInv'
  BY <1>1, RefuseKeeps, ConfirmKeeps, ReadyKeeps, ReadFailsKeeps DEF Check
<1>2. CASE \E p \in Pollers : Poll(p)
  BY <1>2, GaugeLeavesBoot DEF Poll, PollFresh, PollJoins, PollReads
<1>3. CASE BalanceAnswered \/ BalanceFails \/ BalanceMoves \/ TimePasses
  BY <1>3, GaugeLeavesBoot DEF BalanceAnswered, BalanceFails, BalanceMoves, TimePasses
<1>4. CASE UNCHANGED relayVars
  BY <1>4, GaugeLeavesBoot DEF relayVars
<1> QED BY <1>1, <1>2, <1>3, <1>4 DEF BootNext

\* What the checks leave behind is what BootDecides promises.
LEMMA BootInvDecides == BootInv => BootDecides
BY DEF BootInv, BootType, AfterTrading, AfterResolution, BootDecides, Up, Enabled, ResolutionEnabled

\* For any number of selectors and retries and whatever the node fails to answer, a service that
\* listens has a wallet exactly if its forwarder is wired right and could be asked, and relays
\* proposals only through a forwarder that was verified (verifyWiring, verifyResolutionWiring).
THEOREM BootDecided == BootSpec => []BootDecides
<1>1. BootSpec => []BootInv
  BY BootStarts, BootStep, PTL DEF BootSpec
<1> QED BY <1>1, BootInvDecides, PTL

-----------------------------------------------------------------------------
(* The gauge *)

\* A read takes MaxLag ticks at most, and the cached balance is fresh until a TTL after it ended.
GaugeType ==
    /\ balanceRead \in [wei: Balances \cup {Null}, fresh: 0..TTL]
    /\ inFlight \in {NoFlight} \cup [wei: Balances \cup {Null}, lag: 0..MaxLag]
    /\ told \in [Pollers -> [now: BOOLEAN, wei: Balances \cup {Null}]]
    /\ balance \in Balances /\ settled \in 0..Old /\ quiet \in 0..TTL
    /\ balanceRead.fresh + quiet = TTL

\* A value in flight that is no longer the balance was overtaken after the read had begun.
FlightIsRecent ==
    inFlight # NoFlight /\ inFlight.wei # balance => settled <= inFlight.lag

\* A cached value that is not the balance was overtaken while it was read, or later.
CacheIsRecent ==
    balanceRead.fresh > 0 /\ balanceRead.wei # balance => settled <= MaxLag + TTL - balanceRead.fresh

TalkIsRecent ==
    \A p \in Pollers : told[p].now /\ told[p].wei # balance => settled < Old

GaugeInv == GaugeType /\ (configured => FlightIsRecent /\ CacheIsRecent /\ TalkIsRecent)

\* The ticks and bounds the steps below calculate with.
LEMMA Ticks == TTL \in Nat \ {0} /\ MaxLag \in Nat /\ Old = TTL + MaxLag + 1 /\ Old \in Nat
BY BootAssumption DEF Old

\* Telling some pollers a balance keeps told in its type, and tells nobody else anything.
LEMMA TellTells ==
    ASSUME NEW ps, NEW wei \in Balances \cup {Null}, Tell(ps, wei)
    PROVE  /\ told' \in [Pollers -> [now: BOOLEAN, wei: Balances \cup {Null}]]
           /\ \A p \in Pollers : told'[p].now => told'[p].wei = wei
BY DEF Tell, NotTold

\* Where nobody is told anything, nobody is told anything old.
LEMMA NobodyTold ==
    ASSUME told' = NotTold
    PROVE  /\ told' \in [Pollers -> [now: BOOLEAN, wei: Balances \cup {Null}]]
           /\ TalkIsRecent'
BY DEF NotTold, TalkIsRecent

\* Nothing is cached or in flight before the first poll.
LEMMA GaugeInit == BootInit => GaugeInv
<1> SUFFICES ASSUME BootInit PROVE GaugeInv
  OBVIOUS
<1> USE DEF BootInit
<1>1. GaugeType
  BY Ticks DEF GaugeType, NoRead, NoFlight, NotTold
<1>2. FlightIsRecent /\ CacheIsRecent /\ TalkIsRecent
  BY DEF FlightIsRecent, CacheIsRecent, TalkIsRecent, NoRead, NoFlight, NotTold
<1> QED BY <1>1, <1>2 DEF GaugeInv

\* Whoever is served from the cache hears of a balance that was overtaken less than Old ticks ago.
LEMMA PollFreshKeeps ==
    ASSUME GaugeInv, NEW p \in Pollers, PollFresh(p)
    PROVE  GaugeInv'
<1> USE DEF PollFresh, balanceVars, deployVars
<1>1. GaugeType
  BY DEF GaugeInv
<1>2. balanceRead.wei \in Balances \cup {Null} /\ balanceRead.fresh \in 1..TTL
  BY <1>1, Ticks DEF GaugeType
<1>3. told' \in [Pollers -> [now: BOOLEAN, wei: Balances \cup {Null}]]
      /\ \A q \in Pollers : told'[q].now => told'[q].wei = balanceRead.wei
  BY <1>2, TellTells
<1>4. GaugeType'
  BY <1>1, <1>3 DEF GaugeType
<1>5. ASSUME configured, CacheIsRecent PROVE TalkIsRecent'
  <2>1. balanceRead.wei # balance => settled <= MaxLag + TTL - balanceRead.fresh
    BY <1>2, <1>5 DEF CacheIsRecent
  <2>2. balanceRead.wei # balance => settled < Old
    BY <1>1, <1>2, <2>1, Ticks DEF GaugeType
  <2> QED BY <1>3, <2>2 DEF TalkIsRecent
<1> QED BY <1>4, <1>5 DEF GaugeInv, FlightIsRecent, CacheIsRecent

\* Joining a read changes nothing that is promised.
LEMMA PollJoinsKeeps ==
    ASSUME GaugeInv, NEW p \in Pollers, PollJoins(p)
    PROVE  GaugeInv'
BY DEF PollJoins, GaugeInv, GaugeType, FlightIsRecent, CacheIsRecent, TalkIsRecent, balanceVars,
       deployVars, Old, NoFlight

\* A read sees the balance as it is.
LEMMA PollReadsKeeps ==
    ASSUME GaugeInv, NEW p \in Pollers, PollReads(p)
    PROVE  GaugeInv'
<1> USE DEF PollReads, balanceVars, deployVars
<1>1. GaugeType
  BY DEF GaugeInv
<1>2. inFlight' \in [wei: Balances \cup {Null}, lag: 0..MaxLag]
  BY <1>1, Ticks DEF GaugeType
<1>3. GaugeType'
  BY <1>1, <1>2 DEF GaugeType, NoFlight, Old
<1>4. configured => FlightIsRecent'
  BY DEF FlightIsRecent
<1> QED BY <1>3, <1>4 DEF GaugeInv, CacheIsRecent, TalkIsRecent, Old

\* When a read ends, its value starts a TTL of its own.
LEMMA EndsType ==
    ASSUME GaugeType, NEW wei \in Balances \cup {Null}, Ends(wei),
           balance' = balance, settled' \in 0..Old
    PROVE  GaugeType'
<1> USE DEF Ends
<1>1. told' \in [Pollers -> [now: BOOLEAN, wei: Balances \cup {Null}]]
  BY TellTells
<1>2. balanceRead' \in [wei: Balances \cup {Null}, fresh: 0..TTL] /\ quiet' \in 0..TTL
      /\ balanceRead'.fresh + quiet' = TTL
  BY Ticks
<1> QED BY <1>1, <1>2 DEF GaugeType, NoFlight, Old

\* Its age is that of the read, which is promised to those who waited and to those who come.
LEMMA EndsIsRecent ==
    ASSUME NEW wei \in Balances \cup {Null}, Ends(wei), balance' = balance,
           settled' \in 0..Old, wei # balance => settled' <= MaxLag
    PROVE  FlightIsRecent' /\ CacheIsRecent' /\ TalkIsRecent'
<1> USE DEF Ends
<1>1. FlightIsRecent'
  BY DEF FlightIsRecent, NoFlight
<1>2. CacheIsRecent'
  BY Ticks DEF CacheIsRecent
<1>3. \A p \in Pollers : told'[p].now => told'[p].wei = wei
  BY TellTells
<1>4. wei # balance => settled' < Old
  BY Ticks
<1>5. TalkIsRecent'
  BY <1>3, <1>4 DEF TalkIsRecent, Old
<1> QED BY <1>1, <1>2, <1>5

\* An answer is no older than its read took.
LEMMA BalanceAnsweredKeeps ==
    ASSUME GaugeInv, BalanceAnswered
    PROVE  GaugeInv'
<1> USE DEF BalanceAnswered, deployVars
<1>1. GaugeType
  BY DEF GaugeInv
<1>2. inFlight # NoFlight
  BY DEF Ends
<1>3. inFlight.wei \in Balances \cup {Null} /\ inFlight.lag \in 0..MaxLag
  BY <1>1, <1>2 DEF GaugeType
<1>4. settled' = settled /\ settled \in 0..Old /\ balance' = balance
  BY <1>1 DEF GaugeType
<1>5. GaugeType'
  BY <1>1, <1>3, <1>4, EndsType
<1>6. ASSUME configured, FlightIsRecent
      PROVE  FlightIsRecent' /\ CacheIsRecent' /\ TalkIsRecent'
  <2>1. inFlight.wei # balance => settled' <= MaxLag
    BY <1>2, <1>3, <1>4, <1>6, Ticks DEF FlightIsRecent
  <2> QED BY <1>3, <1>4, <2>1, EndsIsRecent
<1> QED BY <1>5, <1>6 DEF GaugeInv

\* A failed read counts as a change of what is known.
LEMMA BalanceFailsKeeps ==
    ASSUME GaugeInv, BalanceFails
    PROVE  GaugeInv'
<1> USE DEF BalanceFails, deployVars
<1>1. Ends(Null) /\ balance' = balance /\ settled' = 0 /\ settled' \in 0..Old
  BY Ticks
<1>2. GaugeType'
  BY <1>1, EndsType DEF GaugeInv
<1>3. FlightIsRecent' /\ CacheIsRecent' /\ TalkIsRecent'
  BY <1>1, Ticks, EndsIsRecent
<1> QED BY <1>2, <1>3 DEF GaugeInv

\* A new balance makes every value that is not it recent.
LEMMA BalanceMovesKeeps ==
    ASSUME GaugeInv, BalanceMoves
    PROVE  GaugeInv'
<1> USE DEF BalanceMoves
<1>1. GaugeType
  BY DEF GaugeInv
<1>2. settled' = 0 /\ balanceRead' = balanceRead /\ inFlight' = inFlight
  OBVIOUS
<1>3. GaugeType'
  BY <1>1, <1>2, NobodyTold, Ticks DEF GaugeType, Old
<1>4. FlightIsRecent'
  BY <1>1, <1>2, Ticks DEF FlightIsRecent, GaugeType
<1>5. CacheIsRecent'
  BY <1>1, <1>2, Ticks DEF CacheIsRecent, GaugeType
<1> QED BY <1>3, <1>4, <1>5, NobodyTold DEF GaugeInv

\* A tick ages the value in flight and the cached one, and the balance with them.
LEMMA TimePassesKeeps ==
    ASSUME GaugeInv, TimePasses
    PROVE  GaugeInv'
<1> USE DEF TimePasses, deployVars
<1>1. GaugeType
  BY DEF GaugeInv
<1>2. settled' \in 0..Old /\ settled' <= settled + 1
  BY <1>1, Ticks DEF GaugeType
<1>3. balanceRead.wei \in Balances \cup {Null} /\ balanceRead.fresh \in 0..TTL /\ quiet \in 0..TTL
      /\ balanceRead.fresh + quiet = TTL /\ settled \in 0..Old
  BY <1>1 DEF GaugeType
<1>4. /\ balanceRead' \in [wei: Balances \cup {Null}, fresh: 0..TTL]
      /\ balanceRead'.fresh > 0 =>
           balanceRead'.wei = balanceRead.wei /\ balanceRead'.fresh = balanceRead.fresh - 1
      /\ quiet' \in 0..TTL /\ balanceRead'.fresh + quiet' = TTL
  <2>1. CASE balanceRead.fresh > 1
    <3>1. balanceRead' = [balanceRead EXCEPT !.fresh = balanceRead.fresh - 1]
      BY <2>1
    <3>2. balanceRead' = [wei |-> balanceRead.wei, fresh |-> balanceRead.fresh - 1]
      BY <1>1, <3>1 DEF GaugeType
    <3> QED BY <1>3, <2>1, <3>2, Ticks
  <2>2. CASE ~ (balanceRead.fresh > 1)
    BY <1>3, <2>2, Ticks DEF NoRead
  <2> QED BY <2>1, <2>2
<1>5. /\ inFlight' \in {NoFlight} \cup [wei: Balances \cup {Null}, lag: 0..MaxLag]
      /\ inFlight' # NoFlight =>
           inFlight # NoFlight /\ inFlight'.wei = inFlight.wei /\ inFlight'.lag = inFlight.lag + 1
  <2>1. CASE inFlight = NoFlight
    BY <2>1
  <2>2. CASE inFlight # NoFlight
    <3>1. inFlight \in [wei: Balances \cup {Null}, lag: 0..MaxLag] /\ inFlight.lag < MaxLag
      BY <1>1, <2>2 DEF GaugeType
    <3>2. inFlight' = [inFlight EXCEPT !.lag = inFlight.lag + 1]
      BY <2>2
    <3>3. inFlight' = [wei |-> inFlight.wei, lag |-> inFlight.lag + 1]
      BY <3>1, <3>2
    <3> QED BY <2>2, <3>1, <3>3, Ticks
  <2> QED BY <2>1, <2>2
<1>6. GaugeType'
  BY <1>1, <1>2, <1>4, <1>5, NobodyTold DEF GaugeType, Old
<1>7. ASSUME configured, FlightIsRecent PROVE FlightIsRecent'
  <2>1. CASE inFlight' # NoFlight /\ inFlight'.wei # balance
    <3>1. inFlight.lag \in 0..MaxLag /\ settled <= inFlight.lag
      BY <1>1, <1>5, <1>7, <2>1 DEF FlightIsRecent, GaugeType
    <3> QED BY <1>2, <1>3, <1>5, <2>1, <3>1, Ticks DEF FlightIsRecent
  <2> QED BY <2>1 DEF FlightIsRecent, NoFlight
<1>8. ASSUME configured, CacheIsRecent PROVE CacheIsRecent'
  <2>1. CASE balanceRead'.fresh > 0 /\ balanceRead'.wei # balance
    <3>1. balanceRead.fresh > 0 /\ balanceRead.wei # balance
      BY <1>3, <1>4, <2>1, Ticks
    <3>2. settled <= MaxLag + TTL - balanceRead.fresh
      BY <1>8, <3>1 DEF CacheIsRecent
    <3> QED BY <1>2, <1>3, <1>4, <2>1, <3>2, Ticks DEF CacheIsRecent
  <2> QED BY <2>1 DEF CacheIsRecent
<1> QED BY <1>6, <1>7, <1>8, NobodyTold DEF GaugeInv

\* The checks, and the deployment they look at, are none of the gauge's business.
LEMMA BootLeavesGauge ==
    ASSUME GaugeInv, UNCHANGED <<deployVars, gaugeVars, balanceVars>>
    PROVE  GaugeInv'
BY DEF deployVars, gaugeVars, balanceVars, GaugeInv, GaugeType, FlightIsRecent, CacheIsRecent,
       TalkIsRecent, NoFlight, Old

\* No step of the service, the chain or the clock lets a value grow older than it may.
LEMMA GaugeStep == GaugeInv /\ [BootNext]_relayVars => GaugeInv'
<1> SUFFICES ASSUME GaugeInv, [BootNext]_relayVars PROVE GaugeInv'
  OBVIOUS
<1>1. ASSUME NEW f \in Forwarders, Check(f) PROVE GaugeInv'
  BY <1>1, BootLeavesGauge DEF Check, Refuse, Confirm, Ready, ReadFails
<1>2. ASSUME NEW p \in Pollers, Poll(p) PROVE GaugeInv'
  BY <1>2, PollFreshKeeps, PollJoinsKeeps, PollReadsKeeps DEF Poll
<1>3. CASE BalanceAnswered
  BY <1>3, BalanceAnsweredKeeps
<1>4. CASE BalanceFails
  BY <1>4, BalanceFailsKeeps
<1>5. CASE BalanceMoves
  BY <1>5, BalanceMovesKeeps
<1>6. CASE TimePasses
  BY <1>6, TimePassesKeeps
<1>7. CASE UNCHANGED relayVars
  BY <1>7, BootLeavesGauge DEF relayVars
<1> QED BY <1>1, <1>2, <1>3, <1>4, <1>5, <1>6, <1>7 DEF BootNext

\* A flight begins where there was none, and not before the cached balance has expired.
LEMMA ReadsAreRare ==
    ASSUME GaugeInv, [BootNext]_relayVars, inFlight'.lag = 0, inFlight' # inFlight
    PROVE  inFlight = NoFlight /\ quiet = TTL
<1>1. GaugeType
  BY DEF GaugeInv
<1>2. ASSUME NEW p \in Pollers, Poll(p) PROVE inFlight = NoFlight /\ quiet = TTL
  BY <1>1, <1>2, Ticks DEF Poll, PollFresh, PollJoins, PollReads, GaugeType
<1>3. ~ (BalanceAnswered \/ BalanceFails)
  BY DEF BalanceAnswered, BalanceFails, Ends, NoFlight
<1>4. ~ TimePasses
  <2> SUFFICES ASSUME TimePasses PROVE FALSE
    OBVIOUS
  <2>1. inFlight # NoFlight
    BY DEF TimePasses
  <2>2. inFlight \in [wei: Balances \cup {Null}, lag: 0..MaxLag]
    BY <1>1, <2>1 DEF GaugeType
  <2>3. inFlight' = [inFlight EXCEPT !.lag = inFlight.lag + 1]
    BY <2>1 DEF TimePasses
  <2>4. inFlight'.lag = inFlight.lag + 1
    BY <2>2, <2>3
  <2> QED BY <2>2, <2>4, Ticks
<1> QED BY <1>2, <1>3, <1>4 DEF BootNext, relayVars, Check, Refuse, Confirm, Ready, ReadFails, BalanceMoves,
           gaugeVars

\* For any number of operators, a TTL and any bound on how long the node takes: a balance read
\* begins only when none is under way and the last one ended a TTL ago, and nobody is told a balance
\* that was overtaken longer ago than a TTL and a read (cachedBalance).
THEOREM GaugeKeepsItsPromise == BootSpec => GaugeIsCheapAndRecent
<1>1. BootSpec => []GaugeInv
  BY GaugeInit, GaugeStep, PTL DEF BootSpec
<1>2. GaugeInv /\ [BootNext]_relayVars =>
        [inFlight'.lag = 0 /\ inFlight' # inFlight => inFlight = NoFlight /\ quiet = TTL]_relayVars
  BY ReadsAreRare
<1>3. GaugeInv => \A p \in Pollers : told[p].now /\ configured /\ told[p].wei # balance => settled < Old
  BY DEF GaugeInv, TalkIsRecent
<1> QED BY <1>1, <1>2, <1>3, PTL DEF BootSpec, GaugeIsCheapAndRecent

-----------------------------------------------------------------------------
(***************************************************************************)
(* Settlement: attempts on one proposal are a cooldown apart, and what is  *)
(* always refused is waited for longer and longer.                         *)
(*                                                                         *)
(* A proposal that is looked at is out of backoff; what it has waited and  *)
(* what it still has to wait add up to the cooldown at least, because no   *)
(* delay is shorter; and one that is never sent has every failure counted. *)
(***************************************************************************)
\* A power of two is a natural, and greater than its exponent.
LEMMA PowersOfTwo ==
    ASSUME NEW n \in Nat
    PROVE  2^n \in Nat /\ 2^n >= n + 1
<1>1. IsFiniteSet(1..n) /\ Cardinality(1..n) = n
  BY FS_Interval
<1>2. IsFiniteSet(SUBSET (1..n)) /\ Cardinality(SUBSET (1..n)) = 2^n
  BY <1>1, FS_SUBSET
<1> DEFINE f == [i \in 0..n |-> 1..i]
<1>3. f \in [0..n -> SUBSET (1..n)]
  OBVIOUS
<1>4. ASSUME NEW i \in 0..n, NEW k \in 0..n, f[i] = f[k] PROVE i = k
  <2>1. \A x \in Int : x \in 1..i <=> x \in 1..k
    BY <1>4
  <2> HIDE DEF f
  <2>2. (i > 0 => i \in 1..k) /\ (k > 0 => k \in 1..i)
    BY <2>1
  <2> QED  BY <2>2
<1>5. f \in Injection(0..n, SUBSET (1..n))
  BY <1>3, <1>4 DEF Injection, IsInjective
<1>6. Cardinality(0..n) = n + 1
  BY FS_Interval
<1> HIDE DEF f
<1>7. n + 1 <= Cardinality(SUBSET (1..n))
  BY <1>2, <1>5, <1>6, FS_Injection
<1>8. Cardinality(SUBSET (1..n)) \in Nat
  BY <1>2, FS_CardinalityType
<1> DEFINE power == 2^n
<1>9. power = Cardinality(SUBSET (1..n))
  BY <1>2
<1> HIDE DEF power
<1>10. power \in Nat /\ power >= n + 1
  BY <1>7, <1>8, <1>9
<1> QED  BY <1>10 DEF power

\* backOff's delay is no shorter than the first, nor longer than the longest, and a number of
\* attempts earns the longest.
LEMMA Delays ==
    /\ \A n \in Nat \ {0} : Delay(n) \in BaseBackoff..MaxBackoff
    /\ Delay(MaxBackoff) = MaxBackoff
<1>1. BaseBackoff \in Nat \ {0} /\ MaxBackoff \in Nat \ {0} /\ BaseBackoff <= MaxBackoff
  BY SettlementAssumption
<1>2. ASSUME NEW n \in Nat \ {0}
      PROVE  /\ Delay(n) \in BaseBackoff..MaxBackoff
             /\ n >= MaxBackoff => Delay(n) = MaxBackoff
  <2> DEFINE power == 2^(n - 1)
             long  == BaseBackoff * power
  <2>1. power \in Nat /\ power >= n
    <3>1. n - 1 \in Nat
      OBVIOUS
    <3> HIDE DEF power
    <3>2. power \in Nat /\ power >= (n - 1) + 1
      BY <3>1, PowersOfTwo DEF power
    <3> QED  BY <3>2
  <2>2. Delay(n) = IF long < MaxBackoff THEN long ELSE MaxBackoff
    BY DEF Delay, Smaller
  <2> HIDE DEF power
  <2>3. long \in Nat /\ long >= BaseBackoff /\ long >= power
    <3>1. long \in Int
      BY <1>1, <2>1
    <3>2. (BaseBackoff - 1) * power >= 0 /\ BaseBackoff * (power - 1) >= 0
      <4>1. \A x, y \in Nat : x * y >= 0
        OBVIOUS
      <4>2. BaseBackoff - 1 \in Nat /\ power - 1 \in Nat /\ BaseBackoff \in Nat
        BY <1>1, <2>1
      <4> QED  BY <2>1, <4>1, <4>2
    <3>3. (BaseBackoff - 1) * power = long - power /\ BaseBackoff * (power - 1) = long - BaseBackoff
      BY <1>1, <2>1
    <3> HIDE DEF long
    <3> QED  BY <1>1, <2>1, <3>1, <3>2, <3>3
  <2> HIDE DEF long
  <2> QED  BY <1>1, <2>1, <2>2, <2>3
<1> QED  BY <1>1, <1>2

\* There is a first number of attempts that earns the longest delay.
LEMMA SaturatedExists == Saturated \in 1..MaxBackoff
<1> DEFINE S == {n \in 1..MaxBackoff : Delay(n) = MaxBackoff}
<1>1. MaxBackoff \in Nat \ {0} /\ BaseBackoff \in Nat
  BY SettlementAssumption
<1>2. MaxBackoff \in S /\ S \in SUBSET Nat
  BY <1>1, Delays
<1>3. PICK m \in S : \A k \in S : m <= k
  <2> HIDE DEF S
  <2> QED  BY <1>2, LeastNumber
<1>4. m \in 1..MaxBackoff /\ Delay(m) = MaxBackoff
  OBVIOUS
<1>5. ASSUME NEW k \in 1..(m - 1) PROVE Delay(k) < MaxBackoff
  <2>1. k \in 1..MaxBackoff /\ k < m /\ k \in Nat \ {0}
    BY <1>1, <1>4
  <2>2. k \notin S
    BY <1>3, <1>4, <2>1
  <2>3. Delay(k) # MaxBackoff
    BY <2>1, <2>2
  <2>4. Delay(k) \in BaseBackoff..MaxBackoff
    BY <2>1, Delays
  <2> QED  BY <1>1, <2>3, <2>4
<1>6. \E n \in 1..MaxBackoff : Delay(n) = MaxBackoff /\ \A k \in 1..(n - 1) : Delay(k) < MaxBackoff
  BY <1>4, <1>5
<1> HIDE DEF S
<1> QED  BY <1>6 DEF Saturated

\* The attempts are spaced, in the form that every step keeps.
Spacing ==
    /\ \A p \in Proposals : since[p] + wait[p] >= Cooldown
    /\ \A p \in todo : wait[p] = 0
    /\ at = "idle" => todo = {}
    /\ at = "receipt" => current \notin todo /\ current \notin Stuck
    /\ \A p \in Stuck : failuresInARow[p] = attempts[p]

KeeperInv == KeeperTypeOK /\ Spacing

\* The constants' types.
LEMMA KeeperConstants ==
    /\ Cooldown \in Nat /\ MaxBackoff \in Nat /\ Horizon \in Nat /\ MaxKeeperFaults \in Nat
    /\ Cooldown > 0 /\ Cooldown <= MaxBackoff /\ Stuck \subseteq Proposals
    /\ Saturated \in Nat /\ Saturated > 0
<1>1. Saturated \in 1..MaxBackoff
  BY SaturatedExists
<1> QED  BY <1>1, SettlementAssumption

\* When the process starts the invariant holds.
LEMMA KeeperStarts == KeeperInit => KeeperInv
<1> SUFFICES ASSUME KeeperInit PROVE KeeperInv
  OBVIOUS
<1>1. KeeperTypeOK
  BY KeeperConstants DEF KeeperInit, KeeperTypeOK, Phases
<1>2. Spacing
  BY KeeperConstants DEF KeeperInit, Spacing
<1> QED  BY <1>1, <1>2 DEF KeeperInv

\* What the resolver, the mempool and the indexer do leaves the keeper's state alone.
LEMMA OutsideKeeps ==
    ASSUME KeeperInv, Dispute \/ OthersFinalize \/ MineFinalize \/ Index
    PROVE  KeeperInv'
<1>1. KeeperTypeOK /\ Spacing
  BY DEF KeeperInv
<1>2. UNCHANGED <<now, keeperFaults, at, todo, current, wait, attempts, since, failuresInARow>>
  BY DEF Dispute, OthersFinalize, MineFinalize, Index, history
<1>3. chain \in [Proposals -> Phases] /\ row \in [Proposals -> Phases \cup {"NONE"}] /\ unmined \subseteq Proposals
  BY <1>1 DEF KeeperTypeOK
<1>4. chain' \in [Proposals -> Phases]
  <2>1. CASE UNCHANGED chain
    BY <1>3, <2>1
  <2>2. CASE \E p \in Proposals, c \in {"DISPUTED", "SETTLED"} : chain' = [chain EXCEPT ![p] = c]
    BY <1>3, <2>2 DEF Phases
  <2>3. CASE Dispute
    BY <2>3, <2>2 DEF Dispute
  <2>4. CASE OthersFinalize
    BY <2>4, <2>2 DEF OthersFinalize
  <2>5. CASE MineFinalize
    BY <1>3, <2>5, <2>1, <2>2 DEF MineFinalize
  <2>6. CASE Index
    BY <2>6, <2>1 DEF Index
  <2> QED  BY <2>3, <2>4, <2>5, <2>6
<1>5. row' \in [Proposals -> Phases \cup {"NONE"}]
  <2>1. CASE UNCHANGED row
    BY <1>3, <2>1
  <2>2. CASE Index
    <3>1. PICK p \in Proposals : row' = [row EXCEPT ![p] = chain[p]]
      BY <2>2 DEF Index
    <3> QED  BY <1>3, <3>1
  <2> QED  BY <2>1, <2>2 DEF Dispute, OthersFinalize, MineFinalize
<1>6. unmined' \subseteq Proposals
  BY <1>3 DEF Dispute, OthersFinalize, MineFinalize, Index
<1>7. receipt' \in {"none", "success", "reverted"}
  BY <1>1 DEF Dispute, OthersFinalize, MineFinalize, Index, KeeperTypeOK
<1>8. KeeperTypeOK'
  BY <1>1, <1>2, <1>4, <1>5, <1>6, <1>7 DEF KeeperTypeOK
<1>9. Spacing'
  BY <1>1, <1>2 DEF Spacing
<1> QED  BY <1>8, <1>9 DEF KeeperInv

\* A minute less to wait is a minute more waited.
LEMMA ClockKeeps ==
    ASSUME KeeperInv, Clock
    PROVE  KeeperInv'
<1>1. KeeperTypeOK /\ Spacing
  BY DEF KeeperInv
<1>2. /\ now' = Smaller(now + 1, Horizon)
      /\ wait' = [p \in Proposals |-> IF wait[p] > 0 THEN wait[p] - 1 ELSE 0]
      /\ since' = [p \in Proposals |-> Smaller(since[p] + 1, Cooldown)]
      /\ UNCHANGED <<chain, row, unmined, keeperFaults, at, todo, current, receipt, attempts, failuresInARow>>
  BY DEF Clock, external
<1>3. ASSUME NEW p \in Proposals
      PROVE  /\ wait'[p] \in 0..MaxBackoff /\ since'[p] \in 0..Cooldown
             /\ since'[p] + wait'[p] >= Cooldown
             /\ wait[p] = 0 => wait'[p] = 0
  <2>1. wait[p] \in 0..MaxBackoff /\ since[p] \in 0..Cooldown /\ since[p] + wait[p] >= Cooldown
    BY <1>1 DEF KeeperTypeOK, Spacing
  <2>2. /\ wait'[p] = IF wait[p] > 0 THEN wait[p] - 1 ELSE 0
        /\ since'[p] = IF since[p] + 1 < Cooldown THEN since[p] + 1 ELSE Cooldown
    BY <1>2 DEF Smaller
  <2> QED  BY <2>1, <2>2, KeeperConstants
<1>4. now' \in 0..Horizon
  <2>1. now \in 0..Horizon
    BY <1>1 DEF KeeperTypeOK
  <2> QED  BY <1>2, <2>1, KeeperConstants DEF Smaller
<1>5. wait' \in [Proposals -> 0..MaxBackoff] /\ since' \in [Proposals -> 0..Cooldown]
  <2>1. wait' = [p \in Proposals |-> wait'[p]] /\ since' = [p \in Proposals |-> since'[p]]
    BY <1>2
  <2> QED  BY <1>3, <2>1
<1>6. KeeperTypeOK'
  BY <1>1, <1>2, <1>4, <1>5 DEF KeeperTypeOK
<1>7. Spacing'
  <2>1. todo \subseteq Proposals
    BY <1>1 DEF KeeperTypeOK
  <2> QED  BY <1>1, <1>2, <1>3, <2>1 DEF Spacing
<1> QED  BY <1>6, <1>7 DEF KeeperInv

\* A failure, counted, is followed by a delay no shorter than the cooldown.
LEMMA BackOffKeeps ==
    ASSUME KeeperInv, NEW p \in Proposals, BackOff(p, attempts[p])
    PROVE  /\ wait' \in [Proposals -> 0..MaxBackoff] /\ wait'[p] >= Cooldown
           /\ \A q \in Proposals \ {p} : wait'[q] = wait[q]
           /\ attempts' \in [Proposals -> 0..Saturated] /\ failuresInARow' \in [Proposals -> 0..Saturated]
           /\ \A q \in Stuck : failuresInARow'[q] = attempts'[q]
<1> DEFINE more == Smaller(attempts[p] + 1, Saturated)
<1>1. KeeperTypeOK /\ Spacing
  BY DEF KeeperInv
<1>2. /\ attempts' = [attempts EXCEPT ![p] = more] /\ wait' = [wait EXCEPT ![p] = Delay(more)]
      /\ failuresInARow' = [failuresInARow EXCEPT ![p] = Smaller(failuresInARow[p] + 1, Saturated)]
  BY DEF BackOff
<1>3. /\ wait \in [Proposals -> 0..MaxBackoff] /\ attempts \in [Proposals -> 0..Saturated]
      /\ failuresInARow \in [Proposals -> 0..Saturated]
  BY <1>1 DEF KeeperTypeOK
<1>4. \A n \in 0..Saturated : Smaller(n + 1, Saturated) \in 1..Saturated
  BY KeeperConstants DEF Smaller
<1>5. more \in 1..Saturated /\ Smaller(failuresInARow[p] + 1, Saturated) \in 1..Saturated
  BY <1>3, <1>4
<1>6. Delay(more) \in Cooldown..MaxBackoff
  <2>1. more \in Nat \ {0}
    <3> HIDE DEF more
    <3> QED  BY <1>5, KeeperConstants
  <2> HIDE DEF more
  <2>2. Delay(more) \in BaseBackoff..MaxBackoff
    BY <2>1, Delays
  <2> QED  BY <2>2, SettlementAssumption
<1>7. failuresInARow[p] = attempts[p] => Smaller(failuresInARow[p] + 1, Saturated) = more
  OBVIOUS
<1> HIDE DEF more
<1>8. wait' \in [Proposals -> 0..MaxBackoff] /\ wait'[p] >= Cooldown /\ \A q \in Proposals \ {p} : wait'[q] = wait[q]
  BY <1>2, <1>3, <1>6, KeeperConstants
<1>9. attempts' \in [Proposals -> 0..Saturated] /\ failuresInARow' \in [Proposals -> 0..Saturated]
  BY <1>2, <1>3, <1>5, KeeperConstants
<1>10. ASSUME NEW q \in Stuck PROVE failuresInARow'[q] = attempts'[q]
  <2>1. failuresInARow[q] = attempts[q] /\ q \in Proposals
    BY <1>1, KeeperConstants DEF Spacing
  <2> QED  BY <1>2, <1>3, <1>7, <2>1
<1> QED  BY <1>8, <1>9, <1>10

\* A send that is refused or throws is such a failure.
LEMMA FailureKeeps ==
    ASSUME KeeperInv, NEW p \in todo, BackOff(p, attempts[p]), at = "pass",
           todo' = todo \ {p}, since' = [since EXCEPT ![p] = 0],
           UNCHANGED <<now, chain, row, at, current, receipt>>,
           unmined' \in {unmined, unmined \cup {p}}, keeperFaults' \in 0..MaxKeeperFaults
    PROVE  KeeperInv'
<1>1. KeeperTypeOK /\ Spacing
  BY DEF KeeperInv
<1>2. p \in Proposals /\ todo \subseteq Proposals /\ since \in [Proposals -> 0..Cooldown]
  BY <1>1 DEF KeeperTypeOK
<1>3. /\ wait' \in [Proposals -> 0..MaxBackoff] /\ wait'[p] >= Cooldown
      /\ \A q \in Proposals \ {p} : wait'[q] = wait[q]
      /\ attempts' \in [Proposals -> 0..Saturated] /\ failuresInARow' \in [Proposals -> 0..Saturated]
      /\ \A q \in Stuck : failuresInARow'[q] = attempts'[q]
  BY <1>2, BackOffKeeps
<1>4. since' \in [Proposals -> 0..Cooldown]
  BY <1>2, KeeperConstants
<1>5. KeeperTypeOK'
  BY <1>1, <1>2, <1>3, <1>4 DEF KeeperTypeOK
<1>6. ASSUME NEW q \in Proposals PROVE since'[q] + wait'[q] >= Cooldown
  <2>1. CASE q = p
    BY <1>2, <1>3, <2>1, KeeperConstants
  <2>2. CASE q # p
    <3>1. since'[q] = since[q] /\ wait'[q] = wait[q]
      BY <1>2, <1>3, <2>2
    <3> QED  BY <1>1, <3>1 DEF Spacing
  <2> QED  BY <2>1, <2>2
<1>7. \A q \in todo' : wait'[q] = 0
  BY <1>1, <1>2, <1>3 DEF Spacing
<1>8. Spacing'
  BY <1>3, <1>6, <1>7 DEF Spacing
<1> QED  BY <1>5, <1>8 DEF KeeperInv

\* A broadcast books the cooldown.
LEMMA SendKeeps ==
    ASSUME KeeperInv, Send
    PROVE  KeeperInv'
<1>1. KeeperTypeOK /\ Spacing
  BY DEF KeeperInv
<1>2. PICK p \in todo :
          /\ Attempt(p) /\ Simulates(p)
          /\ unmined' = unmined \cup {p}
          /\ wait' = [wait EXCEPT ![p] = Cooldown]
          /\ attempts' = [attempts EXCEPT ![p] = 0]
          /\ todo' = todo \ {p}
          /\ current' = p /\ receipt' = "none"
          /\ since' = [since EXCEPT ![p] = 0]
  BY DEF Send
<1>3. at' = "receipt" /\ UNCHANGED <<now, chain, row, keeperFaults, failuresInARow>>
  BY DEF Send
<1>4. p \in Proposals /\ p \notin Stuck /\ todo \subseteq Proposals
  BY <1>1, <1>2 DEF KeeperTypeOK, Simulates
<1>5. /\ wait \in [Proposals -> 0..MaxBackoff] /\ since \in [Proposals -> 0..Cooldown]
      /\ attempts \in [Proposals -> 0..Saturated]
  BY <1>1 DEF KeeperTypeOK
<1>6. wait' \in [Proposals -> 0..MaxBackoff] /\ since' \in [Proposals -> 0..Cooldown]
  BY <1>2, <1>4, <1>5, KeeperConstants
<1>7. attempts' \in [Proposals -> 0..Saturated]
  BY <1>2, <1>4, <1>5, KeeperConstants
<1>8. KeeperTypeOK'
  BY <1>1, <1>2, <1>3, <1>4, <1>6, <1>7 DEF KeeperTypeOK
<1>9. \A q \in Proposals \ {p} : since'[q] = since[q] /\ wait'[q] = wait[q] /\ attempts'[q] = attempts[q]
  BY <1>2, <1>5
<1>10. since'[p] = 0 /\ wait'[p] = Cooldown
  BY <1>2, <1>4, <1>5
<1>11. ASSUME NEW q \in Proposals PROVE since'[q] + wait'[q] >= Cooldown
  BY <1>1, <1>9, <1>10, KeeperConstants DEF Spacing
<1>12. \A q \in todo' : wait'[q] = 0
  BY <1>1, <1>2, <1>4, <1>9 DEF Spacing
<1>13. \A q \in Stuck : failuresInARow'[q] = attempts'[q]
  BY <1>1, <1>3, <1>4, <1>9, KeeperConstants DEF Spacing
<1>14. Spacing'
  BY <1>2, <1>3, <1>4, <1>11, <1>12, <1>13 DEF Spacing
<1> QED  BY <1>8, <1>14 DEF KeeperInv

\* A receipt, or its absence, is about a proposal that is not in the batch any more and not stuck.
LEMMA ReceiptKeeps ==
    ASSUME KeeperInv, ReceiptSuccess \/ ReceiptReverted \/ ReceiptTimeout
    PROVE  KeeperInv'
<1>1. KeeperTypeOK /\ Spacing
  BY DEF KeeperInv
<1>2. /\ at = "receipt" /\ at' = "pass"
      /\ UNCHANGED <<now, chain, row, unmined, keeperFaults, todo, current, receipt, since>>
  BY DEF ReceiptSuccess, ReceiptReverted, ReceiptTimeout, external
<1>3. current \in Proposals /\ current \notin todo /\ current \notin Stuck /\ todo \subseteq Proposals
  BY <1>1, <1>2 DEF KeeperTypeOK, Spacing
<1>4. CASE ReceiptReverted
  <2>1. BackOff(current, attempts[current])
    BY <1>4 DEF ReceiptReverted
  <2>2. /\ wait' \in [Proposals -> 0..MaxBackoff] /\ wait'[current] >= Cooldown
        /\ \A q \in Proposals \ {current} : wait'[q] = wait[q]
        /\ attempts' \in [Proposals -> 0..Saturated] /\ failuresInARow' \in [Proposals -> 0..Saturated]
        /\ \A q \in Stuck : failuresInARow'[q] = attempts'[q]
    BY <2>1, <1>3, BackOffKeeps
  <2>3. KeeperTypeOK'
    BY <1>1, <1>2, <2>2 DEF KeeperTypeOK
  <2>4. ASSUME NEW q \in Proposals PROVE since'[q] + wait'[q] >= Cooldown
    <3>1. since[q] \in 0..Cooldown /\ since'[q] = since[q] /\ wait'[q] \in 0..MaxBackoff
      BY <1>1, <1>2, <2>2 DEF KeeperTypeOK
    <3>2. CASE q = current
      BY <2>2, <3>1, <3>2, KeeperConstants
    <3>3. CASE q # current
      BY <1>1, <2>2, <3>1, <3>3 DEF Spacing
    <3> QED  BY <3>2, <3>3
  <2>5. \A q \in todo' : wait'[q] = 0
    BY <1>1, <1>2, <1>3, <2>2 DEF Spacing
  <2>6. Spacing'
    BY <1>2, <2>2, <2>4, <2>5 DEF Spacing
  <2> QED  BY <2>3, <2>6 DEF KeeperInv
<1>5. CASE ReceiptSuccess \/ ReceiptTimeout
  <2>1. failuresInARow' = [failuresInARow EXCEPT ![current] = 0] /\ UNCHANGED <<wait, attempts>>
    BY <1>5 DEF ReceiptSuccess, ReceiptTimeout
  <2>2. failuresInARow \in [Proposals -> 0..Saturated]
    BY <1>1 DEF KeeperTypeOK
  <2>3. failuresInARow' \in [Proposals -> 0..Saturated]
    <3>1. 0 \in 0..Saturated
      BY KeeperConstants
    <3> QED  BY <2>1, <2>2, <3>1
  <2>4. \A q \in Stuck : failuresInARow'[q] = failuresInARow[q]
    BY <1>3, <2>1, <2>2, KeeperConstants
  <2>5. KeeperTypeOK'
    BY <1>1, <1>2, <2>1, <2>3 DEF KeeperTypeOK
  <2>6. Spacing'
    BY <1>1, <1>2, <2>1, <2>4 DEF Spacing
  <2> QED  BY <2>5, <2>6 DEF KeeperInv
<1> QED  BY <1>4, <1>5

\* A pass takes up what is out of backoff, and ends with nothing left to look at.
LEMMA PassKeeps ==
    ASSUME KeeperInv, StartPass \/ EndPass
    PROVE  KeeperInv'
<1>1. KeeperTypeOK /\ Spacing
  BY DEF KeeperInv
<1>2. UNCHANGED <<now, chain, row, unmined, keeperFaults, current, receipt, wait, attempts, since, failuresInARow>>
  BY DEF StartPass, EndPass, external, history
<1>3. CASE StartPass
  <2>1. todo' = OutOfBackoff(Oldest(Due)) /\ at' = "pass"
    BY <1>3 DEF StartPass
  <2>2. todo' \subseteq Proposals /\ \A q \in todo' : wait[q] = 0
    BY <2>1 DEF OutOfBackoff, Oldest, Due
  <2>3. KeeperTypeOK'
    BY <1>1, <1>2, <2>1, <2>2 DEF KeeperTypeOK
  <2>4. Spacing'
    BY <1>1, <1>2, <2>1, <2>2 DEF Spacing
  <2> QED  BY <2>3, <2>4 DEF KeeperInv
<1>4. CASE EndPass
  <2>1. todo = {} /\ todo' = {} /\ at' = "idle"
    BY <1>4 DEF EndPass
  <2>2. KeeperTypeOK'
    BY <1>1, <1>2, <2>1 DEF KeeperTypeOK
  <2>3. Spacing'
    BY <1>1, <1>2, <2>1 DEF Spacing
  <2> QED  BY <2>2, <2>3 DEF KeeperInv
<1> QED  BY <1>3, <1>4

\* A restarted process has forgotten both maps, and no attempt of its own.
LEMMA RestartKeeps ==
    ASSUME KeeperInv, Restart
    PROVE  KeeperInv'
<1>1. KeeperTypeOK
  BY DEF KeeperInv
<1>2. /\ keeperFaults < MaxKeeperFaults /\ keeperFaults' = keeperFaults + 1
      /\ at' = "idle" /\ todo' = {} /\ receipt' = "none"
      /\ wait' = [p \in Proposals |-> 0] /\ attempts' = [p \in Proposals |-> 0]
      /\ since' = [p \in Proposals |-> Cooldown] /\ failuresInARow' = [p \in Proposals |-> 0]
      /\ UNCHANGED <<now, chain, row, unmined, current>>
  BY DEF Restart, external
<1>3. KeeperTypeOK'
  <2>1. keeperFaults' \in 0..MaxKeeperFaults
    BY <1>1, <1>2, KeeperConstants DEF KeeperTypeOK
  <2>2. wait' \in [Proposals -> 0..MaxBackoff] /\ since' \in [Proposals -> 0..Cooldown]
    BY <1>2, KeeperConstants
  <2>3. attempts' \in [Proposals -> 0..Saturated] /\ failuresInARow' \in [Proposals -> 0..Saturated]
    BY <1>2, KeeperConstants
  <2> QED  BY <1>1, <1>2, <2>1, <2>2, <2>3 DEF KeeperTypeOK
<1>4. Spacing'
  BY <1>2, KeeperConstants DEF Spacing
<1> QED  BY <1>3, <1>4 DEF KeeperInv

\* Every step keeps the invariant.
LEMMA KeeperStep == KeeperInv /\ [KeeperNext]_keeperVars => KeeperInv'
<1> SUFFICES ASSUME KeeperInv, [KeeperNext]_keeperVars PROVE KeeperInv'
  OBVIOUS
<1>1. CASE SendRefused
  <2>1. PICK p \in todo :
          /\ Attempt(p) /\ BackOff(p, attempts[p])
          /\ todo' = todo \ {p} /\ since' = [since EXCEPT ![p] = 0]
    BY <1>1 DEF SendRefused
  <2>2. UNCHANGED <<now, chain, row, unmined, keeperFaults, at, current, receipt>>
    BY <1>1 DEF SendRefused, external
  <2>3. at = "pass" /\ keeperFaults' \in 0..MaxKeeperFaults
    BY <2>1, <2>2 DEF Attempt, KeeperInv, KeeperTypeOK
  <2> QED  BY <2>1, <2>2, <2>3, FailureKeeps
<1>2. CASE SendThrows
  <2>1. PICK p \in todo, broadcast \in BOOLEAN :
          /\ Attempt(p) /\ BackOff(p, attempts[p])
          /\ unmined' = IF broadcast THEN unmined \cup {p} ELSE unmined
          /\ todo' = todo \ {p} /\ since' = [since EXCEPT ![p] = 0]
    BY <1>2 DEF SendThrows
  <2>2. /\ keeperFaults < MaxKeeperFaults /\ keeperFaults' = keeperFaults + 1
        /\ UNCHANGED <<now, chain, row, at, current, receipt>>
    BY <1>2 DEF SendThrows
  <2>3. at = "pass" /\ keeperFaults' \in 0..MaxKeeperFaults
    BY <2>1, <2>2, KeeperConstants DEF Attempt, KeeperInv, KeeperTypeOK
  <2>4. unmined' \in {unmined, unmined \cup {p}}
    BY <2>1
  <2> QED  BY <2>1, <2>2, <2>3, <2>4, FailureKeeps
<1>3. CASE UNCHANGED keeperVars
  BY <1>3 DEF keeperVars, external, history, KeeperInv, KeeperTypeOK, Spacing
<1> QED  BY <1>1, <1>2, <1>3, OutsideKeeps, ClockKeeps, SendKeeps, ReceiptKeeps, PassKeeps, RestartKeeps
         DEF KeeperNext, Keeper

\* Whatever is about to be attempted was last attempted a cooldown ago.
LEMMA BatchIsCool ==
    ASSUME KeeperInv, NEW p \in todo
    PROVE  since[p] = Cooldown
<1>1. p \in Proposals /\ wait[p] = 0 /\ since[p] \in 0..Cooldown /\ since[p] + wait[p] >= Cooldown
  BY DEF KeeperInv, KeeperTypeOK, Spacing
<1> QED  BY <1>1, KeeperConstants

\* The types of the keeper's state; no proposal waits longer than the longest backoff.
THEOREM KeeperTypes == KeeperSpec => []KeeperTypeOK
<1>1. KeeperInv => KeeperTypeOK
  BY DEF KeeperInv
<1> QED  BY <1>1, KeeperStarts, KeeperStep, PTL DEF KeeperSpec

\* finalize and backOff: every attempt on a proposal comes a cooldown after the one before it, and one
\* that is always refused waits for the longest delay in the end.
THEOREM KeeperSpacesAttempts == KeeperSpec => AttemptsSpaced
<1>1. KeeperInv /\ [KeeperNext]_keeperVars
        => [\A p \in Proposals : p \in todo /\ p \notin todo' /\ at' # "idle" => since[p] = Cooldown]_keeperVars
  BY BatchIsCool
<1>2. KeeperInv => (at = "idle" => \A p \in Stuck : failuresInARow[p] = Saturated => attempts[p] = Saturated)
  BY DEF KeeperInv, Spacing
<1> QED  BY <1>1, <1>2, KeeperStarts, KeeperStep, PTL DEF KeeperSpec, AttemptsSpaced
=============================================================================
