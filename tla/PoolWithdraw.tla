---------------------------- MODULE PoolWithdraw ----------------------------
(***************************************************************************)
(* Private withdrawals: withdraw, publishAspRoot and exclusively of        *)
(* src/pool/pool.service.ts.                                               *)
(*                                                                         *)
(* A withdrawal proof pins the association root it was built against, and  *)
(* the entrypoint demands that root at execution.  The service publishes   *)
(* the proof's root if the chain holds another, waits for that transaction *)
(* to be mined, and only then simulates and broadcasts the withdrawal, all *)
(* under a lock.                                                           *)
(*                                                                         *)
(* Root k is the root over the first k deposit labels (PoolMirror shows    *)
(* that the mirror only appends, so k labels give one root).  The relay    *)
(* broadcasts in nonce order (RelayQueue), so the chain executes what is   *)
(* pending first in, first out.                                            *)
(***************************************************************************)
EXTENDS Integers, Sequences, Functions, SequencesExt

CONSTANTS
    Withdrawals,   \* requests
    AspDepth,      \* depth of aspRootHistory
    MaxDeposits,   \* bound: labels indexed
    MaxFaults      \* bound: sends refused or lost for reasons of the relay's own

ASSUME WithdrawAssumption ==
    AspDepth \in Nat \ {0} /\ MaxDeposits \in Nat /\ MaxFaults \in Nat

Roots == 1..MaxDeposits

VARIABLES
    \* the entrypoint, and the relayer's transactions
    latestRoot,  \* 0 before the first updateRoot
    pending,     \* broadcast and not mined, in nonce order
    landed,      \* landed[w]: how the withdrawal of w executed: "none", "success", "reverted"
    wasted,      \* history: an updateRoot was mined and reverted
    \* the service
    labels,      \* deposits indexed
    pc,          \* pc[w]: where the request is
    proved,      \* proved[w]: the root the proof of w was built against
    lock,        \* requests in the promise chain; its head runs
    receipt,     \* what the head's updateRoot came to: "none", "success", "reverted"
    gaveUp,      \* history: an updateRoot was given up on while it was pending
    faults

chainVars == <<latestRoot, pending, landed, wasted>>
boundVars == <<gaveUp, faults>>
vars == <<chainVars, labels, pc, proved, lock, receipt, boundVars>>

PCs == {"new", "queued", "updating", "publishing", "relaying", "relayed", "stale", "rejected", "refused"}

UpdateRoot(w) == [call |-> "updateRoot", for |-> w, root |-> proved[w]]
Relay(w)      == [call |-> "relay", for |-> w, root |-> proved[w]]

-----------------------------------------------------------------------------
Init ==
    /\ latestRoot = 0 /\ pending = <<>> /\ wasted = FALSE
    /\ landed = [w \in Withdrawals |-> "none"]
    /\ labels = 0
    /\ pc = [w \in Withdrawals |-> "new"] /\ proved = [w \in Withdrawals |-> 0]
    /\ lock = <<>> /\ receipt = "none"
    /\ gaveUp = FALSE /\ faults = 0

\* The mirror takes in one more deposit.  (PoolMirror)
Deposit ==
    /\ labels < MaxDeposits
    /\ labels' = labels + 1
    /\ UNCHANGED <<chainVars, pc, proved, lock, receipt, boundVars>>

\* The oldest pending transaction executes.  updateRoot reverts on an unchanged root, a withdrawal
\* on any root but the latest.  (External)
Mine ==
    /\ pending # <<>>
    /\ LET tx == Head(pending)
           ok == IF tx.call = "updateRoot" THEN latestRoot # tx.root ELSE latestRoot = tx.root
           outcome == IF ok THEN "success" ELSE "reverted"
       IN  /\ latestRoot' = IF ok THEN tx.root ELSE latestRoot
           /\ landed' = IF tx.call = "relay" THEN [landed EXCEPT ![tx.for] = outcome] ELSE landed
           /\ wasted' = (wasted \/ (tx.call = "updateRoot" /\ ~ok))
           /\ receipt' = IF tx.call = "updateRoot" /\ pc[tx.for] = "publishing" THEN outcome ELSE receipt
    /\ pending' = Tail(pending)
    /\ UNCHANGED <<labels, pc, proved, lock, boundVars>>

-----------------------------------------------------------------------------
\* aspRootHistory(): the roots the set has passed through, the most recent AspDepth of them.
AspRootHistory == {k \in Roots : k <= labels /\ k > labels - AspDepth}

\* A client proves against a root, of this mirror's set or of another's; deposits may follow before
\* the proof arrives.  (External)
Prove ==
    /\ \E w \in Withdrawals, root \in Roots :
          /\ pc[w] = "new" /\ proved[w] = 0
          /\ proved' = [proved EXCEPT ![w] = root]
    /\ UNCHANGED <<chainVars, labels, pc, lock, receipt, boundVars>>

\* withdraw() running its pair without a lock.
EnterUnlocked(w) == TRUE
\* exclusively(): a request runs when those before it are done, however they ended.
Enter(w) == lock # <<>> /\ Head(lock) = w

Move(w, to) == pc' = [pc EXCEPT ![w] = to]
\* The head of the lock's queue is done, however it ended.
Finish(w, to) == Move(w, to) /\ lock' = Tail(lock)

\* Any root is accepted.
AcceptAnyRoot ==
    /\ \E w \in Withdrawals :
          /\ pc[w] = "new" /\ proved[w] # 0
          /\ lock' = Append(lock, w) /\ Move(w, "queued")
    /\ UNCHANGED <<chainVars, labels, proved, receipt, boundVars>>
\* withdraw(): a proof against a root of our recent history joins the lock's queue, any other is
\* told to refresh.
Accept ==
    /\ \E w \in Withdrawals :
          /\ pc[w] = "new" /\ proved[w] # 0
          /\ IF proved[w] \in AspRootHistory
             THEN lock' = Append(lock, w) /\ Move(w, "queued")
             ELSE Move(w, "stale") /\ UNCHANGED lock
    /\ UNCHANGED <<chainVars, labels, proved, receipt, boundVars>>

\* publishAspRoot() reads the entrypoint: nothing to do if it holds the root.
Publish ==
    /\ \E w \in Withdrawals :
          /\ pc[w] = "queued" /\ Enter(w)
          /\ Move(w, IF latestRoot = proved[w] THEN "relaying" ELSE "updating")
    /\ UNCHANGED <<chainVars, labels, proved, lock, receipt, boundVars>>

\* sendFromRelayer simulates updateRoot against the latest block and broadcasts it.
SendRoot ==
    /\ \E w \in Withdrawals :
          /\ pc[w] = "updating" /\ Enter(w)
          /\ IF latestRoot # proved[w]
             THEN /\ pending' = Append(pending, UpdateRoot(w))
                  /\ Move(w, "publishing") /\ receipt' = "none" /\ UNCHANGED lock
             ELSE Finish(w, "rejected") /\ UNCHANGED <<pending, receipt>>
    /\ UNCHANGED <<latestRoot, landed, wasted, labels, proved, boundVars>>

\* receiptFor(): mined and successful, so the withdrawal can be simulated.
Published ==
    /\ \E w \in Withdrawals : pc[w] = "publishing" /\ Enter(w) /\ receipt = "success" /\ Move(w, "relaying")
    /\ UNCHANGED <<chainVars, labels, proved, lock, receipt, boundVars>>

PublishReverted ==
    /\ \E w \in Withdrawals : pc[w] = "publishing" /\ Enter(w) /\ receipt = "reverted" /\ Finish(w, "stale")
    /\ UNCHANGED <<chainVars, labels, proved, receipt, boundVars>>

\* Mutant: receiptFor() without its timeout; the wait goes on.
WaitsForReceipt ==
    /\ \E w \in Withdrawals : pc[w] = "publishing" /\ Enter(w)
    /\ UNCHANGED vars
\* receiptFor() answers null after 60 seconds, or when it cannot ask, or recording the spend failed
\* after the broadcast: the request is told to try again and the lock is passed on, with updateRoot
\* still pending or already mined.
PublishTimesOut ==
    /\ \E w \in Withdrawals : pc[w] = "publishing" /\ Enter(w) /\ Finish(w, "stale")
    /\ gaveUp' = (gaveUp \/ receipt = "none")
    /\ UNCHANGED <<chainVars, labels, proved, receipt, faults>>

\* sendFromRelayer for the withdrawal: broadcast if it simulates, rejected otherwise.
RelayProof ==
    /\ \E w \in Withdrawals :
          /\ pc[w] = "relaying" /\ Enter(w)
          /\ IF latestRoot = proved[w]
             THEN pending' = Append(pending, Relay(w)) /\ Finish(w, "relayed")
             ELSE Finish(w, "rejected") /\ UNCHANGED pending
    /\ UNCHANGED <<latestRoot, landed, wasted, labels, proved, receipt, boundVars>>

\* The entrypoint cannot be read, or a send is refused before anything goes out: the daily cap, a
\* node that does not answer.
SendRefused ==
    /\ faults < MaxFaults /\ faults' = faults + 1
    /\ \E w \in Withdrawals : pc[w] \in {"queued", "updating", "relaying"} /\ Enter(w) /\ Finish(w, "refused")
    /\ UNCHANGED <<chainVars, labels, proved, receipt, gaveUp>>

Service == Accept \/ Publish \/ SendRoot \/ Published \/ PublishReverted \/ RelayProof
Next == \/ Service \/ PublishTimesOut \/ SendRefused
        \/ Deposit \/ Mine \/ Prove
Spec == Init /\ [][Next]_vars

\* Requests are served, and the wait for a receipt ends with its timeout.  The chain promises nothing:
\* what is broadcast may stay pending for good.
FairSpec == Spec /\ WF_vars(Service) /\ WF_vars(PublishTimesOut)

-----------------------------------------------------------------------------
(***************************************************************************)
(* Properties                                                              *)
(***************************************************************************)
Calls == [call : {"updateRoot", "relay"}, for : Withdrawals, root : Roots]

InTurn == {"updating", "publishing", "relaying"}

\* The types of the chain's and the service's state, and the lock's discipline: the requests in the
\* promise chain are the unanswered ones, each once, and only its head is being served.
TypeOK ==
    /\ latestRoot \in 0..MaxDeposits /\ labels \in 0..MaxDeposits
    /\ pending \in Seq(Calls) /\ wasted \in BOOLEAN
    /\ landed \in [Withdrawals -> {"none", "success", "reverted"}]
    /\ pc \in [Withdrawals -> PCs] /\ proved \in [Withdrawals -> 0..MaxDeposits]
    /\ lock \in Seq(Withdrawals) /\ IsInjective(lock)
    /\ ToSet(lock) = {w \in Withdrawals : pc[w] \in InTurn \cup {"queued"}}
    /\ \A w \in Withdrawals : pc[w] \in InTurn => w = Head(lock)
    /\ receipt \in {"none", "success", "reverted"}
    /\ gaveUp \in BOOLEAN /\ faults \in 0..MaxFaults

\* withdraw()'s pair is atomic: as long as no updateRoot was given up on while pending, no relayed
\* withdrawal finds another root on chain than the one its proof pins, no simulation turns a proof
\* away because of that root, and no update is paid for that finds its root published already,
\* whoever else withdraws and however long it stays pending.
PairIsAtomic ==
    ~ gaveUp =>
        /\ \A w \in Withdrawals : landed[w] # "reverted" /\ pc[w] # "rejected"
        /\ ~ wasted

\* "What we refuse is a root we do not recognise": whatever clients prove against, the entrypoint's
\* root, and any it is about to be given, is one this service computed from deposits it indexed.
OnlyOwnRoots ==
    /\ latestRoot <= labels
    /\ \A i \in DOMAIN pending : pending[i].root <= labels

\* Every accepted withdrawal is answered: neither a failure before it nor an update that never confirms
\* keeps the lock (exclusively, receiptFor).
EveryoneAnswered ==
    \A w \in Withdrawals : pc[w] = "queued" ~> pc[w] \in {"relayed", "stale", "rejected", "refused"}
=============================================================================
