---------------------------- MODULE Pool_proofs -----------------------------
(***************************************************************************)
(* Proofs about the shielded pool: PoolWithdraw, private withdrawals, and  *)
(* PoolMirror, the mirror of the pool's leaves.  Every theorem is about    *)
(* one of the two specifications alone.                                    *)
(***************************************************************************)
EXTENDS PoolWithdraw, PoolMirror, SumLemmas, SequenceTheorems, NaturalsInduction, TLAPS

-----------------------------------------------------------------------------
(***************************************************************************)
(* PoolWithdraw: only roots of indexed deposits are ever published, and    *)
(* as long as no update was given up on a withdrawal's pair of             *)
(* transactions is atomic, for any number of withdrawals, deposits and     *)
(* refusals and any history of roots.                                      *)
(*                                                                         *)
(* PairInv is inductive.  It says what the lock keeps apart: whoever is at *)
(* the head knows the entrypoint's root, or is the only one to change it.  *)
(***************************************************************************)
AnyCall == [call : {"updateRoot", "relay"}, for : Withdrawals, root : Nat]

WithdrawType ==
    /\ latestRoot \in Nat /\ labels \in Nat
    /\ pending \in Seq(AnyCall)
    /\ pc \in [Withdrawals -> PCs] /\ proved \in [Withdrawals -> Nat]
    /\ landed \in [Withdrawals -> {"none", "success", "reverted"}]
    /\ lock \in Seq(Withdrawals)
    /\ gaveUp \in BOOLEAN

\* Only the head of the lock's queue is being served.
HeadOnly == \A w \in Withdrawals : pc[w] \in InTurn => Enter(w)

LockInv == WithdrawType /\ HeadOnly

\* Whoever joined the lock proved against a root of ours.
OwnRoots ==
    /\ OnlyOwnRoots
    /\ \A w \in Withdrawals : pc[w] \in InTurn \cup {"queued"} => proved[w] <= labels

\* What is pending will succeed: withdrawals pin the root that is there, and an update comes last,
\* is awaited by the head of the lock, and changes the root.
PendingSucceeds ==
    \A i \in 1..Len(pending) :
        IF pending[i].call = "relay" THEN pending[i].root = latestRoot
        ELSE /\ i = Len(pending) /\ pending[i].root # latestRoot
             /\ pc[pending[i].for] = "publishing" /\ pending[i].root = proved[pending[i].for]
             /\ receipt = "none"

\* What the head of the lock has read of the entrypoint is still so.
HeadKnows ==
    \A w \in Withdrawals :
        /\ pc[w] = "updating" => latestRoot # proved[w]
        /\ pc[w] = "publishing" => receipt = "none" \/ (receipt = "success" /\ latestRoot = proved[w])
        /\ pc[w] = "relaying" => latestRoot = proved[w]

Atomic == (\A w \in Withdrawals : landed[w] # "reverted" /\ pc[w] # "rejected") /\ ~ wasted

PairInv == LockInv /\ (~ gaveUp => PendingSucceeds /\ HeadKnows /\ Atomic)

\* What Move does to the requests.
LEMMA Moves ==
    ASSUME pc \in [Withdrawals -> PCs], NEW w \in Withdrawals, NEW place \in PCs, Move(w, place)
    PROVE  /\ pc' \in [Withdrawals -> PCs] /\ pc'[w] = place
           /\ \A v \in Withdrawals \ {w} : pc'[v] = pc[v]
BY DEF Move

\* The head of the lock is the only one in turn.
LEMMA OneInTurn ==
    ASSUME LockInv, NEW w \in Withdrawals, Enter(w)
    PROVE  \A v \in Withdrawals \ {w} : pc[v] \notin InTurn
BY DEF LockInv, HeadOnly, Enter

\* Once it is done, nobody is.
LEMMA Ends ==
    ASSUME LockInv, NEW w \in Withdrawals, Enter(w), NEW place \in PCs \ InTurn, Finish(w, place)
    PROVE  /\ pc' \in [Withdrawals -> PCs] /\ lock' \in Seq(Withdrawals) /\ pc'[w] = place
           /\ \A v \in Withdrawals \ {w} : pc'[v] = pc[v]
           /\ \A v \in Withdrawals : pc'[v] \notin InTurn
<1>1. pc' \in [Withdrawals -> PCs] /\ pc'[w] = place /\ \A v \in Withdrawals \ {w} : pc'[v] = pc[v]
  BY Moves DEF LockInv, WithdrawType, Finish
<1>2. lock' \in Seq(Withdrawals)
  BY DEF LockInv, WithdrawType, Finish, Enter
<1> QED BY <1>1, <1>2, OneInTurn

\* What is pending is a call of some request's.
LEMMA PendingCalls ==
    ASSUME WithdrawType, NEW i \in 1..Len(pending)
    PROVE  /\ pending[i] \in AnyCall /\ pending[i].for \in Withdrawals
           /\ pending[i].root \in Nat /\ pending[i].call \in {"updateRoot", "relay"}
<1>1. pending[i] \in AnyCall
  BY DEF WithdrawType
<1> QED BY <1>1 DEF AnyCall

\* What one more transaction does to what is pending.
LEMMA Appends ==
    ASSUME WithdrawType, NEW tx \in AnyCall, pending' = Append(pending, tx)
    PROVE  /\ pending' \in Seq(AnyCall) /\ Len(pending') = Len(pending) + 1 /\ Len(pending) \in Nat
           /\ pending'[Len(pending) + 1] = tx
           /\ \A i \in 1..Len(pending) : pending'[i] = pending[i]
BY DEF WithdrawType

\* Nothing has happened at the start.
LEMMA PairInit == Init => PairInv /\ OwnRoots
<1> SUFFICES ASSUME Init PROVE PairInv /\ OwnRoots
  OBVIOUS
<1>1. LockInv
  <2>1. gaveUp = FALSE
    BY DEF Init
  <2>2. gaveUp \in BOOLEAN
    BY <2>1
  <2> QED BY <2>2 DEF Init, LockInv, WithdrawType, HeadOnly, PCs, InTurn
<1>2. PendingSucceeds /\ HeadKnows /\ Atomic
  BY DEF Init, PendingSucceeds, HeadKnows, Atomic
<1>3. OwnRoots
  BY DEF Init, OwnRoots, OnlyOwnRoots, InTurn
<1> QED BY <1>1, <1>2, <1>3 DEF PairInv

\* Steps of clients and of the mirror.
LEMMA OutsideKeeps ==
    ASSUME PairInv, Deposit \/ Prove \/ UNCHANGED vars
    PROVE  PairInv'
<1>1. UNCHANGED <<latestRoot, pending, landed, wasted, pc, lock, receipt, gaveUp>>
  BY DEF Deposit, Prove, vars, chainVars, boundVars
<1>2. labels' \in Nat /\ proved' \in [Withdrawals -> Nat]
  BY WithdrawAssumption DEF PairInv, LockInv, WithdrawType, Deposit, Prove, vars, Roots
<1>3. \A w \in Withdrawals : pc[w] # "new" => proved'[w] = proved[w]
  BY DEF PairInv, LockInv, WithdrawType, Deposit, Prove, vars
<1>4. LockInv'
  BY <1>1, <1>2 DEF PairInv, LockInv, WithdrawType, HeadOnly, Enter
<1>5. ASSUME ~ gaveUp PROVE PendingSucceeds' /\ HeadKnows' /\ Atomic'
  <2>1. PendingSucceeds /\ HeadKnows /\ Atomic /\ WithdrawType
    BY <1>5 DEF PairInv, LockInv
  <2>2. \A i \in 1..Len(pending) : pending[i].for \in Withdrawals
    BY <2>1, PendingCalls
  <2>3. PendingSucceeds'
    BY <1>1, <1>3, <2>1, <2>2 DEF PendingSucceeds
  <2>4. HeadKnows' /\ Atomic'
    BY <1>1, <1>3, <2>1 DEF HeadKnows, Atomic
  <2> QED BY <2>3, <2>4
<1> QED BY <1>1, <1>4, <1>5 DEF PairInv

\* A request that joins the lock, or is told to refresh.
LEMMA AcceptKeeps ==
    ASSUME PairInv, Accept
    PROVE  PairInv'
<1> PICK w \in Withdrawals :
      /\ pc[w] = "new"
      /\ \/ lock' = Append(lock, w) /\ Move(w, "queued")
         \/ Move(w, "stale") /\ UNCHANGED lock
  BY DEF Accept
<1>1. UNCHANGED <<latestRoot, pending, landed, wasted, labels, proved, receipt, gaveUp>>
  BY DEF Accept, chainVars, boundVars
<1>2. WithdrawType /\ HeadOnly
  BY DEF PairInv, LockInv
<1>3. pc' \in [Withdrawals -> PCs] /\ pc'[w] \in {"queued", "stale"}
      /\ \A v \in Withdrawals \ {w} : pc'[v] = pc[v]
  BY <1>2, Moves DEF WithdrawType, PCs
<1>4. lock' \in Seq(Withdrawals) /\ (lock # <<>> => lock' # <<>> /\ Head(lock') = Head(lock))
  <2>1. lock \in Seq(Withdrawals)
    BY <1>2 DEF WithdrawType
  <2>2. CASE lock' = Append(lock, w)
    BY <2>1, <2>2
  <2>3. CASE UNCHANGED lock
    BY <2>1, <2>3
  <2> QED BY <2>2, <2>3
<1>5. LockInv'
  BY <1>1, <1>2, <1>3, <1>4 DEF LockInv, WithdrawType, HeadOnly, Enter, InTurn
<1>6. ASSUME ~ gaveUp PROVE PendingSucceeds' /\ HeadKnows' /\ Atomic'
  <2>1. PendingSucceeds /\ HeadKnows /\ Atomic
    BY <1>6 DEF PairInv
  <2>2. \A i \in 1..Len(pending) : pending[i].for \in Withdrawals
    BY <1>2, PendingCalls
  <2>3. PendingSucceeds'
    BY <1>1, <1>3, <2>1, <2>2 DEF PendingSucceeds
  <2>4. HeadKnows' /\ Atomic'
    BY <1>1, <1>3, <2>1 DEF HeadKnows, Atomic
  <2> QED BY <2>3, <2>4
<1> QED BY <1>1, <1>5, <1>6 DEF PairInv

\* While the head is not waiting for an update, only withdrawals are pending.
LEMMA NoUpdatePending ==
    ASSUME PairInv, ~ gaveUp, NEW w \in Withdrawals, Enter(w), pc[w] # "publishing"
    PROVE  \A i \in 1..Len(pending) : pending[i].call = "relay" /\ pending[i].root = latestRoot
<1> SUFFICES ASSUME NEW i \in 1..Len(pending), pending[i].call # "relay" PROVE FALSE
  BY DEF PairInv, PendingSucceeds
<1>1. pending[i].for \in Withdrawals
  BY PendingCalls DEF PairInv, LockInv
<1>2. pc[pending[i].for] = "publishing"
  BY DEF PairInv, PendingSucceeds
<1> QED BY <1>1, <1>2, OneInTurn DEF PairInv, InTurn

\* A step of the head that sends nothing, and after which it waits for no update.
LEMMA HeadMoves ==
    ASSUME PairInv, NEW w \in Withdrawals, Enter(w),
           UNCHANGED <<latestRoot, pending, landed, wasted, labels, proved, receipt, gaveUp>>,
           lock' \in Seq(Withdrawals), pc' \in [Withdrawals -> PCs],
           \A v \in Withdrawals \ {w} : pc'[v] = pc[v],
           pc'[w] \in InTurn => lock' = lock,
           pc'[w] # "publishing",
           ~ gaveUp =>
             /\ \A i \in 1..Len(pending) : pending[i].call = "relay"
             /\ pc'[w] = "updating" => latestRoot # proved[w]
             /\ pc'[w] = "relaying" => latestRoot = proved[w]
             /\ pc'[w] # "rejected"
    PROVE  PairInv'
<1>1. LockInv'
  <2>1. WithdrawType'
    BY DEF PairInv, LockInv, WithdrawType
  <2>2. \A v \in Withdrawals \ {w} : pc'[v] \notin InTurn
    BY OneInTurn DEF PairInv
  <2>3. HeadOnly'
    BY <2>2 DEF HeadOnly, Enter
  <2> QED BY <2>1, <2>3 DEF LockInv
<1>2. ASSUME ~ gaveUp PROVE PendingSucceeds' /\ HeadKnows' /\ Atomic'
  <2>1. PendingSucceeds /\ HeadKnows /\ Atomic
    BY <1>2 DEF PairInv
  <2>2. PendingSucceeds'
    BY <1>2, <2>1 DEF PendingSucceeds
  <2>3. HeadKnows' /\ Atomic'
    BY <1>2, <2>1 DEF HeadKnows, Atomic
  <2> QED BY <2>2, <2>3
<1> QED BY <1>1, <1>2 DEF PairInv

\* The head finds its root on chain already, or goes on to publish it.
LEMMA PublishKeeps ==
    ASSUME PairInv, Publish
    PROVE  PairInv'
<1> PICK w \in Withdrawals :
      /\ pc[w] = "queued" /\ Enter(w)
      /\ Move(w, IF latestRoot = proved[w] THEN "relaying" ELSE "updating")
  BY DEF Publish
<1>1. UNCHANGED <<latestRoot, pending, landed, wasted, labels, proved, lock, receipt, gaveUp>>
  BY DEF Publish, chainVars, boundVars
<1>2. /\ pc' \in [Withdrawals -> PCs]
      /\ \A v \in Withdrawals \ {w} : pc'[v] = pc[v]
      /\ pc'[w] = IF latestRoot = proved[w] THEN "relaying" ELSE "updating"
  BY Moves DEF PairInv, LockInv, WithdrawType, PCs
<1>3. lock' \in Seq(Withdrawals)
  BY <1>1 DEF PairInv, LockInv, WithdrawType
<1>4. ~ gaveUp => \A i \in 1..Len(pending) : pending[i].call = "relay"
  BY NoUpdatePending
<1>5. /\ pc'[w] # "publishing" /\ pc'[w] # "rejected"
      /\ pc'[w] = "updating" => latestRoot # proved[w]
      /\ pc'[w] = "relaying" => latestRoot = proved[w]
  <2>1. CASE latestRoot = proved[w]
    BY <1>2, <2>1
  <2>2. CASE latestRoot # proved[w]
    BY <1>2, <2>2
  <2> QED BY <2>1, <2>2
<1> QED BY <1>1, <1>2, <1>3, <1>4, <1>5, HeadMoves

\* A send that is refused ends the head's turn and sends nothing.
LEMMA SendRefusedKeeps ==
    ASSUME PairInv, SendRefused
    PROVE  PairInv'
<1> PICK w \in Withdrawals :
      pc[w] \in {"queued", "updating", "relaying"} /\ Enter(w) /\ Finish(w, "refused")
  BY DEF SendRefused
<1>1. UNCHANGED <<latestRoot, pending, landed, wasted, labels, proved, receipt, gaveUp>>
  BY DEF SendRefused, chainVars
<1>2. pc' \in [Withdrawals -> PCs] /\ lock' \in Seq(Withdrawals) /\ pc'[w] = "refused"
      /\ \A v \in Withdrawals \ {w} : pc'[v] = pc[v]
  BY Ends DEF PairInv, PCs, InTurn
<1>3. ~ gaveUp => \A i \in 1..Len(pending) : pending[i].call = "relay"
  BY NoUpdatePending
<1> QED BY <1>1, <1>2, <1>3, HeadMoves DEF InTurn

\* An update that is mined and seen leaves its root on chain.
LEMMA PublishedKeeps ==
    ASSUME PairInv, Published
    PROVE  PairInv'
<1> PICK w \in Withdrawals :
      pc[w] = "publishing" /\ Enter(w) /\ receipt = "success" /\ Move(w, "relaying")
  BY DEF Published
<1>1. UNCHANGED <<latestRoot, pending, landed, wasted, labels, proved, lock, receipt, gaveUp>>
  BY DEF Published, chainVars, boundVars
<1>2. pc' \in [Withdrawals -> PCs] /\ pc'[w] = "relaying" /\ \A v \in Withdrawals \ {w} : pc'[v] = pc[v]
  BY Moves DEF PairInv, LockInv, WithdrawType, PCs
<1>3. lock' \in Seq(Withdrawals)
  BY <1>1 DEF PairInv, LockInv, WithdrawType
<1>4. ~ gaveUp => \A i \in 1..Len(pending) : pending[i].call = "relay"
  BY DEF PairInv, PendingSucceeds
<1>5. ~ gaveUp => latestRoot = proved[w]
  BY DEF PairInv, HeadKnows
<1> QED BY <1>1, <1>2, <1>3, <1>4, <1>5, HeadMoves

\* One that reverted would have been sent for nothing, which does not happen.
LEMMA PublishRevertedKeeps ==
    ASSUME PairInv, PublishReverted
    PROVE  PairInv'
<1> PICK w \in Withdrawals :
      pc[w] = "publishing" /\ Enter(w) /\ receipt = "reverted" /\ Finish(w, "stale")
  BY DEF PublishReverted
<1>1. UNCHANGED <<latestRoot, pending, landed, wasted, labels, proved, receipt, gaveUp>>
  BY DEF PublishReverted, chainVars, boundVars
<1>2. pc' \in [Withdrawals -> PCs] /\ lock' \in Seq(Withdrawals) /\ pc'[w] = "stale"
      /\ \A v \in Withdrawals \ {w} : pc'[v] = pc[v]
  BY Ends DEF PairInv, PCs, InTurn
<1>3. gaveUp
  BY DEF PairInv, HeadKnows
<1> QED BY <1>1, <1>2, <1>3, HeadMoves DEF InTurn

\* After an update was given up on while pending, nothing is promised; one given up on after it was
\* mined leaves withdrawals only behind it.
LEMMA PublishTimesOutKeeps ==
    ASSUME PairInv, PublishTimesOut
    PROVE  PairInv'
<1> PICK w \in Withdrawals : pc[w] = "publishing" /\ Enter(w) /\ Finish(w, "stale")
  BY DEF PublishTimesOut
<1>1. /\ UNCHANGED <<latestRoot, pending, landed, wasted, labels, proved, receipt>>
      /\ gaveUp' = (gaveUp \/ receipt = "none")
  BY DEF PublishTimesOut, chainVars
<1>2. /\ pc' \in [Withdrawals -> PCs] /\ lock' \in Seq(Withdrawals) /\ pc'[w] = "stale"
      /\ \A v \in Withdrawals \ {w} : pc'[v] = pc[v]
      /\ \A v \in Withdrawals : pc'[v] \notin InTurn
  BY Ends DEF PairInv, PCs, InTurn
<1>3. CASE receipt = "none"
  <2>1. gaveUp' = TRUE
    BY <1>1, <1>3
  <2>2. LockInv'
    BY <1>1, <1>2, <2>1 DEF PairInv, LockInv, WithdrawType, HeadOnly
  <2> QED BY <2>1, <2>2 DEF PairInv
<1>4. CASE receipt # "none"
  <2>1. gaveUp' = gaveUp
    <3>1. gaveUp \in BOOLEAN
      BY DEF PairInv, LockInv, WithdrawType
    <3> QED BY <1>1, <1>4, <3>1
  <2>2. ~ gaveUp => \A i \in 1..Len(pending) : pending[i].call = "relay"
    BY <1>4 DEF PairInv, PendingSucceeds
  <2> QED BY <1>1, <1>2, <2>1, <2>2, HeadMoves DEF InTurn
<1> QED BY <1>3, <1>4

\* An update is sent for a root that is not on chain yet, behind withdrawals only.
LEMMA SendRootKeeps ==
    ASSUME PairInv, SendRoot
    PROVE  PairInv'
<1> PICK w \in Withdrawals :
      /\ pc[w] = "updating" /\ Enter(w)
      /\ IF latestRoot # proved[w]
         THEN /\ pending' = Append(pending, UpdateRoot(w))
              /\ Move(w, "publishing") /\ receipt' = "none" /\ UNCHANGED lock
         ELSE Finish(w, "rejected") /\ UNCHANGED <<pending, receipt>>
  BY DEF SendRoot
<1>1. UNCHANGED <<latestRoot, landed, wasted, labels, proved, gaveUp>>
  BY DEF SendRoot, boundVars
<1>2. LockInv /\ WithdrawType
  BY DEF PairInv, LockInv
<1>3. \A v \in Withdrawals \ {w} : pc[v] \notin InTurn
  BY <1>2, OneInTurn
<1>4. CASE latestRoot # proved[w]
  <2>1. pc' \in [Withdrawals -> PCs] /\ pc'[w] = "publishing"
        /\ \A v \in Withdrawals \ {w} : pc'[v] = pc[v]
    BY <1>2, <1>4, Moves DEF WithdrawType, PCs
  <2>2. UpdateRoot(w) \in AnyCall /\ UpdateRoot(w).call = "updateRoot" /\ UpdateRoot(w).for = w
        /\ UpdateRoot(w).root = proved[w]
    BY <1>2 DEF UpdateRoot, AnyCall, WithdrawType
  <2>3. /\ pending' \in Seq(AnyCall) /\ Len(pending') = Len(pending) + 1 /\ Len(pending) \in Nat
        /\ pending'[Len(pending) + 1] = UpdateRoot(w)
        /\ \A i \in 1..Len(pending) : pending'[i] = pending[i]
    BY <1>2, <1>4, <2>2, Appends
  <2>4. LockInv'
    BY <1>1, <1>2, <1>3, <1>4, <2>1, <2>3 DEF LockInv, WithdrawType, HeadOnly, Enter
  <2>5. ASSUME ~ gaveUp PROVE PendingSucceeds' /\ HeadKnows' /\ Atomic'
    <3>1. \A i \in 1..Len(pending) : pending[i].call = "relay" /\ pending[i].root = latestRoot
      BY <2>5, NoUpdatePending
    <3>2. PendingSucceeds'
      BY <1>1, <1>4, <2>1, <2>2, <2>3, <3>1 DEF PendingSucceeds
    <3>3. HeadKnows' /\ Atomic'
      BY <1>1, <1>3, <1>4, <2>1, <2>5 DEF PairInv, HeadKnows, Atomic, InTurn
    <3> QED BY <3>2, <3>3
  <2> QED BY <1>1, <2>4, <2>5 DEF PairInv
<1>5. CASE latestRoot = proved[w]
  <2>1. pc' \in [Withdrawals -> PCs] /\ lock' \in Seq(Withdrawals) /\ pc'[w] = "rejected"
        /\ \A v \in Withdrawals \ {w} : pc'[v] = pc[v]
    BY <1>2, <1>5, Ends DEF PCs, InTurn
  <2>2. gaveUp
    BY <1>5 DEF PairInv, HeadKnows
  <2> QED BY <1>1, <1>5, <2>1, <2>2, HeadMoves DEF InTurn
<1> QED BY <1>4, <1>5

\* A withdrawal is broadcast against the root that is there, with no update before it.
LEMMA RelayProofKeeps ==
    ASSUME PairInv, RelayProof
    PROVE  PairInv'
<1> PICK w \in Withdrawals :
      /\ pc[w] = "relaying" /\ Enter(w)
      /\ IF latestRoot = proved[w]
         THEN pending' = Append(pending, Relay(w)) /\ Finish(w, "relayed")
         ELSE Finish(w, "rejected") /\ UNCHANGED pending
  BY DEF RelayProof
<1>1. UNCHANGED <<latestRoot, landed, wasted, labels, proved, receipt, gaveUp>>
  BY DEF RelayProof, boundVars
<1>2. LockInv /\ WithdrawType
  BY DEF PairInv, LockInv
<1>3. CASE latestRoot = proved[w]
  <2>1. pc' \in [Withdrawals -> PCs] /\ lock' \in Seq(Withdrawals) /\ pc'[w] = "relayed"
        /\ (\A v \in Withdrawals \ {w} : pc'[v] = pc[v])
        /\ (\A v \in Withdrawals : pc'[v] \notin InTurn)
    BY <1>2, <1>3, Ends DEF PCs, InTurn
  <2>2. Relay(w) \in AnyCall /\ Relay(w).call = "relay" /\ Relay(w).root = proved[w]
    BY <1>2 DEF Relay, AnyCall, WithdrawType
  <2>3. /\ pending' \in Seq(AnyCall) /\ Len(pending') = Len(pending) + 1 /\ Len(pending) \in Nat
        /\ pending'[Len(pending) + 1] = Relay(w)
        /\ \A i \in 1..Len(pending) : pending'[i] = pending[i]
    BY <1>2, <1>3, <2>2, Appends
  <2>4. LockInv'
    BY <1>1, <1>2, <2>1, <2>3 DEF LockInv, WithdrawType, HeadOnly
  <2>5. ASSUME ~ gaveUp PROVE PendingSucceeds' /\ HeadKnows' /\ Atomic'
    <3>1. \A i \in 1..Len(pending) : pending[i].call = "relay" /\ pending[i].root = latestRoot
      BY <2>5, NoUpdatePending
    <3>2. PendingSucceeds'
      BY <1>1, <1>3, <2>2, <2>3, <3>1 DEF PendingSucceeds
    <3>3. HeadKnows' /\ Atomic'
      BY <1>1, <2>1, <2>5 DEF PairInv, HeadKnows, Atomic, InTurn
    <3> QED BY <3>2, <3>3
  <2> QED BY <1>1, <2>4, <2>5 DEF PairInv
<1>4. CASE latestRoot # proved[w]
  <2>1. pc' \in [Withdrawals -> PCs] /\ lock' \in Seq(Withdrawals) /\ pc'[w] = "rejected"
        /\ \A v \in Withdrawals \ {w} : pc'[v] = pc[v]
    BY <1>2, <1>4, Ends DEF PCs, InTurn
  <2>2. gaveUp
    BY <1>4 DEF PairInv, HeadKnows
  <2> QED BY <1>1, <1>4, <2>1, <2>2, HeadMoves DEF InTurn
<1> QED BY <1>3, <1>4

\* What mining the oldest transaction leaves pending.
LEMMA Shifts ==
    ASSUME WithdrawType, pending # <<>>, pending' = Tail(pending)
    PROVE  /\ pending' \in Seq(AnyCall) /\ Len(pending') = Len(pending) - 1 /\ Len(pending) \in Nat \ {0}
           /\ Head(pending) = pending[1]
           /\ \A i \in 1..Len(pending') : i + 1 \in 1..Len(pending) /\ pending'[i] = pending[i + 1]
BY DEF WithdrawType

\* The oldest transaction executes as its sender expected.
LEMMA MineKeeps ==
    ASSUME PairInv, Mine
    PROVE  PairInv'
<1> DEFINE tx == pending[1]
           ok == IF tx.call = "updateRoot" THEN latestRoot # tx.root ELSE latestRoot = tx.root
           outcome == IF ok THEN "success" ELSE "reverted"
<1>1. WithdrawType /\ HeadOnly /\ LockInv
  BY DEF PairInv, LockInv
<1>2. /\ pending' \in Seq(AnyCall) /\ Len(pending') = Len(pending) - 1 /\ Len(pending) \in Nat \ {0}
      /\ Head(pending) = pending[1]
      /\ \A i \in 1..Len(pending') : i + 1 \in 1..Len(pending) /\ pending'[i] = pending[i + 1]
  BY <1>1, Shifts DEF Mine
<1>3. /\ latestRoot' = IF ok THEN tx.root ELSE latestRoot
      /\ landed' = IF tx.call = "relay" THEN [landed EXCEPT ![tx.for] = outcome] ELSE landed
      /\ wasted' = (wasted \/ (tx.call = "updateRoot" /\ ~ok))
      /\ receipt' = IF tx.call = "updateRoot" /\ pc[tx.for] = "publishing" THEN outcome ELSE receipt
  BY <1>2 DEF Mine
<1>4. UNCHANGED <<labels, pc, proved, lock, gaveUp>>
  BY DEF Mine, boundVars
<1>5. 1 \in 1..Len(pending) /\ tx.for \in Withdrawals /\ tx.root \in Nat /\ tx.call \in {"updateRoot", "relay"}
  BY <1>1, <1>2, PendingCalls
<1> HIDE DEF tx
<1>6. LockInv'
  <2>1. latestRoot' \in Nat /\ landed' \in [Withdrawals -> {"none", "success", "reverted"}]
    BY <1>1, <1>3, <1>5 DEF WithdrawType
  <2> QED BY <1>1, <1>2, <1>4, <2>1 DEF LockInv, WithdrawType, HeadOnly, Enter
<1>7. ASSUME ~ gaveUp PROVE PendingSucceeds' /\ HeadKnows' /\ Atomic'
  <2>1. PendingSucceeds /\ HeadKnows /\ Atomic
    BY <1>7 DEF PairInv
  <2>2. CASE tx.call = "relay"
    <3>1. tx.root = latestRoot
      BY <1>5, <2>1, <2>2 DEF PendingSucceeds, tx
    <3>2. latestRoot' = latestRoot /\ receipt' = receipt
          /\ landed' = [landed EXCEPT ![tx.for] = "success"]
      BY <1>3, <2>2, <3>1
    <3>6. ~ wasted'
      BY <1>3, <2>1, <2>2 DEF Atomic
    <3>3. PendingSucceeds'
      <4> SUFFICES ASSUME NEW i \in 1..Len(pending')
                   PROVE  IF pending'[i].call = "relay" THEN pending'[i].root = latestRoot
                          ELSE /\ i = Len(pending') /\ pending'[i].root # latestRoot
                               /\ pc[pending'[i].for] = "publishing" /\ pending'[i].root = proved[pending'[i].for]
                               /\ receipt = "none"
        BY <1>4, <3>2 DEF PendingSucceeds
      <4>1. i + 1 \in 1..Len(pending) /\ pending'[i] = pending[i + 1]
            /\ (i + 1 = Len(pending) => i = Len(pending'))
        BY <1>2
      <4> QED BY <2>1, <4>1 DEF PendingSucceeds
    <3>4. HeadKnows'
      BY <1>4, <2>1, <3>2 DEF HeadKnows
    <3>5. Atomic'
      BY <1>1, <1>4, <1>5, <2>1, <3>2, <3>6 DEF Atomic, WithdrawType
    <3> QED BY <3>3, <3>4, <3>5
  <2>3. CASE tx.call = "updateRoot"
    <3>1. /\ Len(pending) = 1 /\ tx.root # latestRoot /\ pc[tx.for] = "publishing"
          /\ tx.root = proved[tx.for]
      BY <1>5, <2>1, <2>3 DEF PendingSucceeds, tx
    <3>2. latestRoot' = proved[tx.for] /\ receipt' = "success" /\ landed' = landed
      BY <1>3, <2>3, <3>1
    <3>7. ~ wasted'
      BY <1>3, <2>1, <2>3, <3>1 DEF Atomic
    <3>3. \A v \in Withdrawals \ {tx.for} : pc[v] \notin InTurn
      BY <1>1, <1>5, <3>1, OneInTurn DEF HeadOnly, InTurn
    <3>4. PendingSucceeds'
      BY <1>2, <3>1 DEF PendingSucceeds
    <3>5. HeadKnows'
      BY <1>4, <1>5, <3>1, <3>2, <3>3 DEF HeadKnows, InTurn
    <3>6. Atomic'
      BY <1>4, <2>1, <3>2, <3>7 DEF Atomic
    <3> QED BY <3>4, <3>5, <3>6
  <2> QED BY <1>5, <2>2, <2>3
<1> QED BY <1>4, <1>6, <1>7 DEF PairInv

\* No step breaks the invariant.
LEMMA PairStep == PairInv /\ [Next]_vars => PairInv'
<1> SUFFICES ASSUME PairInv, [Next]_vars PROVE PairInv'
  OBVIOUS
<1>1. CASE Deposit \/ Prove \/ UNCHANGED vars
  BY <1>1, OutsideKeeps
<1>2. CASE Accept
  BY <1>2, AcceptKeeps
<1>3. CASE Publish
  BY <1>3, PublishKeeps
<1>4. CASE SendRoot
  BY <1>4, SendRootKeeps
<1>5. CASE Published
  BY <1>5, PublishedKeeps
<1>6. CASE PublishReverted
  BY <1>6, PublishRevertedKeeps
<1>7. CASE PublishTimesOut
  BY <1>7, PublishTimesOutKeeps
<1>8. CASE RelayProof
  BY <1>8, RelayProofKeeps
<1>9. CASE SendRefused
  BY <1>9, SendRefusedKeeps
<1>10. CASE Mine
  BY <1>10, MineKeeps
<1> QED BY <1>1, <1>2, <1>3, <1>4, <1>5, <1>6, <1>7, <1>8, <1>9, <1>10 DEF Next, Service

\* The invariant holds throughout.
LEMMA PairAlways == Spec => []PairInv
BY PairInit, PairStep, PTL DEF Spec

\* exclusively() in withdraw(): as long as no update was given up on while pending, no relayed
\* withdrawal meets another root than its proof's, no simulation turns one away and no update is
\* wasted, for any number of requests, deposits and refused sends.
THEOREM PairsAreAtomic == Spec => []PairIsAtomic
<1>1. PairInv => PairIsAtomic
  BY DEF PairInv, Atomic, PairIsAtomic
<1> QED BY <1>1, PairAlways, PTL

-----------------------------------------------------------------------------
\* aspRootHistory() holds roots over labels already indexed.
LEMMA HistoryIsOurs ==
    ASSUME NEW k \in AspRootHistory
    PROVE  k <= labels
BY DEF AspRootHistory

\* A step that sends nothing and mines nothing, and lets no foreign root join the lock.
LEMMA QuietKeepsRoots ==
    ASSUME WithdrawType, OwnRoots, UNCHANGED <<latestRoot, pending>>, labels' \in Nat, labels <= labels',
           \A v \in Withdrawals : pc'[v] \in InTurn \cup {"queued"} =>
               proved'[v] = proved[v] /\ (pc[v] \in InTurn \cup {"queued"} \/ proved[v] <= labels)
    PROVE  OwnRoots'
<1>1. \A i \in DOMAIN pending : pending[i].root \in Nat
  BY PendingCalls DEF WithdrawType
<1>2. \A v \in Withdrawals : proved[v] \in Nat
  BY DEF WithdrawType
<1>3. OnlyOwnRoots'
  BY <1>1 DEF OwnRoots, OnlyOwnRoots, WithdrawType
<1>4. ASSUME NEW v \in Withdrawals, pc'[v] \in InTurn \cup {"queued"}
      PROVE  proved'[v] <= labels'
  <2>1. proved'[v] = proved[v] /\ (pc[v] \in InTurn \cup {"queued"} \/ proved[v] <= labels)
    BY <1>4
  <2>2. proved[v] <= labels
    BY <2>1 DEF OwnRoots
  <2> QED BY <1>2, <2>1, <2>2 DEF WithdrawType
<1> QED BY <1>3, <1>4 DEF OwnRoots

\* A step that broadcasts a call of the head's own root.
LEMMA SendKeepsRoots ==
    ASSUME WithdrawType, OwnRoots, NEW w \in Withdrawals, pc[w] \in InTurn,
           NEW tx \in AnyCall, tx.root = proved[w], pending' = Append(pending, tx),
           UNCHANGED <<latestRoot, labels, proved>>,
           \A v \in Withdrawals : pc'[v] \in InTurn \cup {"queued"} => pc[v] \in InTurn \cup {"queued"}
    PROVE  OwnRoots'
<1>1. /\ pending' \in Seq(AnyCall) /\ Len(pending') = Len(pending) + 1 /\ Len(pending) \in Nat
      /\ pending'[Len(pending) + 1] = tx
      /\ \A i \in 1..Len(pending) : pending'[i] = pending[i]
  BY Appends
<1>2. proved[w] <= labels
  BY DEF OwnRoots
<1>3. \A i \in 1..Len(pending') : pending'[i].root <= labels'
  BY <1>1, <1>2 DEF OwnRoots, OnlyOwnRoots, WithdrawType
<1>4. DOMAIN pending' = 1..Len(pending')
  BY <1>1
<1>5. OnlyOwnRoots'
  BY <1>3, <1>4 DEF OwnRoots, OnlyOwnRoots
<1> QED BY <1>5 DEF OwnRoots

\* No step leaves a root pending, or on chain, that is not of deposits indexed.
LEMMA RootsStep == LockInv /\ OwnRoots /\ [Next]_vars => OwnRoots'
<1> SUFFICES ASSUME LockInv, OwnRoots, [Next]_vars PROVE OwnRoots'
  OBVIOUS
<1>1. WithdrawType
  BY DEF LockInv
<1> DEFINE Turn(v) == pc[v] \in InTurn \cup {"queued"}
<1> DEFINE Stay == \A v \in Withdrawals : Turn(v)' => Turn(v)
<1>2. ASSUME Stay, UNCHANGED <<latestRoot, pending, labels, proved>> PROVE OwnRoots'
  BY <1>1, <1>2, QuietKeepsRoots DEF WithdrawType
<1>3. CASE Deposit \/ Prove \/ UNCHANGED vars
  <2>1. UNCHANGED <<latestRoot, pending, pc>> /\ labels' \in Nat /\ labels <= labels'
    BY <1>1, <1>3 DEF WithdrawType, Deposit, Prove, vars, chainVars
  <2>2. \A v \in Withdrawals : pc[v] # "new" => proved'[v] = proved[v]
    BY <1>1, <1>3 DEF WithdrawType, Deposit, Prove, vars
  <2> QED BY <1>1, <2>1, <2>2, QuietKeepsRoots DEF InTurn
<1>4. CASE Accept
  <2> PICK w \in Withdrawals :
        IF proved[w] \in AspRootHistory
        THEN lock' = Append(lock, w) /\ Move(w, "queued")
        ELSE Move(w, "stale") /\ UNCHANGED lock
    BY <1>4 DEF Accept
  <2>1. UNCHANGED <<latestRoot, pending, labels, proved>>
    BY <1>4 DEF Accept, chainVars
  <2>2. CASE proved[w] \in AspRootHistory
    <3>1. proved[w] <= labels
      BY <2>2, HistoryIsOurs
    <3>2. \A v \in Withdrawals \ {w} : pc'[v] = pc[v]
      BY <1>1, <2>2 DEF Move, WithdrawType
    <3> QED BY <1>1, <2>1, <3>1, <3>2, QuietKeepsRoots DEF WithdrawType
  <2>3. CASE proved[w] \notin AspRootHistory
    <3>1. Stay
      BY <1>1, <2>3 DEF Move, WithdrawType, InTurn
    <3> QED BY <1>2, <2>1, <3>1
  <2> QED BY <2>2, <2>3
<1>5. CASE Publish \/ Published \/ PublishReverted \/ PublishTimesOut \/ SendRefused
  <2>1. UNCHANGED <<latestRoot, pending, labels, proved>>
    BY <1>5 DEF Publish, Published, PublishReverted, PublishTimesOut, SendRefused, chainVars
  <2>2. PICK w \in Withdrawals, place \in PCs : pc[w] \in InTurn \cup {"queued"} /\ Move(w, place)
    BY <1>5 DEF Publish, Published, PublishReverted, PublishTimesOut, SendRefused, Finish, InTurn, PCs
  <2>3. Stay
    BY <1>1, <2>2 DEF Move, WithdrawType
  <2> QED BY <1>2, <2>1, <2>3
<1>6. CASE SendRoot
  <2> PICK w \in Withdrawals :
        /\ pc[w] = "updating"
        /\ IF latestRoot # proved[w]
           THEN /\ pending' = Append(pending, UpdateRoot(w))
                /\ Move(w, "publishing") /\ receipt' = "none" /\ UNCHANGED lock
           ELSE Finish(w, "rejected") /\ UNCHANGED <<pending, receipt>>
    BY <1>6 DEF SendRoot
  <2>1. UNCHANGED <<latestRoot, labels, proved>>
    BY <1>6 DEF SendRoot
  <2>2. Stay
    BY <1>1 DEF Move, Finish, WithdrawType, InTurn
  <2>3. UpdateRoot(w) \in AnyCall /\ UpdateRoot(w).root = proved[w]
    BY <1>1 DEF UpdateRoot, AnyCall, WithdrawType
  <2>4. CASE latestRoot # proved[w]
    BY <1>1, <2>1, <2>2, <2>3, <2>4, SendKeepsRoots DEF InTurn
  <2>5. CASE latestRoot = proved[w]
    BY <1>2, <2>1, <2>2, <2>5
  <2> QED BY <2>4, <2>5
<1>7. CASE RelayProof
  <2> PICK w \in Withdrawals :
        /\ pc[w] = "relaying"
        /\ IF latestRoot = proved[w]
           THEN pending' = Append(pending, Relay(w)) /\ Finish(w, "relayed")
           ELSE Finish(w, "rejected") /\ UNCHANGED pending
    BY <1>7 DEF RelayProof
  <2>1. UNCHANGED <<latestRoot, labels, proved>>
    BY <1>7 DEF RelayProof
  <2>2. Stay
    BY <1>1 DEF Move, Finish, WithdrawType, InTurn
  <2>3. Relay(w) \in AnyCall /\ Relay(w).root = proved[w]
    BY <1>1 DEF Relay, AnyCall, WithdrawType
  <2>4. CASE latestRoot = proved[w]
    BY <1>1, <2>1, <2>2, <2>3, <2>4, SendKeepsRoots DEF InTurn
  <2>5. CASE latestRoot # proved[w]
    BY <1>2, <2>1, <2>2, <2>5
  <2> QED BY <2>4, <2>5
<1>8. CASE Mine
  <2>1. /\ pending' \in Seq(AnyCall) /\ Len(pending') = Len(pending) - 1 /\ Len(pending) \in Nat \ {0}
        /\ Head(pending) = pending[1]
        /\ \A i \in 1..Len(pending') : i + 1 \in 1..Len(pending) /\ pending'[i] = pending[i + 1]
    BY <1>1, <1>8, Shifts DEF Mine
  <2>2. UNCHANGED <<labels, pc, proved>> /\ latestRoot' \in {latestRoot, pending[1].root}
    BY <1>8, <2>1 DEF Mine
  <2>3. \A i \in 1..Len(pending) : pending[i].root <= labels
    BY <1>1 DEF OwnRoots, OnlyOwnRoots, WithdrawType
  <2>4. latestRoot' <= labels
    BY <2>1, <2>2, <2>3 DEF OwnRoots, OnlyOwnRoots
  <2>5. OnlyOwnRoots'
    BY <2>1, <2>2, <2>3, <2>4 DEF OnlyOwnRoots
  <2> QED BY <2>2, <2>5 DEF OwnRoots
<1> QED BY <1>3, <1>4, <1>5, <1>6, <1>7, <1>8 DEF Next, Service

\* withdraw()'s check of aspRootHistory(): whatever roots clients prove against, the entrypoint's
\* root and those on their way to it are roots over deposits this service has indexed.
THEOREM OnlyOwnRootsPublished == Spec => []OnlyOwnRoots
<1>1. PairInv => LockInv
  BY DEF PairInv
<1>2. Init => OwnRoots
  BY PairInit
<1>3. OwnRoots => OnlyOwnRoots
  BY DEF OwnRoots
<1> QED BY <1>1, <1>2, <1>3, RootsStep, PairAlways, PTL DEF Spec

-----------------------------------------------------------------------------
(***************************************************************************)
(* PoolMirror.  Blocks some head has finalised are never replaced, and the *)
(* cursor never passes them: what has been read is what the chain holds,   *)
(* and a span read and not yet written still is what it was.               *)
(***************************************************************************)
LeavesIn(c, a, b) == {l \in LogsIn(c, a, b) : l.leaf # Other}

ChainInv ==
    /\ chain \in Seq(Bodies) /\ Legal(chain)
    /\ final \in Nat /\ final <= Len(chain) /\ SafeHead(Len(chain)) <= final

SpanInv ==
    /\ cursor \in Nat /\ cursor >= StartBlock - 1 /\ (cursor > StartBlock - 1 => cursor <= final)
    /\ tick = "read" =>
          /\ to \in Nat /\ cursor < to /\ to <= final
          /\ found = LeavesIn(chain, cursor + 1, to)

MirrorInv == ChainInv /\ SpanInv /\ rows = LeavesIn(chain, 1, cursor)

\* What is in a log of a span of blocks.
LEMMA SpanLogs ==
    ASSUME NEW c \in Seq(Bodies), NEW a \in Nat, NEW b \in Nat, NEW l
    PROVE  l \in LogsIn(c, a, b)
              <=> \E n \in 1..Len(c) : \E i \in DOMAIN c[n] :
                     /\ n \in a..b
                     /\ l = [leaf |-> c[n][i], block |-> n, index |-> i]
BY DEF LogsIn

\* A leaf of a span: where it is, and what it holds.
LEMMA SpanLeaf ==
    ASSUME NEW c \in Seq(Bodies), NEW a \in Nat, NEW b \in Nat, NEW l \in LogsIn(c, a, b)
    PROVE  /\ l.block \in 1..Len(c) /\ a <= l.block /\ l.block <= b /\ l.index \in Nat \ {0}
           /\ l.leaf \in Leaves \cup {Other}
           /\ l = [leaf |-> l.leaf, block |-> l.block, index |-> l.index]
<1>1. PICK n, i :
        n \in 1..Len(c) /\ i \in DOMAIN c[n] /\ n \in a..b /\ l = [leaf |-> c[n][i], block |-> n, index |-> i]
  BY SpanLogs
<1>2. c[n] \in Bodies
  BY <1>1
<1>3. i \in 1..Len(c[n]) /\ c[n][i] \in Leaves \cup {Other}
  <2> DEFINE body == c[n]
  <2>1. body \in Seq(Leaves \cup {Other}) /\ i \in DOMAIN body
    BY <1>1, <1>2, PoolAssumption
  <2> HIDE DEF body
  <2>2. i \in 1..Len(body) /\ body[i] \in Leaves \cup {Other}
    BY <2>1
  <2> QED BY <2>2 DEF body
<1> QED BY <1>1, <1>3

\* A log is in every span its block is in.
LEMMA SpanOf ==
    ASSUME NEW c \in Seq(Bodies), NEW a \in Nat, NEW b \in Nat, NEW l \in LogsIn(c, a, b),
           NEW p \in Nat, NEW q \in Nat, p <= l.block, l.block <= q
    PROVE  l \in LogsIn(c, p, q)
<1>1. PICK n, i :
        n \in 1..Len(c) /\ i \in DOMAIN c[n] /\ n \in a..b /\ l = [leaf |-> c[n][i], block |-> n, index |-> i]
  BY SpanLogs
<1>2. n = l.block /\ n \in p..q
  BY <1>1
<1> QED BY <1>1, <1>2, SpanLogs

\* Two chains that agree on a span have the same leaves in it.
LEMMA SpanAgrees ==
    ASSUME NEW c \in Seq(Bodies), NEW d \in Seq(Bodies), NEW a \in Nat \ {0}, NEW b \in Nat,
           b <= Len(c), b <= Len(d), \A n \in a..b : c[n] = d[n]
    PROVE  LeavesIn(c, a, b) = LeavesIn(d, a, b)
<1>1. ASSUME NEW l PROVE l \in LogsIn(c, a, b) <=> l \in LogsIn(d, a, b)
  <2>1. \A n \in a..b : n \in 1..Len(c) /\ n \in 1..Len(d) /\ c[n] = d[n]
    OBVIOUS
  <2>2. ASSUME l \in LogsIn(c, a, b) PROVE l \in LogsIn(d, a, b)
    <3>1. PICK n, i : n \in 1..Len(c) /\ i \in DOMAIN c[n] /\ n \in a..b
                      /\ l = [leaf |-> c[n][i], block |-> n, index |-> i]
      BY <2>2, SpanLogs
    <3>2. n \in 1..Len(d) /\ i \in DOMAIN d[n] /\ l = [leaf |-> d[n][i], block |-> n, index |-> i]
      BY <2>1, <3>1
    <3> QED BY <3>1, <3>2, SpanLogs
  <2>3. ASSUME l \in LogsIn(d, a, b) PROVE l \in LogsIn(c, a, b)
    <3>1. PICK n, i : n \in 1..Len(d) /\ i \in DOMAIN d[n] /\ n \in a..b
                      /\ l = [leaf |-> d[n][i], block |-> n, index |-> i]
      BY <2>3, SpanLogs
    <3>2. n \in 1..Len(c) /\ i \in DOMAIN c[n] /\ l = [leaf |-> c[n][i], block |-> n, index |-> i]
      BY <2>1, <3>1
    <3> QED BY <3>1, <3>2, SpanLogs
  <2> QED BY <2>2, <2>3
<1> QED BY <1>1 DEF LeavesIn

\* toLeaf keeps exactly the commitments.
LEMMA ToLeavesKeeps ==
    ASSUME NEW c \in Seq(Bodies), NEW a \in Nat, NEW b \in Nat
    PROVE  ToLeaves(LogsIn(c, a, b)) = LeavesIn(c, a, b)
<1>1. \A l \in LogsIn(c, a, b) : l.leaf \in Leaves <=> l.leaf # Other
  BY SpanLeaf, PoolAssumption
<1> QED BY <1>1 DEF ToLeaves, LeavesIn

\* Nothing is in the pool before its first deposit.
LEMMA BeforeStart ==
    ASSUME NEW c \in Seq(Bodies), Legal(c), NEW b \in Nat, b < StartBlock
    PROVE  LeavesIn(c, 1, b) = {}
<1> SUFFICES ASSUME NEW l \in LeavesIn(c, 1, b) PROVE FALSE
  OBVIOUS
<1>1. l \in LogsIn(c, 1, b) /\ l.leaf # Other
  BY DEF LeavesIn
<1>2. l.block \in 1..Len(c) /\ l.block <= b
  BY <1>1, SpanLeaf
<1>3. l \in LogsIn(c, 1, Len(c))
  BY <1>1, <1>2, SpanOf
<1>4. l.block >= StartBlock
  BY <1>1, <1>3 DEF Legal
<1> QED BY <1>2, <1>4, PoolAssumption

\* A span that follows what is stored adds its leaves: no commitment is inserted twice, so that no
\* row is overwritten.
LEMMA UpsertAdds ==
    ASSUME NEW c \in Seq(Bodies), Legal(c), NEW m \in Nat, NEW b \in Nat, m <= b
    PROVE  Upsert(LeavesIn(c, 1, m), LeavesIn(c, m + 1, b)) = LeavesIn(c, 1, b)
<1>0. 1 \in Nat /\ m + 1 \in Nat
  OBVIOUS
<1>1. ASSUME NEW r \in LeavesIn(c, 1, m), NEW s \in LeavesIn(c, m + 1, b)
      PROVE  <<s.leaf, s.index>> # <<r.leaf, r.index>>
  <2>1. r \in LogsIn(c, 1, m) /\ s \in LogsIn(c, m + 1, b) /\ r.leaf # Other /\ s.leaf # Other
    BY DEF LeavesIn
  <2>2. r.block \in 1..Len(c) /\ s.block \in 1..Len(c) /\ r.block <= m /\ m + 1 <= s.block
    BY <1>0, <2>1, SpanLeaf
  <2>3. r \in LogsIn(c, 1, Len(c)) /\ s \in LogsIn(c, 1, Len(c))
    BY <2>1, <2>2, SpanOf
  <2>4. r # s
    BY <2>2
  <2>5. r.leaf # s.leaf
    BY <2>1, <2>3, <2>4 DEF Legal
  <2> QED BY <2>5
<1>2. Upsert(LeavesIn(c, 1, m), LeavesIn(c, m + 1, b)) = LeavesIn(c, 1, m) \cup LeavesIn(c, m + 1, b)
  BY <1>1 DEF Upsert
<1>3. ASSUME NEW l PROVE l \in LeavesIn(c, 1, b) <=> l \in LeavesIn(c, 1, m) \/ l \in LeavesIn(c, m + 1, b)
  <2>1. ASSUME l \in LogsIn(c, 1, b) PROVE l \in LogsIn(c, 1, m) \/ l \in LogsIn(c, m + 1, b)
    <3>1. l.block \in Nat /\ 1 <= l.block /\ l.block <= b
      BY <2>1, SpanLeaf
    <3>2. CASE l.block <= m
      BY <2>1, <3>1, <3>2, SpanOf
    <3>3. CASE m + 1 <= l.block
      BY <1>0, <2>1, <3>1, <3>3, SpanOf
    <3> QED BY <3>1, <3>2, <3>3
  <2>2. ASSUME l \in LogsIn(c, 1, m) PROVE l \in LogsIn(c, 1, b)
    <3>1. l.block \in Nat /\ 1 <= l.block /\ l.block <= b
      BY <2>2, SpanLeaf
    <3> QED BY <2>2, <3>1, SpanOf
  <2>3. ASSUME l \in LogsIn(c, m + 1, b) PROVE l \in LogsIn(c, 1, b)
    <3>1. l.block \in Nat /\ 1 <= l.block /\ l.block <= b
      BY <1>0, <2>3, SpanLeaf
    <3> QED BY <1>0, <2>3, <3>1, SpanOf
  <2> QED BY <2>1, <2>2, <2>3 DEF LeavesIn
<1> QED BY <1>2, <1>3

\* What is final stays below the head, and the safe head below what is final.
LEMMA FinaliseBounds ==
    ASSUME Finalise, final \in Nat, final <= Len(chain'), Len(chain') \in Nat
    PROVE  final' \in Nat /\ final <= final' /\ final' <= Len(chain') /\ SafeHead(Len(chain')) <= final'
BY PoolAssumption DEF Finalise, Finalised, SafeHead

\* A new block, or blocks that replace some above what is final.
LEMMA ChainKeeps ==
    ASSUME ChainInv, NewBlock \/ Reorg
    PROVE  /\ ChainInv' /\ final <= final' /\ UNCHANGED <<cursor, rows, tick, to, found>>
           /\ \A n \in 1..final : chain'[n] = chain[n]
<1>1. PICK keep \in Nat, body \in Bodies :
        /\ final <= keep /\ keep <= Len(chain)
        /\ chain' = Append(SubSeq(chain, 1, keep), body)
  <2>1. CASE NewBlock
    <3>1. PICK body \in Bodies : chain' = Append(chain, body)
      BY <2>1 DEF NewBlock
    <3>2. chain = SubSeq(chain, 1, Len(chain)) /\ Len(chain) \in Nat
      BY DEF ChainInv
    <3> QED BY <3>1, <3>2 DEF ChainInv
  <2>2. CASE Reorg
    BY <2>2 DEF Reorg, ChainInv
  <2> QED BY <2>1, <2>2
<1>2. /\ SubSeq(chain, 1, keep) \in Seq(Bodies) /\ Len(SubSeq(chain, 1, keep)) = keep
      /\ \A n \in 1..keep : SubSeq(chain, 1, keep)[n] = chain[n]
  BY <1>1 DEF ChainInv
<1>3. /\ chain' \in Seq(Bodies) /\ Len(chain') = keep + 1
      /\ \A n \in 1..keep : chain'[n] = chain[n]
  BY <1>1, <1>2
<1>4. Legal(chain') /\ Finalise /\ UNCHANGED <<cursor, rows, tick, to, found>>
  BY DEF NewBlock, Reorg, tickVars
<1>5. final' \in Nat /\ final <= final' /\ final' <= Len(chain') /\ SafeHead(Len(chain')) <= final'
  BY <1>1, <1>3, <1>4, FinaliseBounds DEF ChainInv
<1> QED BY <1>1, <1>3, <1>4, <1>5 DEF ChainInv

\* The leaves up to a final block, or before the pool's first, survive a reorganisation.
LEMMA PastKeeps ==
    ASSUME ChainInv, NewBlock \/ Reorg, NEW k \in Nat, k <= final \/ k < StartBlock
    PROVE  LeavesIn(chain', 1, k) = LeavesIn(chain, 1, k)
<1>1. ChainInv' /\ final <= final' /\ \A n \in 1..final : chain'[n] = chain[n]
  BY ChainKeeps
<1>2. /\ chain \in Seq(Bodies) /\ chain' \in Seq(Bodies) /\ Legal(chain) /\ Legal(chain')
      /\ final \in Nat /\ final' \in Nat /\ final <= Len(chain) /\ final <= Len(chain')
      /\ Len(chain) \in Nat /\ Len(chain') \in Nat
  BY <1>1 DEF ChainInv
<1>3. CASE k <= final
  BY <1>1, <1>2, <1>3, SpanAgrees
<1>4. CASE k < StartBlock
  BY <1>2, <1>4, BeforeStart
<1> QED BY <1>3, <1>4

\* The leaves up to the cursor, and those of a span that has been read, survive a reorganisation.
LEMMA BlocksKeep ==
    ASSUME MirrorInv, NewBlock \/ Reorg
    PROVE  MirrorInv'
<1>1. /\ ChainInv' /\ final <= final' /\ UNCHANGED <<cursor, rows, tick, to, found>>
      /\ \A n \in 1..final : chain'[n] = chain[n]
  BY ChainKeeps DEF MirrorInv
<1>2. /\ chain \in Seq(Bodies) /\ chain' \in Seq(Bodies) /\ Legal(chain) /\ Legal(chain')
      /\ final \in Nat /\ final' \in Nat /\ final <= Len(chain) /\ final <= Len(chain') /\ cursor \in Nat
      /\ Len(chain) \in Nat /\ Len(chain') \in Nat
  BY <1>1 DEF MirrorInv, ChainInv, SpanInv
<1>3. LeavesIn(chain', 1, cursor) = LeavesIn(chain, 1, cursor)
  BY <1>2, PastKeeps, PoolAssumption DEF MirrorInv, SpanInv
<1>4. tick = "read" => LeavesIn(chain', cursor + 1, to) = LeavesIn(chain, cursor + 1, to)
  BY <1>1, <1>2, SpanAgrees DEF MirrorInv, SpanInv
<1> QED BY <1>1, <1>2, <1>3, <1>4 DEF MirrorInv, SpanInv

\* A step that leaves the chain, the cursor and the rows alone, and reads no span.
LEMMA StoredKeep ==
    ASSUME MirrorInv, UNCHANGED <<chain, final, cursor, rows>>,
           tick' = "idle" \/ UNCHANGED <<tick, to, found>>
    PROVE  MirrorInv'
BY DEF MirrorInv, ChainInv, SpanInv, LeavesIn, LogsIn, Legal, SafeHead

\* A span of final blocks is read.
LEMMA ReadKeeps ==
    ASSUME MirrorInv, TickRead
    PROVE  MirrorInv'
<1>1. /\ UNCHANGED <<chain, final, cursor, rows>> /\ to' = SpanEnd(cursor + 1, SafeHead(Len(chain)))
      /\ found' = ToLeaves(LogsIn(chain, cursor + 1, to'))
      /\ cursor + 1 <= SafeHead(Len(chain))
  BY DEF TickRead, blockVars
<1>2. chain \in Seq(Bodies) /\ cursor \in Nat /\ SafeHead(Len(chain)) \in Nat /\ SafeHead(Len(chain)) <= final
      /\ final \in Nat
  BY PoolAssumption DEF MirrorInv, ChainInv, SpanInv, SafeHead
<1>3. to' \in Nat /\ cursor < to' /\ to' <= final
  BY <1>1, <1>2, PoolAssumption DEF SpanEnd
<1>4. found' = LeavesIn(chain, cursor + 1, to')
  BY <1>1, <1>2, <1>3, ToLeavesKeeps
<1> QED BY <1>1, <1>3, <1>4 DEF MirrorInv, ChainInv, SpanInv, LeavesIn, LogsIn, Legal, SafeHead

\* The span's leaves and the cursor are written together.
LEMMA CommitKeeps ==
    ASSUME MirrorInv, TickCommit
    PROVE  MirrorInv'
<1>1. /\ UNCHANGED <<chain, final>> /\ cursor' = to /\ rows' = Upsert(rows, found) /\ tick' = "idle"
      /\ rows = LeavesIn(chain, 1, cursor) /\ found = LeavesIn(chain, cursor + 1, to)
      /\ chain \in Seq(Bodies) /\ Legal(chain) /\ cursor \in Nat /\ to \in Nat /\ cursor < to /\ to <= final
      /\ cursor >= StartBlock - 1
  BY DEF TickCommit, blockVars, MirrorInv, ChainInv, SpanInv
<1>2. rows' = LeavesIn(chain, 1, to)
  BY <1>1, UpsertAdds
<1>3. cursor' \in Nat /\ cursor' >= StartBlock - 1 /\ cursor' <= final
  BY <1>1, PoolAssumption
<1> QED BY <1>1, <1>2, <1>3 DEF MirrorInv, ChainInv, SpanInv, LeavesIn, LogsIn, Legal, SafeHead

\* At the start the chain is empty, and so is the mirror.
LEMMA MirrorStarts == MirrorInit => MirrorInv
<1> SUFFICES ASSUME MirrorInit PROVE MirrorInv
  OBVIOUS
<1>1. <<>> \in Seq(Bodies) /\ Len(<<>>) = 0
  OBVIOUS
<1>2. \A a \in Nat, b \in Nat : LogsIn(<<>>, a, b) = {}
  BY DEF LogsIn
<1>3. Legal(<<>>) /\ LeavesIn(<<>>, 1, StartBlock - 1) = {}
  BY <1>1, <1>2, PoolAssumption DEF Legal, LeavesIn
<1> QED BY <1>1, <1>3, PoolAssumption DEF MirrorInit, MirrorInv, ChainInv, SpanInv, SafeHead

\* The indexer's steps, its failures and the chain's keep the mirror exact.
LEMMA MirrorStep == MirrorInv /\ [MirrorNext]_mirrorVars => MirrorInv'
<1> SUFFICES ASSUME MirrorInv, [MirrorNext]_mirrorVars PROVE MirrorInv'
  OBVIOUS
<1>1. CASE NewBlock \/ Reorg
  BY <1>1, BlocksKeep
<1>2. CASE TickRead
  BY <1>2, ReadKeeps
<1>3. CASE TickCommit
  BY <1>3, CommitKeeps
<1>4. CASE TickNothingNew \/ TickFails \/ Restart \/ StateReadsRows \/ StateReadsRoots \/ UNCHANGED mirrorVars
  BY <1>4, StoredKeep
     DEF TickNothingNew, TickFails, Restart, StateReadsRows, StateReadsRoots, mirrorVars, blockVars, tickVars
<1> QED BY <1>1, <1>2, <1>3, <1>4 DEF MirrorNext, Tick

\* The invariant holds throughout.
LEMMA MirrorAlways == MirrorSpec => []MirrorInv
BY MirrorStarts, MirrorStep, PTL DEF MirrorSpec

\* tick(): leaves and cursor are one transaction, and only final blocks are read.  The mirror holds the
\* canonical leaves up to its cursor, for any chain, span, reorganisation, failure and restart.
THEOREM PoolMirrorIsExact == MirrorSpec => []MirrorIsExact
<1>1. MirrorInv => MirrorIsExact
  BY DEF MirrorInv, SpanInv, MirrorIsExact, LeavesIn
<1> QED BY <1>1, MirrorAlways, PTL

-----------------------------------------------------------------------------
(***************************************************************************)
(* The trees.  Rows are ordered by their place in the chain, which no two  *)
(* share.  A finite set of them has exactly one ascending sequence, and    *)
(* the sequence of the rows up to a block is an initial part of any later  *)
(* block's.                                                                *)
(***************************************************************************)
Placed(S) ==
    /\ \A x \in S : x.block \in Nat /\ x.index \in Nat
    /\ \A x, y \in S : x.block = y.block /\ x.index = y.index => x = y

Ascending(s, S) ==
    /\ s \in [1..Cardinality(S) -> S]
    /\ \A i, j \in 1..Cardinality(S) : i < j => ChainOrder(s[i], s[j])

\* Of two rows one comes first, and only one.
LEMMA OneFirst ==
    ASSUME NEW S, Placed(S), NEW x \in S, NEW y \in S
    PROVE  /\ ChainOrder(x, y) => ~ChainOrder(y, x) /\ x # y
           /\ x # y => ChainOrder(x, y) \/ ChainOrder(y, x)
BY DEF Placed, ChainOrder

\* What comes before a row comes before those after it.
LEMMA FirstOfAll ==
    ASSUME NEW S, Placed(S), NEW x \in S, NEW y \in S, NEW z \in S, ChainOrder(x, y), ChainOrder(y, z)
    PROVE  ChainOrder(x, z)
BY DEF Placed, ChainOrder

\* A finite set of rows has a last one.
LEMMA LastRow ==
    ASSUME NEW S, IsFiniteSet(S), Placed(S), S # {}
    PROVE  \E m \in S : \A x \in S \ {m} : ChainOrder(x, m)
<1> DEFINE HasLast(T) == \E m \in T : \A x \in T \ {m} : ChainOrder(x, m)
           F == {T \in SUBSET S : T # {} /\ ~HasLast(T)}
<1>1. SUFFICES ASSUME F # {} PROVE FALSE
  OBVIOUS
<1>2. PICK T \in F : \A U \in SUBSET T : U # T => U \notin F
  <2>1. F \in SUBSET (SUBSET S)
    OBVIOUS
  <2> HIDE DEF F
  <2> QED BY <1>1, <2>1, SmallestSubset
<1>3. PICK x \in T : TRUE
  BY <1>2
<1>4. T \ {x} # {}
  BY <1>2, <1>3
<1>5. HasLast(T \ {x})
  <2>1. T \ {x} \in SUBSET T /\ T \ {x} # T /\ T \ {x} \in SUBSET S
    BY <1>2, <1>3
  <2>2. T \ {x} \notin F
    <3> HIDE DEF F
    <3> QED BY <1>2, <2>1
  <2> QED BY <1>4, <2>1, <2>2
<1>6. PICK m \in T \ {x} : \A y \in (T \ {x}) \ {m} : ChainOrder(y, m)
  BY <1>5
<1>7. x \in S /\ m \in S /\ x # m /\ T \subseteq S
  BY <1>2, <1>3, <1>6
<1>8. CASE ChainOrder(x, m)
  BY <1>2, <1>6, <1>8
<1>9. CASE ChainOrder(m, x)
  <2>1. \A y \in T \ {x} : ChainOrder(y, x)
    BY <1>6, <1>7, <1>9, FirstOfAll
  <2> QED BY <1>2, <1>3, <2>1
<1> QED BY <1>7, <1>8, <1>9, OneFirst

\* A finite set of rows can be put in order.
LEMMA CanBeSorted ==
    ASSUME NEW S, IsFiniteSet(S), Placed(S)
    PROVE  \E s : Ascending(s, S)
<1> DEFINE F == {T \in SUBSET S : ~ \E s : Ascending(s, T)}
<1>1. SUFFICES ASSUME F # {} PROVE FALSE
  OBVIOUS
<1>2. PICK T \in F : \A U \in SUBSET T : U # T => U \notin F
  <2>1. F \in SUBSET (SUBSET S)
    OBVIOUS
  <2> HIDE DEF F
  <2> QED BY <1>1, <2>1, SmallestSubset
<1>3. T \in SUBSET S /\ ~ \E s : Ascending(s, T)
  BY <1>2
<1>4. IsFiniteSet(T) /\ Placed(T) /\ Cardinality(T) \in Nat
  BY <1>3, FS_Subset, FS_CardinalityType DEF Placed
<1>5. CASE T = {}
  <2>1. Cardinality(T) = 0
    BY <1>5, FS_EmptySet
  <2>2. [i \in 1..0 |-> i] \in [1..0 -> T]
    OBVIOUS
  <2>3. Ascending([i \in 1..0 |-> i], T)
    BY <2>1, <2>2 DEF Ascending
  <2> QED BY <1>3, <2>3
<1>6. CASE T # {}
  <2>1. PICK m \in T : \A x \in T \ {m} : ChainOrder(x, m)
    BY <1>4, <1>6, LastRow
  <2> DEFINE n == Cardinality(T)
             U == T \ {m}
  <2>2. Cardinality(U) = n - 1 /\ n \in Nat \ {0}
    BY <1>4, <1>6, FS_RemoveElement, FS_EmptySet
  <2>3. U \in SUBSET T /\ U # T /\ U \in SUBSET S
    BY <1>3, <2>1
  <2>4. PICK s : Ascending(s, U)
    BY <1>2, <2>3
  <2> DEFINE t == [i \in 1..n |-> IF i = n THEN m ELSE s[i]]
  <2> HIDE DEF n, U
  <2>5. t \in [1..n -> T]
    <3>1. ASSUME NEW i \in 1..n PROVE (IF i = n THEN m ELSE s[i]) \in T
      BY <2>2, <2>3, <2>4 DEF Ascending
    <3> QED BY <3>1
  <2>6. ASSUME NEW i \in 1..n, NEW j \in 1..n, i < j PROVE ChainOrder(t[i], t[j])
    <3>1. i \in 1..(n - 1) /\ t[i] = s[i] /\ s[i] \in U
      BY <2>2, <2>4, <2>6 DEF Ascending
    <3>2. CASE j = n
      <4>1. t[j] = m
        BY <3>2
      <4> QED BY <2>1, <3>1, <4>1 DEF U
    <3>3. CASE j # n
      <4>1. j \in 1..(n - 1) /\ t[j] = s[j]
        BY <2>2, <3>3
      <4> QED BY <2>2, <2>4, <2>6, <3>1, <4>1 DEF Ascending
    <3> QED BY <3>2, <3>3
  <2> HIDE DEF t
  <2>7. Ascending(t, T)
    BY <2>5, <2>6 DEF Ascending, n
  <2> QED BY <1>3, <2>7
<1> QED BY <1>5, <1>6

\* What leaves() answers is in order.
LEMMA OrderedAscends ==
    ASSUME NEW S, IsFiniteSet(S), Placed(S)
    PROVE  Ascending(Ordered(S), S)
<1>1. PICK s : Ascending(s, S)
  BY CanBeSorted
<1>2. s \in [1..Cardinality(S) -> S]
      /\ \A i, j \in DOMAIN s : i < j => ChainOrder(s[i], s[j])
  BY <1>1 DEF Ascending
<1>3. /\ Ordered(S) \in [1..Cardinality(S) -> S]
      /\ \A i, j \in DOMAIN Ordered(S) : i < j => ChainOrder(Ordered(S)[i], Ordered(S)[j])
  BY <1>2, Zenon DEF Ordered, Sorted
<1> QED BY <1>3 DEF Ascending

\* An ascending sequence holds every row once.
LEMMA SortedOnto ==
    ASSUME NEW S, IsFiniteSet(S), Placed(S), NEW s, Ascending(s, S)
    PROVE  /\ \A i, j \in 1..Cardinality(S) : s[i] = s[j] => i = j
           /\ \A x \in S : \E i \in 1..Cardinality(S) : s[i] = x
<1> DEFINE n == Cardinality(S)
<1>1. n \in Nat /\ IsFiniteSet(1..n) /\ Cardinality(1..n) = n
  BY FS_CardinalityType, FS_Interval
<1> HIDE DEF n
<1>2. s \in [1..n -> S] /\ \A i, j \in 1..n : i < j => ChainOrder(s[i], s[j])
  BY DEF Ascending, n
<1>3. ASSUME NEW i \in 1..n, NEW j \in 1..n, s[i] = s[j] PROVE i = j
  <2>1. s[i] \in S /\ ~ChainOrder(s[i], s[i])
    BY <1>2, OneFirst
  <2>2. ~ (i < j) /\ ~ (j < i)
    BY <1>2, <1>3, <2>1
  <2> QED BY <2>2
<1>4. s \in Injection(1..n, S)
  BY <1>2, <1>3 DEF Injection, IsInjective
<1>5. s \in Surjection(1..n, S)
  BY <1>1, <1>4, FS_Injection DEF n
<1>6. \A x \in S : \E i \in 1..n : s[i] = x
  BY <1>5 DEF Surjection
<1> QED BY <1>3, <1>6 DEF n

\* Rows that come before all the others of a set are the beginning of its sequence.
LEMMA SortedPrefix ==
    ASSUME NEW T, IsFiniteSet(T), Placed(T), NEW S \in SUBSET T, NEW a, NEW b, Ascending(a, S), Ascending(b, T),
           \A x \in S, y \in T \ S : ChainOrder(x, y)
    PROVE  /\ Cardinality(S) <= Cardinality(T)
           /\ \A i \in 1..Cardinality(S) : b[i] = a[i]
<1>1. IsFiniteSet(S) /\ Placed(S) /\ Cardinality(S) <= Cardinality(T)
  BY FS_Subset DEF Placed
<1> DEFINE n == Cardinality(S)
           m == Cardinality(T)
<1>2. n \in Nat /\ m \in Nat /\ n <= m
  BY <1>1, FS_CardinalityType
<1>3. /\ a \in [1..n -> S] /\ \A i, j \in 1..n : i < j => ChainOrder(a[i], a[j])
      /\ b \in [1..m -> T] /\ \A i, j \in 1..m : i < j => ChainOrder(b[i], b[j])
  BY DEF Ascending
<1>4. /\ \A i, j \in 1..n : a[i] = a[j] => i = j
      /\ \A i, j \in 1..m : b[i] = b[j] => i = j
      /\ \A x \in S : \E i \in 1..n : a[i] = x
      /\ \A x \in T : \E i \in 1..m : b[i] = x
  BY <1>1, SortedOnto
<1> HIDE DEF n, m
<1>5. SUFFICES ASSUME NEW w \in 1..n, b[w] # a[w] PROVE FALSE
  BY <1>1 DEF n
<1> DEFINE D == {i \in 1..n : b[i] # a[i]}
<1>6. D \in SUBSET Nat /\ w \in D
  BY <1>5
<1>7. PICK i \in D : \A k \in D : i <= k
  <2> HIDE DEF D
  <2> QED BY <1>6, LeastNumber
<1>8. i \in 1..n /\ i \in 1..m /\ b[i] # a[i] /\ \A k \in 1..(i - 1) : k \in 1..n /\ b[k] = a[k]
  BY <1>2, <1>7
<1>9. a[i] \in S /\ b[i] \in T
  BY <1>3, <1>8
<1>10. PICK j \in 1..m : b[j] = a[i]
  BY <1>4, <1>9
<1>11. i < j
  <2>1. j # i
    BY <1>8, <1>10
  <2>2. ~ (j < i)
    <3> SUFFICES ASSUME j < i PROVE FALSE
      OBVIOUS
    <3>1. j \in 1..(i - 1)
      BY <1>8
    <3>2. a[j] = a[i] /\ j \in 1..n
      BY <1>8, <1>10, <3>1
    <3> QED BY <1>4, <1>8, <2>1, <3>2
  <2> QED BY <1>8, <2>1, <2>2
<1>12. ChainOrder(b[i], a[i])
  BY <1>3, <1>8, <1>10, <1>11
<1>13. b[i] \in S
  <2> SUFFICES ASSUME b[i] \notin S PROVE FALSE
    OBVIOUS
  <2>1. ChainOrder(a[i], b[i])
    BY <1>9
  <2> QED BY <1>9, <1>12, <2>1, OneFirst
<1>14. PICK k \in 1..n : a[k] = b[i]
  BY <1>4, <1>13
<1>15. i < k
  <2>1. k # i
    BY <1>8, <1>14
  <2>2. ~ (k < i)
    <3> SUFFICES ASSUME k < i PROVE FALSE
      OBVIOUS
    <3>1. k \in 1..(i - 1)
      BY <1>8
    <3>2. b[k] = b[i] /\ k \in 1..m
      BY <1>2, <1>8, <1>14, <3>1
    <3> QED BY <1>4, <1>8, <2>1, <3>2
  <2> QED BY <1>8, <2>1, <2>2
<1>16. ChainOrder(a[i], b[i])
  BY <1>3, <1>8, <1>14, <1>15
<1> QED BY <1>9, <1>12, <1>16, OneFirst

\* An initial part that is not shorter is everything.
LEMMA NoLonger ==
    ASSUME NEW A, NEW s \in Seq(A), NEW t \in Seq(A), Len(s) <= Len(t), SubSeq(t, 1, Len(s)) = s
    PROVE  Len(t) > Len(s) \/ t = s
<1>1. SUFFICES ASSUME Len(t) = Len(s) PROVE t = s
  OBVIOUS
<1>2. \A i \in 1..Len(s) : SubSeq(t, 1, Len(s))[i] = t[i]
  BY <1>1
<1> QED BY <1>1, <1>2, SeqEqual

\* No rows, no leaves.
LEMMA EmptyTree == StateTree({}) = <<>>
<1>1. IsFiniteSet({}) /\ Placed({}) /\ Cardinality({}) = 0
  BY FS_EmptySet DEF Placed
<1>2. Ordered({}) \in [1..0 -> {}]
  BY <1>1, OrderedAscends DEF Ascending
<1>3. StateTree({}) = [i \in 1..0 |-> Ordered({})[i].leaf]
  BY <1>2 DEF StateTree, LeavesOf
<1> QED BY <1>3

\* A tree holds a leaf for each row, and the tree of the rows that come first is its beginning.
LEMMA TreePrefix ==
    ASSUME NEW T, IsFiniteSet(T), Placed(T), NEW A, \A x \in T : x.leaf \in A, NEW S \in SUBSET T,
           \A x \in S, y \in T \ S : ChainOrder(x, y)
    PROVE  /\ StateTree(S) \in Seq(A) /\ StateTree(T) \in Seq(A)
           /\ Len(StateTree(S)) <= Len(StateTree(T))
           /\ SubSeq(StateTree(T), 1, Len(StateTree(S))) = StateTree(S)
<1>1. IsFiniteSet(S) /\ Placed(S)
  BY FS_Subset DEF Placed
<1> DEFINE n == Cardinality(S)
           m == Cardinality(T)
           a == Ordered(S)
           b == Ordered(T)
<1>2. n \in Nat /\ m \in Nat
  BY <1>1, FS_CardinalityType
<1>3. Ascending(a, S) /\ Ascending(b, T)
  BY <1>1, OrderedAscends
<1>4. n <= m /\ \A i \in 1..n : b[i] = a[i]
  BY <1>3, SortedPrefix
<1>5. a \in [1..n -> S] /\ b \in [1..m -> T]
  BY <1>3 DEF Ascending
<1>6. StateTree(S) = [i \in 1..n |-> a[i].leaf] /\ StateTree(T) = [i \in 1..m |-> b[i].leaf]
  BY <1>5 DEF StateTree, LeavesOf
<1> HIDE DEF n, m, a, b
<1>7. /\ \A i \in 1..n : a[i].leaf \in A
      /\ \A i \in 1..m : b[i].leaf \in A
  BY <1>5
<1>8. /\ StateTree(S) \in Seq(A) /\ Len(StateTree(S)) = n
      /\ StateTree(T) \in Seq(A) /\ Len(StateTree(T)) = m
  <2>1. StateTree(S) \in Seq(A) /\ Len(StateTree(S)) = n
    BY <1>2, <1>6, <1>7
  <2>2. StateTree(T) \in Seq(A) /\ Len(StateTree(T)) = m
    BY <1>2, <1>6, <1>7
  <2> QED BY <2>1, <2>2
<1>9. SubSeq(StateTree(T), 1, n) = StateTree(S)
  <2> DEFINE s == StateTree(S)
             t == StateTree(T)
  <2>1. \A i \in 1..n : t[i] = s[i]
    BY <1>2, <1>4, <1>6
  <2>2. s \in Seq(A) /\ t \in Seq(A) /\ Len(s) = n /\ Len(t) = m
    BY <1>8
  <2> HIDE DEF s, t
  <2>3. /\ SubSeq(t, 1, n) \in Seq(A) /\ Len(SubSeq(t, 1, n)) = n
        /\ \A i \in 1..n : SubSeq(t, 1, n)[i] = t[i]
    BY <1>2, <1>4, <2>2
  <2>4. SubSeq(t, 1, n) = s
    BY <2>1, <2>2, <2>3, SeqEqual
  <2> QED BY <2>4 DEF s, t
<1> QED BY <1>4, <1>8, <1>9

\* The logs of finitely many blocks are finitely many.
LEMMA SpanFinite ==
    ASSUME NEW c \in Seq(Bodies), NEW b \in Nat
    PROVE  IsFiniteSet(LogsIn(c, 1, b))
<1> DEFINE D == {k \in Nat : ~IsFiniteSet(LogsIn(c, 1, k))}
<1>1. SUFFICES ASSUME b \in D PROVE FALSE
  OBVIOUS
<1>2. PICK k \in D : \A j \in D : k <= j
  <2>1. D \in SUBSET Nat
    OBVIOUS
  <2> HIDE DEF D
  <2> QED BY <1>1, <2>1, LeastNumber
<1>3. k # 0
  <2>1. LogsIn(c, 1, 0) = {}
    BY DEF LogsIn
  <2> QED BY <1>2, <2>1, FS_EmptySet
<1>4. k - 1 \in Nat /\ IsFiniteSet(LogsIn(c, 1, k - 1))
  <2>1. k - 1 \in Nat /\ ~ (k <= k - 1)
    BY <1>2, <1>3
  <2> QED BY <1>2, <2>1
<1> DEFINE last == {l \in LogsIn(c, 1, k) : l.block = k}
<1>5. IsFiniteSet(last)
  <2>1. CASE k \in 1..Len(c)
    <3> DEFINE body == c[k]
               at == [i \in 1..Len(body) |-> [leaf |-> body[i], block |-> k, index |-> i]]
               image == {at[i] : i \in 1..Len(body)}
    <3>1. body \in Seq(Leaves \cup {Other})
      BY <2>1, PoolAssumption
    <3>2. Len(body) \in Nat /\ DOMAIN body = 1..Len(body)
      BY <3>1
    <3>3. at \in Surjection(1..Len(body), image)
      BY DEF Surjection
    <3>4. IsFiniteSet(image)
      <4>1. IsFiniteSet(1..Len(body))
        BY <3>2, FS_Interval
      <4> HIDE DEF at, image, body
      <4> QED BY <3>3, <4>1, FS_Surjection
    <3>5. last \subseteq image
      <4> SUFFICES ASSUME NEW l \in last PROVE l \in image
        OBVIOUS
      <4>1. PICK n, i : n \in 1..Len(c) /\ i \in DOMAIN c[n] /\ l = [leaf |-> c[n][i], block |-> n, index |-> i]
        BY <1>2, SpanLogs
      <4>2. n = k
        BY <4>1
      <4> QED BY <3>2, <4>1, <4>2
    <3> QED BY <3>4, <3>5, FS_Subset
  <2>2. CASE k \notin 1..Len(c)
    <3>1. last = {}
      BY <1>2, <2>2, SpanLeaf
    <3> QED BY <3>1, FS_EmptySet
  <2> QED BY <2>1, <2>2
<1>6. LogsIn(c, 1, k) \subseteq LogsIn(c, 1, k - 1) \cup last
  <2> SUFFICES ASSUME NEW l \in LogsIn(c, 1, k), l.block # k PROVE l \in LogsIn(c, 1, k - 1)
    OBVIOUS
  <2>1. k \in Nat /\ l.block \in Nat /\ 1 <= l.block /\ l.block <= k
    BY <1>2, SpanLeaf
  <2> QED BY <1>4, <2>1, SpanOf
<1>7. IsFiniteSet(LogsIn(c, 1, k))
  <2> HIDE DEF last
  <2> QED BY <1>4, <1>5, <1>6, FS_Union, FS_Subset
<1> QED BY <1>2, <1>7

\* The rows of a chain have places of their own, and are finitely many.
LEMMA LeavesPlaced ==
    ASSUME NEW c \in Seq(Bodies), NEW b \in Nat
    PROVE  /\ IsFiniteSet(LeavesIn(c, 1, b)) /\ Placed(LeavesIn(c, 1, b))
           /\ \A x \in LeavesIn(c, 1, b) : x.leaf \in Leaves /\ 1 <= x.block /\ x.block <= b
<1>1. IsFiniteSet(LeavesIn(c, 1, b))
  BY SpanFinite, FS_Subset DEF LeavesIn
<1>2. ASSUME NEW x \in LeavesIn(c, 1, b)
      PROVE  x.leaf \in Leaves /\ x.block \in Nat /\ x.index \in Nat /\ 1 <= x.block /\ x.block <= b
  <2>1. x \in LogsIn(c, 1, b) /\ x.leaf # Other
    BY DEF LeavesIn
  <2> QED BY <2>1, SpanLeaf
<1>3. ASSUME NEW x \in LeavesIn(c, 1, b), NEW y \in LeavesIn(c, 1, b), x.block = y.block, x.index = y.index
      PROVE  x = y
  <2>1. PICK n, i : n \in 1..Len(c) /\ x = [leaf |-> c[n][i], block |-> n, index |-> i]
    BY SpanLogs DEF LeavesIn
  <2>2. PICK p, q : p \in 1..Len(c) /\ y = [leaf |-> c[p][q], block |-> p, index |-> q]
    BY SpanLogs DEF LeavesIn
  <2> QED BY <1>3, <2>1, <2>2
<1> QED BY <1>1, <1>2, <1>3 DEF Placed

\* The leaves up to a block come before the others.
LEMMA EarlierFirst ==
    ASSUME NEW c \in Seq(Bodies), NEW k \in Nat, NEW b \in Nat, k <= b \/ b = Len(c)
    PROVE  /\ LeavesIn(c, 1, k) \subseteq LeavesIn(c, 1, b)
           /\ \A x \in LeavesIn(c, 1, k), y \in LeavesIn(c, 1, b) \ LeavesIn(c, 1, k) : ChainOrder(x, y)
<1>1. ASSUME NEW x \in LeavesIn(c, 1, k) PROVE x \in LeavesIn(c, 1, b)
  <2>1. x \in LogsIn(c, 1, k) /\ x.leaf # Other
    BY DEF LeavesIn
  <2>2. x.block \in 1..Len(c) /\ x.block <= k
    BY <2>1, SpanLeaf
  <2>3. x.block \in Nat /\ 1 <= x.block /\ x.block <= b
    BY <2>2
  <2> QED BY <2>1, <2>3, SpanOf DEF LeavesIn
<1>2. ASSUME NEW x \in LeavesIn(c, 1, k), NEW y \in LeavesIn(c, 1, b) \ LeavesIn(c, 1, k)
      PROVE  ChainOrder(x, y)
  <2>1. y \in LogsIn(c, 1, b) /\ y.leaf # Other /\ y \notin LogsIn(c, 1, k) /\ x \in LogsIn(c, 1, k)
    BY DEF LeavesIn
  <2>2. y.block \in Nat /\ 1 <= y.block /\ x.block \in Nat /\ x.block <= k
    BY <2>1, SpanLeaf
  <2>3. ~ (y.block <= k)
    BY <2>1, <2>2, SpanOf
  <2> QED BY <2>2, <2>3 DEF ChainOrder
<1> QED BY <1>1, <1>2

-----------------------------------------------------------------------------
\* A commit leaves the trees alone or adds to their end.
LEMMA CommitAppends ==
    ASSUME MirrorInv, TickCommit
    PROVE  [StateMirror!Insert]_(StateTree(rows)) /\ [AspMirror!Insert]_(AspTree(rows))
<1> DEFINE Asp(rs) == {r \in rs : r.leaf \in DepositLeaves}
<1>1. /\ chain \in Seq(Bodies) /\ chain' = chain /\ cursor \in Nat /\ cursor' \in Nat /\ cursor <= cursor'
      /\ rows = LeavesIn(chain, 1, cursor)
  BY DEF TickCommit, blockVars, MirrorInv, ChainInv, SpanInv
<1>2. rows' = LeavesIn(chain, 1, cursor')
  BY <1>1, CommitKeeps DEF MirrorInv
<1>3. /\ IsFiniteSet(rows') /\ Placed(rows') /\ (\A x \in rows' : x.leaf \in Leaves)
      /\ rows \in SUBSET rows' /\ \A x \in rows, y \in rows' \ rows : ChainOrder(x, y)
  BY <1>1, <1>2, LeavesPlaced, EarlierFirst
<1>4. /\ IsFiniteSet(Asp(rows')) /\ Placed(Asp(rows')) /\ (\A x \in Asp(rows') : x.leaf \in DepositLeaves)
      /\ Asp(rows) \in SUBSET Asp(rows')
      /\ \A x \in Asp(rows), y \in Asp(rows') \ Asp(rows) : ChainOrder(x, y)
  BY <1>3, FS_Subset DEF Placed
<1> DEFINE s == StateTree(rows)
           t == StateTree(rows')
           u == StateTree(Asp(rows))
           v == StateTree(Asp(rows'))
<1>5. /\ s \in Seq(Leaves) /\ t \in Seq(Leaves) /\ Len(s) <= Len(t) /\ SubSeq(t, 1, Len(s)) = s
  BY <1>3, TreePrefix
<1>6. /\ u \in Seq(DepositLeaves) /\ v \in Seq(DepositLeaves) /\ Len(u) <= Len(v) /\ SubSeq(v, 1, Len(u)) = u
  <2> HIDE DEF Asp
  <2> QED BY <1>4, TreePrefix
<1>7. StateTree(rows)' = t /\ AspTree(rows) = u /\ AspTree(rows)' = v
  BY DEF AspTree, StateTree
<1> HIDE DEF s, t, u, v, Asp
<1>8. (Len(t) > Len(s) \/ t = s) /\ (Len(v) > Len(u) \/ v = u)
  BY <1>5, <1>6, NoLonger
<1> QED BY <1>5, <1>6, <1>7, <1>8 DEF StateMirror!Insert, AspMirror!Insert, s

\* PoolMirror implements AppendOnlyTree twice: what a reader builds from the rows, over every commitment
\* and over the deposits' labels, only ever grows at its end, through reorganisations and failed ticks.
THEOREM TreesOnlyAppend == MirrorSpec => TreesAppend
<1>1. MirrorInit => StateMirror!Init /\ AspMirror!Init
  <2> SUFFICES ASSUME MirrorInit PROVE StateMirror!Init /\ AspMirror!Init
    OBVIOUS
  <2>1. rows = {} /\ {r \in rows : r.leaf \in DepositLeaves} = {}
    BY DEF MirrorInit
  <2>2. StateTree({}) = <<>>
    BY EmptyTree
  <2> QED BY <2>1, <2>2 DEF StateMirror!Init, AspMirror!Init, AspTree, StateTree
<1>2. MirrorInv /\ [MirrorNext]_mirrorVars
        => [StateMirror!Insert]_(StateTree(rows)) /\ [AspMirror!Insert]_(AspTree(rows))
  <2> SUFFICES ASSUME MirrorInv, [MirrorNext]_mirrorVars
               PROVE  [StateMirror!Insert]_(StateTree(rows)) /\ [AspMirror!Insert]_(AspTree(rows))
    OBVIOUS
  <2>1. CASE TickCommit
    BY <2>1, CommitAppends
  <2>2. CASE ~TickCommit
    <3>1. rows' = rows
      BY <2>2 DEF MirrorNext, Tick, NewBlock, Reorg, TickNothingNew, TickRead, TickFails, Restart,
             StateReadsRows, StateReadsRoots, mirrorVars
    <3> QED BY <3>1
  <2> QED BY <2>1, <2>2
<1> QED BY <1>1, <1>2, MirrorAlways, PTL DEF MirrorSpec, TreesAppend, StateMirror!Spec, AspMirror!Spec

-----------------------------------------------------------------------------
(***************************************************************************)
(* An answer.  Its leaves were read before its root, but they are those of *)
(* a past that no reorganisation replaces: still the beginning of whatever *)
(* tree the contract holds when its root is read.                          *)
(***************************************************************************)
AnswerInv ==
    /\ DOMAIN answer = {"leaves", "stateRoot", "synced", "stage"}
    /\ answer.stage = "rows" =>
          \E k \in Nat : /\ k <= final \/ k < StartBlock
                         /\ answer.leaves = StateTree(LeavesIn(chain, 1, k))
    /\ answer.stage = "sent" => IsPrefix(answer.leaves, answer.stateRoot)

\* The contract's tree is the tree of all its leaves.
LEMMA ContractTree == TreeOf(chain) = StateTree(LeavesIn(chain, 1, Len(chain)))
BY Zenon DEF TreeOf, StateTree, Ordered, Sorted, LeavesIn, Before, ChainOrder

\* The rows are read: leaves up to the cursor.
LEMMA RowsRead ==
    ASSUME MirrorInv, AnswerInv, StateReadsRows
    PROVE  AnswerInv'
<1>1. /\ UNCHANGED <<chain, final>> /\ cursor \in Nat /\ rows = LeavesIn(chain, 1, cursor)
      /\ cursor <= final \/ cursor < StartBlock
  BY PoolAssumption DEF StateReadsRows, blockVars, MirrorInv, SpanInv
<1>2. /\ answer'.leaves = StateTree(rows) /\ answer'.stage = "rows"
      /\ DOMAIN answer' = {"leaves", "stateRoot", "synced", "stage"}
  BY DEF StateReadsRows, AnswerInv
<1>3. LeavesIn(chain', 1, cursor) = LeavesIn(chain, 1, cursor)
  BY <1>1 DEF LeavesIn, LogsIn
<1>4. answer'.leaves = StateTree(LeavesIn(chain', 1, cursor))
  BY <1>1, <1>2, <1>3
<1>5. \E k \in Nat : /\ k <= final' \/ k < StartBlock
                     /\ answer'.leaves = StateTree(LeavesIn(chain', 1, k))
  BY <1>1, <1>4
<1> QED BY <1>2, <1>5 DEF AnswerInv, StateTree, LeavesIn

\* The contract's root is read beside them.
LEMMA RootRead ==
    ASSUME MirrorInv, AnswerInv, StateReadsRoots
    PROVE  AnswerInv'
<1>1. /\ answer'.leaves = answer.leaves /\ answer'.stateRoot = TreeOf(chain) /\ answer'.stage = "sent"
      /\ DOMAIN answer' = {"leaves", "stateRoot", "synced", "stage"}
      /\ answer.stage = "rows"
  BY DEF StateReadsRoots, AnswerInv
<1>2. PICK k \in Nat : answer.leaves = StateTree(LeavesIn(chain, 1, k))
  BY <1>1 DEF AnswerInv
<1> DEFINE S == LeavesIn(chain, 1, k)
           T == LeavesIn(chain, 1, Len(chain))
<1>3. chain \in Seq(Bodies) /\ Len(chain) \in Nat
  BY DEF MirrorInv, ChainInv
<1>4. /\ IsFiniteSet(T) /\ Placed(T) /\ (\A x \in T : x.leaf \in Leaves)
      /\ S \in SUBSET T /\ \A x \in S, y \in T \ S : ChainOrder(x, y)
  BY <1>3, LeavesPlaced, EarlierFirst
<1> HIDE DEF S, T
<1> DEFINE s == StateTree(S)
           t == StateTree(T)
<1>5. /\ s \in Seq(Leaves) /\ t \in Seq(Leaves) /\ Len(s) <= Len(t) /\ SubSeq(t, 1, Len(s)) = s
  BY <1>4, TreePrefix
<1>6. answer'.leaves = s /\ answer'.stateRoot = t
  BY <1>1, <1>2, ContractTree DEF S, T
<1> HIDE DEF s, t
<1>7. SubSeq(s, 1, Len(s)) = s
  BY <1>5
<1>8. IsPrefix(s, t)
  BY <1>5, <1>7 DEF IsPrefix
<1> QED BY <1>1, <1>6, <1>8 DEF AnswerInv

\* What has been read for an answer survives what the chain does meanwhile.
LEMMA AnswerWaits ==
    ASSUME MirrorInv, AnswerInv, NewBlock \/ Reorg
    PROVE  AnswerInv'
<1>1. ChainInv /\ final <= final' /\ final \in Nat /\ final' \in Nat
  BY ChainKeeps DEF MirrorInv, ChainInv
<1>2. answer' = answer
  BY DEF NewBlock, Reorg
<1>3. ASSUME NEW k \in Nat, k <= final \/ k < StartBlock, answer.leaves = StateTree(LeavesIn(chain, 1, k))
      PROVE  (k <= final' \/ k < StartBlock) /\ answer.leaves = StateTree(LeavesIn(chain', 1, k))
  <2>1. LeavesIn(chain', 1, k) = LeavesIn(chain, 1, k)
    BY <1>1, <1>3, PastKeeps
  <2> QED BY <1>1, <1>3, <2>1
<1>4. answer'.stage = "rows" =>
          \E k \in Nat : (k <= final' \/ k < StartBlock) /\ answer'.leaves = StateTree(LeavesIn(chain', 1, k))
  BY <1>2, <1>3 DEF AnswerInv
<1>5. /\ DOMAIN answer' = {"leaves", "stateRoot", "synced", "stage"}
      /\ answer'.stage = "sent" => IsPrefix(answer'.leaves, answer'.stateRoot)
  BY <1>2 DEF AnswerInv
<1> QED BY <1>4, <1>5 DEF AnswerInv, StateTree, LeavesIn

\* A step of the indexer does not touch an answer.
LEMMA AnswerKept ==
    ASSUME AnswerInv, UNCHANGED <<answer, chain, final>>
    PROVE  AnswerInv'
BY DEF AnswerInv, LeavesIn, LogsIn

\* state(): the leaves served are a prefix of the tree whose root is served beside them, although
\* they are read at different times, with blocks, reorganisations and ticks in between.
THEOREM AnswersArePrefixes == MirrorSpec => []ServedIsPrefix
<1>1. MirrorInit => AnswerInv
  BY DEF MirrorInit, NoAnswer, AnswerInv
<1>2. MirrorInv /\ AnswerInv /\ [MirrorNext]_mirrorVars => AnswerInv'
  <2> SUFFICES ASSUME MirrorInv, AnswerInv, [MirrorNext]_mirrorVars PROVE AnswerInv'
    OBVIOUS
  <2>1. CASE NewBlock \/ Reorg
    BY <2>1, AnswerWaits
  <2>2. CASE StateReadsRows
    BY <2>2, RowsRead
  <2>3. CASE StateReadsRoots
    BY <2>3, RootRead
  <2>4. CASE TickNothingNew \/ TickRead \/ TickCommit \/ TickFails \/ UNCHANGED mirrorVars
    BY <2>4, AnswerKept DEF TickNothingNew, TickRead, TickCommit, TickFails, mirrorVars, blockVars
  <2>5. CASE Restart
    BY <2>5 DEF Restart, NoAnswer, AnswerInv
  <2> QED BY <2>1, <2>2, <2>3, <2>4, <2>5 DEF MirrorNext, Tick
<1>3. AnswerInv => ServedIsPrefix
  BY DEF AnswerInv, ServedIsPrefix
<1> QED BY <1>1, <1>2, <1>3, MirrorAlways, PTL DEF MirrorSpec
=============================================================================
