----------------------------- MODULE RelayQueue -----------------------------
(***************************************************************************)
(* The gas relay's sending path: submit, submitPermit, sendFromRelayer,    *)
(* simulateAndSend, enqueue and the Redis counters of                      *)
(* src/relay/relay.service.ts.                                             *)
(*                                                                         *)
(* One key pays for everybody, so every send goes through one promise      *)
(* chain: simulate, read the nonce, broadcast, record the spend.  What     *)
(* comes before the chain (the account's rate, the day's cap, the          *)
(* forwarder's verification of the signature) runs concurrently, and       *)
(* mining goes on in the meantime.  A submission that costs one unit is    *)
(* charged one unit.                                                       *)
(***************************************************************************)
EXTENDS Integers, FiniteSets, Sequences, Functions, SequencesExt

CONSTANTS
    Submissions,   \* calls to the relay
    Kind,          \* Kind[s]: "trade", "permit", or "own" for a call of the platform's
    Request,       \* Request[s]: what was signed; two submissions may carry the same
    Account,       \* Account[s]: who signed
    AccountLimit,  \* RELAY_ACCOUNT_LIMIT
    DailyCap,      \* RELAY_DAILY_CAP_WEI
    MaxDays,       \* bound
    MaxFaults      \* bound: calls to the node or to Redis that fail

ASSUME RelayAssumption ==
    /\ Kind \in [Submissions -> {"trade", "permit", "own"}]
    /\ DOMAIN Account = Submissions
    /\ {AccountLimit, DailyCap, MaxDays} \subseteq Nat \ {0} /\ MaxFaults \in Nat

Accounts == Range(Account)
Days == 1..MaxDays

VARIABLES
    \* the service
    pc,         \* pc[s]: where the submission is
    queue,      \* the promise chain; its head runs
    nonce,      \* nonce[s]: the nonce its transaction is signed with
    \* Redis
    rate,       \* rate[a]: relay:rate: and the account
    expiring,   \* expiring[a]: that key has a time to live
    spent,      \* spent[d]: relay:spend: and the day
    day,        \* today
    \* the chain
    accepted,   \* submissions whose transactions the node took, in nonce order
    mined,      \* how many of them are mined
    fate,       \* fate[s]: what became of its transaction
    \* history
    raced,      \* submissions simulated while a copy of their request was pending
    locked,     \* accounts whose EXPIRE was lost
    uncharged,  \* broadcasts whose charge was lost
    faults

redisVars == <<rate, expiring, spent, day>>
chainVars == <<accepted, mined, fate>>
historyVars == <<raced, locked, uncharged>>
vars == <<pc, queue, nonce, redisVars, chainVars, historyVars, faults>>

InTurn == {"queued", "simulated", "signed", "sent"}
PCs == InTurn \cup {"new", "first", "counted", "capped", "done", "rejected"}
Fates == {"none", "dropped", "success", "reverted", "replayed"}

Pending == {accepted[i] : i \in mined + 1..Len(accepted)}
Consumed == {Request[s] : s \in {x \in Submissions : fate[x] = "success"}}

-----------------------------------------------------------------------------
Init ==
    /\ pc = [s \in Submissions |-> "new"] /\ queue = <<>> /\ nonce = [s \in Submissions |-> 0]
    /\ rate = [a \in Accounts |-> 0] /\ expiring = [a \in Accounts |-> FALSE]
    /\ spent = [d \in Days |-> 0] /\ day = 1
    /\ accepted = <<>> /\ mined = 0 /\ fate = [s \in Submissions |-> "none"]
    /\ raced = {} /\ locked = {} /\ uncharged = 0 /\ faults = 0

\* The account's rate is checked for what an account signed, by its key for a permit.
Rated(s) == Kind[s] # "own"
\* The forwarder verifies signed requests: trades, proposals and disputes.
Verified(s) == Kind[s] = "trade"

Move(s, to) == pc' = [pc EXCEPT ![s] = to]
\* The head of the chain is done, however it ended.
Finish(s, to) == Move(s, to) /\ queue' = Tail(queue)

-----------------------------------------------------------------------------
\* The next transaction in nonce order is mined.  A request executes once; one that is fresh may
\* still revert because the market moved.  (External)
Mine ==
    /\ mined < Len(accepted)
    /\ mined' = mined + 1
    /\ LET s == accepted[mined + 1]
       IN  \E f \in IF Request[s] \in Consumed THEN {"replayed"} ELSE {"success", "reverted"} :
              fate' = [fate EXCEPT ![s] = f]
    /\ UNCHANGED <<pc, queue, nonce, redisVars, accepted, historyVars, faults>>

\* Midnight, UTC.
Midnight ==
    /\ day < MaxDays /\ day' = day + 1
    /\ UNCHANGED <<pc, queue, nonce, rate, expiring, spent, chainVars, historyVars, faults>>

\* Redis drops a rate counter whose window is over.
WindowEnds ==
    /\ \E a \in Accounts :
          /\ expiring[a]
          /\ rate' = [rate EXCEPT ![a] = 0] /\ expiring' = [expiring EXCEPT ![a] = FALSE]
    /\ UNCHANGED <<pc, queue, nonce, spent, day, chainVars, historyVars, faults>>

-----------------------------------------------------------------------------
\* EXPIRE sent by whoever reaches the limit.
CountExpiringLate ==
    /\ \E s \in Submissions :
          /\ pc[s] = "new" /\ Rated(s)
          /\ LET count == rate[Account[s]] + 1
             IN  /\ rate' = [rate EXCEPT ![Account[s]] = count]
                 /\ Move(s, IF count = AccountLimit + 1 THEN "first"
                            ELSE IF count > AccountLimit THEN "rejected" ELSE "counted")
    /\ UNCHANGED <<queue, nonce, expiring, spent, day, chainVars, historyVars, faults>>
\* enforceAccountRate(): INCR; the first of a window goes on to EXPIRE, one over the limit is
\* refused.
Count ==
    /\ \E s \in Submissions :
          /\ pc[s] = "new" /\ Rated(s)
          /\ LET count == rate[Account[s]] + 1
             IN  /\ rate' = [rate EXCEPT ![Account[s]] = count]
                 /\ Move(s, IF count = 1 THEN "first"
                            ELSE IF count > AccountLimit THEN "rejected" ELSE "counted")
    /\ UNCHANGED <<queue, nonce, expiring, spent, day, chainVars, historyVars, faults>>

\* enforceAccountRate(): EXPIRE.
Expire ==
    /\ \E s \in Submissions :
          /\ pc[s] = "first" /\ Move(s, "counted")
          /\ expiring' = [expiring EXCEPT ![Account[s]] = TRUE]
    /\ UNCHANGED <<queue, nonce, rate, spent, day, chainVars, historyVars, faults>>

\* The promise chain: a submission joins at its end.
Enqueue(s) == Move(s, "queued") /\ queue' = Append(queue, s)

\* enforceDailyCap(): the day's recorded spend against the cap.  A trade is then verified; a permit
\* and a call of the platform's join the queue.
Cap ==
    /\ \E s \in Submissions :
          /\ pc[s] = IF Rated(s) THEN "counted" ELSE "new"
          /\ IF spent[day] >= DailyCap THEN Move(s, "rejected") /\ UNCHANGED queue
             ELSE IF Verified(s) THEN Move(s, "capped") /\ UNCHANGED queue
             ELSE Enqueue(s)
    /\ UNCHANGED <<nonce, redisVars, chainVars, historyVars, faults>>

\* verifyRelayable: the forwarder's opinion, on the latest block; a node that does not answer
\* counts as a no.
Verify ==
    /\ \E s \in Submissions :
          /\ pc[s] = "capped"
          /\ \/ Request[s] \notin Consumed /\ Enqueue(s)
             \/ Move(s, "rejected") /\ UNCHANGED queue
    /\ UNCHANGED <<nonce, redisVars, chainVars, historyVars, faults>>

\* Every submission starting at once.
RunsAtOnce(s) == TRUE
\* enqueue(): a submission runs when those before it are done, however they ended.
Runs(s) == queue # <<>> /\ Head(queue) = s

\* Sent without a simulation.
SimulateSkipped ==
    /\ \E s \in Submissions :
          /\ pc[s] = "queued" /\ Runs(s) /\ Move(s, "simulated")
          /\ raced' = IF Request[s] \in {Request[x] : x \in Pending} THEN raced \cup {s} ELSE raced
    /\ UNCHANGED <<queue, nonce, redisVars, chainVars, locked, uncharged, faults>>
\* simulateAndSend(): a call that would revert on the latest block is dropped for free, as is one
\* that needs more gas than gasFor() allows.
Simulate ==
    /\ \E s \in Submissions :
          /\ pc[s] = "queued" /\ Runs(s)
          /\ \/ /\ Request[s] \notin Consumed
                /\ Move(s, "simulated") /\ UNCHANGED queue
                /\ raced' = IF Request[s] \in {Request[x] : x \in Pending} THEN raced \cup {s} ELSE raced
             \/ Finish(s, "rejected") /\ UNCHANGED raced
    /\ UNCHANGED <<nonce, redisVars, chainVars, locked, uncharged, faults>>

\* sendTransaction: the nonce is the account's transaction count, pending ones included.
ReadNonce ==
    /\ \E s \in Submissions :
          /\ pc[s] = "simulated" /\ Runs(s) /\ Move(s, "signed")
          /\ nonce' = [nonce EXCEPT ![s] = Len(accepted)]
    /\ UNCHANGED <<queue, redisVars, chainVars, historyVars, faults>>

\* sendTransaction: the node takes the transaction, or drops one whose nonce is taken.
Broadcast ==
    /\ \E s \in Submissions :
          /\ pc[s] = "signed" /\ Runs(s)
          /\ IF nonce[s] = Len(accepted)
             THEN accepted' = Append(accepted, s) /\ Move(s, "sent") /\ UNCHANGED <<queue, fate>>
             ELSE Finish(s, "rejected") /\ fate' = [fate EXCEPT ![s] = "dropped"] /\ UNCHANGED accepted
    /\ UNCHANGED <<nonce, redisVars, mined, historyVars, faults>>

\* recordSpend(): INCRBY on the key of the day it is by now.
Record ==
    /\ \E s \in Submissions : pc[s] = "sent" /\ Runs(s) /\ Finish(s, "done")
    /\ spent' = [spent EXCEPT ![day] = @ + 1]
    /\ UNCHANGED <<nonce, rate, expiring, day, chainVars, historyVars, faults>>

-----------------------------------------------------------------------------
\* A step of the chain that failed charged all the same.
FailsCharged ==
    /\ faults < MaxFaults /\ faults' = faults + 1
    /\ \E s \in Submissions : pc[s] \in InTurn \ {"queued"} /\ Runs(s) /\ Finish(s, "rejected")
    /\ spent' = [spent EXCEPT ![day] = @ + 1]
    /\ UNCHANGED <<nonce, rate, expiring, day, chainVars, historyVars>>
\* A failure that stays in the chain.
FailsStuck ==
    /\ faults < MaxFaults /\ faults' = faults + 1
    /\ \E s \in Submissions :
          /\ pc[s] \in InTurn \ {"queued"} /\ Runs(s) /\ Move(s, "rejected")
          /\ uncharged' = uncharged + (IF pc[s] = "sent" THEN 1 ELSE 0)
    /\ UNCHANGED <<queue, nonce, redisVars, chainVars, raced, locked>>
\* The node fails before the broadcast, or Redis after it: the submission is rejected, and in the
\* second case its transaction is out and the charge lost.
Fails ==
    /\ faults < MaxFaults /\ faults' = faults + 1
    /\ \E s \in Submissions :
          /\ pc[s] \in InTurn \ {"queued"} /\ Runs(s) /\ Finish(s, "rejected")
          /\ uncharged' = uncharged + (IF pc[s] = "sent" THEN 1 ELSE 0)
    /\ UNCHANGED <<nonce, redisVars, chainVars, raced, locked>>

\* The node took the transaction and its answer is lost.
AnswerLost ==
    /\ faults < MaxFaults /\ faults' = faults + 1
    /\ \E s \in Submissions :
          /\ pc[s] = "signed" /\ Runs(s) /\ nonce[s] = Len(accepted)
          /\ accepted' = Append(accepted, s) /\ Finish(s, "rejected")
    /\ uncharged' = uncharged + 1
    /\ UNCHANGED <<nonce, redisVars, mined, fate, raced, locked>>

\* Redis counts the charge and then fails, before EXPIRE or its answer: the submission is rejected
\* although it was sent and charged.
RecordUnanswered ==
    /\ faults < MaxFaults /\ faults' = faults + 1
    /\ \E s \in Submissions : pc[s] = "sent" /\ Runs(s) /\ Finish(s, "rejected")
    /\ spent' = [spent EXCEPT ![day] = @ + 1]
    /\ UNCHANGED <<nonce, rate, expiring, day, chainVars, historyVars>>

\* Redis, or the process serving the submission, fails between INCR and EXPIRE.
ExpireLost ==
    /\ faults < MaxFaults /\ faults' = faults + 1
    /\ \E s \in Submissions :
          /\ pc[s] = "first" /\ Move(s, "rejected")
          /\ locked' = locked \cup {Account[s]}
    /\ UNCHANGED <<queue, nonce, redisVars, chainVars, raced, uncharged>>

Service == Count \/ Expire \/ Cap \/ Verify \/ Simulate \/ ReadNonce \/ Broadcast \/ Record
Failure == Fails \/ AnswerLost \/ RecordUnanswered \/ ExpireLost
Next == Service \/ Failure \/ Mine \/ Midnight \/ WindowEnds
Spec == Init /\ [][Next]_vars

\* The event loop runs whatever can run: each call to the node or to Redis comes back.
FairSpec == Spec /\ WF_vars(Service)

-----------------------------------------------------------------------------
(***************************************************************************)
(* Properties                                                              *)
(***************************************************************************)
\* The types of the state, and the queue's discipline: the promise chain holds the admitted
\* submissions that are not answered, each once, and only its head is being sent.
TypeOK ==
    /\ pc \in [Submissions -> PCs] /\ nonce \in [Submissions -> Nat]
    /\ queue \in Seq(Submissions) /\ IsInjective(queue)
    /\ ToSet(queue) = {s \in Submissions : pc[s] \in InTurn}
    /\ \A s \in Submissions : pc[s] \in InTurn \ {"queued"} => s = Head(queue)
    /\ rate \in [Accounts -> Nat] /\ expiring \in [Accounts -> BOOLEAN]
    /\ spent \in [Days -> Nat] /\ day \in Days
    /\ accepted \in Seq(Submissions) /\ IsInjective(accepted) /\ mined \in 0..Len(accepted)
    /\ fate \in [Submissions -> Fates]
    /\ raced \subseteq Submissions /\ locked \subseteq Accounts
    /\ uncharged \in 0..faults /\ faults \in 0..MaxFaults

\* "Two concurrent sends from one EOA race on the nonce": they never do, whatever failed before and
\* whichever answer was lost; no transaction is dropped because its nonce was taken.
NoNonceRace == \A s \in Submissions : fate[s] # "dropped"

\* Every broadcast is charged to some day's key, once, and nothing else is: what was sent is what
\* is recorded, what is about to be recorded, and the charges that a failure lost.
ChargesAccounted ==
    Len(accepted) = SumFunctionOnSet(spent, Days)
                    + Cardinality({s \in Submissions : pc[s] = "sent"}) + uncharged

\* The relay pays for a request that was already executed only in one case: its copy was still
\* pending when it was simulated.  (The promise chain orders sends; it does not wait for blocks.)
ReplaysRaced == \A s \in Submissions : fate[s] = "replayed" => s \in raced

\* A rate counter ends: one without a time to live is about to get it, unless the call that sets it
\* was lost, in which case the account stays locked out.
WindowsEnd ==
    \A a \in Accounts \ locked :
        rate[a] > 0 => expiring[a] \/ \E s \in Submissions : pc[s] = "first" /\ Account[s] = a

\* A submission that is admitted is answered: the promise chain drains, and no failure of one
\* submission stops those behind it.
QueueAnswers == <>[](queue = <<>>)
=============================================================================
