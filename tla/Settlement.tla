----------------------------- MODULE Settlement -----------------------------
(***************************************************************************)
(* The settlement keeper, src/relay/settlement.service.ts: a timed loop    *)
(* that asks the database which proposals outlived their challenge window  *)
(* and sends finalize for each, with a cooldown after every attempt and a  *)
(* doubling backoff after a failed one.                                    *)
(*                                                                         *)
(* The resolver, the mempool and the market indexer are external here: the *)
(* row of a proposal follows the chain at its own pace (MarketIndexer), and*)
(* a send is one step that simulates and broadcasts (RelayQueue).          *)
(* Time is counted in minutes, the unit of the cooldown and of the first   *)
(* backoff; a waiting time is kept as what is left of it.                  *)
(***************************************************************************)
EXTENDS Integers, FiniteSets

CONSTANTS
    Proposals,
    Deadline,     \* Deadline[p]: the minute the challenge window of p closes
    Stuck,        \* proposals whose finalize is refused in simulation, always
    Doomed,       \* proposals whose finalize passes simulation and reverts when mined
    Batch,        \* BATCH
    Cooldown,     \* SETTLE_COOLDOWN_MS
    BaseBackoff,  \* BASE_BACKOFF_MS
    MaxBackoff,   \* MAX_BACKOFF_MS
    Horizon,      \* bound: the clock stops counting here
    MaxKeeperFaults     \* bound: refused or lost sends, and restarts

ASSUME SettlementAssumption ==
    /\ Deadline \in [Proposals -> Nat]
    /\ \A p, q \in Proposals : Deadline[p] = Deadline[q] => p = q
    /\ Stuck \subseteq Proposals /\ Doomed \subseteq Proposals
    /\ {Batch, Cooldown, BaseBackoff, MaxBackoff} \subseteq Nat \ {0}
    /\ Cooldown <= BaseBackoff /\ BaseBackoff <= MaxBackoff
    /\ Horizon \in Nat /\ MaxKeeperFaults \in Nat

VARIABLES
    now,      \* minutes, up to Horizon
    chain,    \* chain[p]: "PROPOSED", "DISPUTED" or "SETTLED"
    row,      \* row[p]: resolution_proposals.phase, "NONE" before it is indexed
    unmined,  \* proposals with a broadcast finalize that is not mined
    keeperFaults, \* bound counter
    \* the keeper
    at,       \* where its loop is: "idle", "pass" (in the for-loop), "receipt" (awaiting one)
    todo,     \* proposals of the batch still to be looked at
    current,  \* the proposal whose receipt is awaited
    receipt,  \* what the chain has answered for it: "none", "success", "reverted"
    wait,     \* wait[p]: minutes until nextAttempt
    attempts, \* attempts[p], up to where the delay saturates
    since,    \* history: minutes since the last attempt, up to Cooldown
    failuresInARow \* history: failures of p one after the other, up to where the delay saturates

external == <<chain, row, unmined>>
history == <<since, failuresInARow>>
keeperVars == <<now, external, keeperFaults, at, todo, current, receipt, wait, attempts, history>>

Smaller(a, b) == IF a < b THEN a ELSE b

\* BASE_BACKOFF_MS * 2 ** (n - 1), capped.
Delay(n) == Smaller(BaseBackoff * 2^(n - 1), MaxBackoff)

\* The number of attempts from which on the delay no longer grows.
Saturated == CHOOSE n \in 1..MaxBackoff : Delay(n) = MaxBackoff /\ \A k \in 1..(n - 1) : Delay(k) < MaxBackoff

-----------------------------------------------------------------------------
(***************************************************************************)
(* The resolver, the mempool and the indexer.  (External)                  *)
(***************************************************************************)
Closed(p) == now > Deadline[p]

\* Proposals are disputed inside their window.
Dispute ==
    /\ \E p \in Proposals :
          /\ chain[p] = "PROPOSED" /\ ~Closed(p)
          /\ chain' = [chain EXCEPT ![p] = "DISPUTED"]
    /\ UNCHANGED <<now, row, unmined, keeperFaults, at, todo, current, receipt, wait, attempts, history>>

\* finalize is permissionless.
OthersFinalize ==
    /\ \E p \in Proposals \ (Stuck \cup Doomed) :
          /\ chain[p] = "PROPOSED" /\ Closed(p)
          /\ chain' = [chain EXCEPT ![p] = "SETTLED"]
    /\ UNCHANGED <<now, row, unmined, keeperFaults, at, todo, current, receipt, wait, attempts, history>>

\* A broadcast finalize is mined; it reverts unless the proposal is still open.
MineFinalize ==
    /\ \E p \in unmined :
          LET ok == chain[p] = "PROPOSED" /\ p \notin Doomed IN
          /\ unmined' = unmined \ {p}
          /\ chain' = IF ok THEN [chain EXCEPT ![p] = "SETTLED"] ELSE chain
          /\ receipt' = IF at = "receipt" /\ current = p
                        THEN (IF ok THEN "success" ELSE "reverted") ELSE receipt
    /\ UNCHANGED <<now, row, keeperFaults, at, todo, current, wait, attempts, history>>

Index ==
    /\ \E p \in Proposals : row[p] # chain[p] /\ row' = [row EXCEPT ![p] = chain[p]]
    /\ UNCHANGED <<now, chain, unmined, keeperFaults, at, todo, current, receipt, wait, attempts, history>>

Clock ==
    /\ now' = Smaller(now + 1, Horizon)
    /\ wait' = [p \in Proposals |-> IF wait[p] > 0 THEN wait[p] - 1 ELSE 0]
    /\ since' = [p \in Proposals |-> Smaller(since[p] + 1, Cooldown)]
    /\ UNCHANGED <<external, keeperFaults, at, todo, current, receipt, attempts, failuresInARow>>

-----------------------------------------------------------------------------
(***************************************************************************)
(* The keeper.                                                             *)
(***************************************************************************)
\* A query that leaves out what has failed before.
DueUntried == {p \in Proposals : row[p] = "PROPOSED" /\ Closed(p) /\ attempts[p] = 0}
\* The query of settleDue: open by the row, window closed.
Due == {p \in Proposals : row[p] = "PROPOSED" /\ Closed(p)}

\* orderBy disputeDeadline asc, take BATCH.
Oldest(S) == {p \in S : Cardinality({q \in S : Deadline[q] < Deadline[p]}) < Batch}

\* Those past their deadline by the clock the pass started with and not in backoff.
OutOfBackoff(S) == {p \in S : wait[p] = 0}

First(p, S) == p \in S /\ \A q \in S \ {p} : Deadline[p] < Deadline[q]

\* tick(): the relay is enabled; query, and skip what is in backoff.
StartPass ==
    /\ at = "idle"
    /\ todo' = OutOfBackoff(Oldest(Due))
    /\ todo' # {}
    /\ at' = "pass"
    /\ UNCHANGED <<now, external, keeperFaults, current, receipt, wait, attempts, history>>

\* The loop is through its batch.
EndPass ==
    /\ at = "pass" /\ todo = {}
    /\ at' = "idle"
    /\ UNCHANGED <<now, external, keeperFaults, todo, current, receipt, wait, attempts, history>>

\* finalize() books the cooldown, and sendFromRelayer simulates.
Attempt(p) == at = "pass" /\ First(p, todo)
Simulates(p) == chain[p] = "PROPOSED" /\ Closed(p) /\ p \notin Stuck

\* backOff(): one more attempt than n, and the delay that number earns.
BackOff(p, n) ==
    LET more == Smaller(n + 1, Saturated) IN
    /\ attempts' = [attempts EXCEPT ![p] = more]
    /\ wait' = [wait EXCEPT ![p] = Delay(more)]
    /\ failuresInARow' = [failuresInARow EXCEPT ![p] = Smaller(@ + 1, Saturated)]

\* Simulation refuses the call: nothing is sent.
SendRefused ==
    /\ \E p \in todo :
          /\ Attempt(p) /\ ~Simulates(p)
          /\ BackOff(p, attempts[p])
          /\ todo' = todo \ {p}
          /\ since' = [since EXCEPT ![p] = 0]
    /\ UNCHANGED <<now, external, keeperFaults, at, current, receipt>>

\* The relay throws for a reason of its own: the daily cap, a node that does not answer, or a
\* charge that cannot be recorded after the transaction has gone out.
SendThrows ==
    /\ keeperFaults < MaxKeeperFaults /\ keeperFaults' = keeperFaults + 1
    /\ \E p \in todo, broadcast \in BOOLEAN :
          /\ Attempt(p)
          /\ broadcast => Simulates(p)
          /\ unmined' = IF broadcast THEN unmined \cup {p} ELSE unmined
          /\ BackOff(p, attempts[p])
          /\ todo' = todo \ {p}
          /\ since' = [since EXCEPT ![p] = 0]
    /\ UNCHANGED <<now, chain, row, at, current, receipt>>

\* finalize() without booking the cooldown first.
SendUnbooked ==
    /\ \E p \in todo :
          /\ Attempt(p) /\ Simulates(p)
          /\ unmined' = unmined \cup {p}
          /\ attempts' = [attempts EXCEPT ![p] = 0]
          /\ todo' = todo \ {p}
          /\ current' = p /\ receipt' = "none"
          /\ since' = [since EXCEPT ![p] = 0]
    /\ at' = "receipt"
    /\ UNCHANGED <<now, chain, row, keeperFaults, wait, failuresInARow>>
\* The transaction is broadcast: the failure count is forgotten and the receipt awaited.
Send ==
    /\ \E p \in todo :
          /\ Attempt(p) /\ Simulates(p)
          /\ unmined' = unmined \cup {p}
          /\ wait' = [wait EXCEPT ![p] = Cooldown]
          /\ attempts' = [attempts EXCEPT ![p] = 0]
          /\ todo' = todo \ {p}
          /\ current' = p /\ receipt' = "none"
          /\ since' = [since EXCEPT ![p] = 0]
    /\ at' = "receipt"
    /\ UNCHANGED <<now, chain, row, keeperFaults, failuresInARow>>

ReceiptSuccess ==
    /\ at = "receipt" /\ receipt = "success"
    /\ at' = "pass"
    /\ failuresInARow' = [failuresInARow EXCEPT ![current] = 0]
    /\ UNCHANGED <<now, external, keeperFaults, todo, current, receipt, wait, attempts, since>>

ReceiptReverted ==
    /\ at = "receipt" /\ receipt = "reverted"
    /\ BackOff(current, attempts[current])
    /\ at' = "pass"
    /\ UNCHANGED <<now, external, keeperFaults, todo, current, receipt, since>>

\* receiptFor gives up after 60 seconds, as long as the cooldown: "a missing receipt is not a failure".
ReceiptTimeout ==
    /\ at = "receipt" /\ receipt = "none" /\ since[current] = Cooldown
    /\ at' = "pass"
    /\ failuresInARow' = [failuresInARow EXCEPT ![current] = 0]
    /\ UNCHANGED <<now, external, keeperFaults, todo, current, receipt, wait, attempts, since>>

\* The process restarts: the two maps are in memory only.
Restart ==
    /\ keeperFaults < MaxKeeperFaults /\ keeperFaults' = keeperFaults + 1
    /\ at' = "idle" /\ todo' = {} /\ receipt' = "none"
    /\ wait' = [p \in Proposals |-> 0] /\ attempts' = [p \in Proposals |-> 0]
    /\ since' = [p \in Proposals |-> Cooldown] /\ failuresInARow' = [p \in Proposals |-> 0]
    /\ UNCHANGED <<now, external, current>>

-----------------------------------------------------------------------------
KeeperInit ==
    /\ now = 0 /\ keeperFaults = 0
    /\ chain = [p \in Proposals |-> "PROPOSED"] /\ row = [p \in Proposals |-> "NONE"]
    /\ unmined = {}
    /\ at = "idle" /\ todo = {} /\ current \in Proposals /\ receipt = "none"
    /\ wait = [p \in Proposals |-> 0] /\ attempts = [p \in Proposals |-> 0]
    /\ since = [p \in Proposals |-> Cooldown] /\ failuresInARow = [p \in Proposals |-> 0]

Keeper == StartPass \/ EndPass \/ SendRefused \/ Send \/ ReceiptSuccess \/ ReceiptReverted \/ ReceiptTimeout
KeeperNext == \/ Keeper \/ SendThrows \/ Restart
        \/ Dispute \/ OthersFinalize \/ MineFinalize \/ Index \/ Clock
KeeperSpec == KeeperInit /\ [][KeeperNext]_keeperVars

\* The timer reschedules itself after every pass; time passes, and the chain goes on: what is
\* broadcast is mined in the end, and what is emitted is indexed.
Fairness == WF_keeperVars(Keeper) /\ WF_keeperVars(Clock) /\ WF_keeperVars(Index) /\ WF_keeperVars(MineFinalize)
KeeperFairSpec == KeeperSpec /\ Fairness

-----------------------------------------------------------------------------
(***************************************************************************)
(* Properties                                                              *)
(***************************************************************************)
Phases == {"PROPOSED", "DISPUTED", "SETTLED"}

\* The types of the keeper's state; no proposal waits longer than the longest backoff.
KeeperTypeOK ==
    /\ now \in 0..Horizon /\ keeperFaults \in 0..MaxKeeperFaults
    /\ chain \in [Proposals -> Phases] /\ row \in [Proposals -> Phases \cup {"NONE"}]
    /\ unmined \subseteq Proposals
    /\ at \in {"idle", "pass", "receipt"} /\ todo \subseteq Proposals
    /\ current \in Proposals /\ receipt \in {"none", "success", "reverted"}
    /\ wait \in [Proposals -> 0..MaxBackoff]
    /\ attempts \in [Proposals -> 0..Saturated] /\ failuresInARow \in [Proposals -> 0..Saturated]
    /\ since \in [Proposals -> 0..Cooldown]

\* The keeper leaves a proposal alone for the cooldown after every attempt, however the attempt
\* ended and however late the indexer moves the row, so long as the process lives; and one that keeps
\* being refused waits for longer and longer.  One whose broadcast reverts or is never mined does not:
\* that is always counted as its first failure (finalize, backOff).
AttemptsSpaced ==
    /\ [][\A p \in Proposals : p \in todo /\ p \notin todo' /\ at' # "idle" => since[p] = Cooldown]_keeperVars
    /\ [](at = "idle" => \A p \in Stuck : failuresInARow[p] = Saturated => attempts[p] = Saturated)

\* Every proposal that can be finalised ends up settled (or disputed in time), through failed
\* sends, lost receipts, restarts and a slow indexer, while fewer than BATCH proposals are stuck.
EventuallySettled ==
    \A p \in Proposals \ (Stuck \cup Doomed) : <>(chain[p] # "PROPOSED")
=============================================================================
