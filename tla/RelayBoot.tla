------------------------------ MODULE RelayBoot ------------------------------
(***************************************************************************)
(* The gas relay from start to service: onModuleInit, verifyWiring and     *)
(* verifyResolutionWiring of src/relay/relay.service.ts, and the balance   *)
(* that cachedBalance shares among the operators who ask for the gauge.    *)
(*                                                                         *)
(* The sending wallet is set first and taken away when the forwarder turns *)
(* out to be wired wrong, or could not be asked often enough.  Requests    *)
(* are served once every module's init hook has returned (main.ts).        *)
(***************************************************************************)
EXTENDS Integers, FiniteSets

CONSTANTS
    Selectors,   \* how many functions a forwarder must allow, asked one by one
    Retries,     \* WIRING_RETRIES
    Pollers,     \* requests for the gauge
    Balances,    \* what the relayer may hold
    TTL,         \* BALANCE_TTL_MS, in ticks
    MaxLag,      \* ticks a balance read takes, at most (an assumption about the node)
    MaxFailures, \* bound: reads of the node that fail
    Null         \* no balance is known

ASSUME BootAssumption ==
    /\ {Selectors, TTL} \subseteq Nat \ {0} /\ {Retries, MaxLag, MaxFailures} \subseteq Nat
    /\ Null \notin Balances

VARIABLES
    \* the deployment, which nothing changes
    configured,  \* RELAY_ENABLED, with a key, a forwarder and a node
    wiring,      \* wiring[f]: where forwarder f points and which selectors it allows
    \* the service
    wallet,      \* there is one
    engine,      \* the destination has been read from the trading forwarder
    resolution,  \* resolutionForwarder is set
    boot,        \* which forwarder is verified, at which attempt and which of its reads
    balanceRead, \* the cached balance, and the ticks for which it is fresh
    inFlight,    \* what the read under way has seen, and the ticks it has taken
    waiting,     \* pollers that share it
    told,        \* told[p]: whether p was just answered, and what
    \* the chain, and history
    balance,
    settled,     \* ticks since the balance changed, or a read of it failed, up to Old
    quiet,       \* ticks since the last read ended, up to TTL
    failed,      \* failed[f]: reads of forwarder f that have failed
    failures

deployVars  == <<configured, wiring>>
bootVars    == <<wallet, engine, resolution, boot, failed>>
gaugeVars   == <<balanceRead, inFlight, waiting, told>>
balanceVars == <<balance, settled, quiet>>
relayVars == <<deployVars, bootVars, gaugeVars, balanceVars, failures>>

Forwarders == {"trading", "resolution"}
\* Not in the configuration; not initialised or pointing elsewhere; pointing where it should.
Targets == {"none", "wrong", "ours"}
Old == TTL + MaxLag + 1

Enabled == configured /\ wallet
ResolutionEnabled == Enabled /\ resolution
Up == boot.at = "over"

\* A forwarder that does what the service expects of it.
Wired(f) == wiring[f].target = "ours" /\ wiring[f].allows = 1..Selectors

NoRead   == [wei |-> Null, fresh |-> 0]
NoFlight == [wei |-> Null, lag |-> -1]
NotTold  == [p \in Pollers |-> [now |-> FALSE, wei |-> Null]]

-----------------------------------------------------------------------------
\* onModuleInit up to the first read.
BootInit ==
    /\ configured \in BOOLEAN
    /\ wiring \in [Forwarders -> [target: Targets, allows: SUBSET (1..Selectors)]]
    /\ configured <=> wiring["trading"].target # "none"
    /\ wallet = configured /\ engine = FALSE /\ resolution = FALSE
    /\ boot = [at |-> IF configured THEN "trading" ELSE "over", attempt |-> 0, read |-> 0]
    /\ balanceRead = NoRead /\ inFlight = NoFlight /\ waiting = {}
    /\ told = NotTold
    /\ balance \in Balances /\ settled = Old /\ quiet = TTL
    /\ failed = [f \in Forwarders |-> 0] /\ failures = 0

(* ---- the wiring checks ---- *)

\* verifyWiring is done: verifyResolutionWiring, if there is such a forwarder.  Then the service
\* listens.
NextCheck(f) ==
    [at |-> IF f = "trading" /\ wiring["resolution"].target # "none" THEN "resolution" ELSE "over",
     attempt |-> 0, read |-> 0]

\* What the chain answers to the read that boot is at: the destination, then one selector each, and
\* for the trading forwarder the relayer's balance, which refuses nothing.
Refused(f) ==
    IF boot.read = 0 THEN wiring[f].target # "ours"
    ELSE boot.read <= Selectors /\ boot.read \notin wiring[f].allows

LastRead(f) == IF f = "trading" THEN Selectors + 1 ELSE Selectors

\* Mutant: a selector that the forwarder rejects is logged, and the wallet stays.
RefuseTargetOnly(f) ==
    /\ boot.at = f /\ Refused(f)
    /\ wallet' = (wallet /\ (f # "trading" \/ boot.read > 0))
    /\ boot' = NextCheck(f)
    /\ UNCHANGED <<deployVars, engine, resolution, failed, gaugeVars, balanceVars, failures>>

\* Mutant: a refusal is thrown, and tried again like a read that failed.
RefuseRetried(f) ==
    /\ boot.at = f /\ Refused(f)
    /\ boot' = [boot EXCEPT !.read = 0]
    /\ UNCHANGED <<deployVars, wallet, engine, resolution, failed, gaugeVars, balanceVars, failures>>

\* A wrong answer ends the check at once: no wallet, or no resolution forwarder.
Refuse(f) ==
    /\ boot.at = f /\ Refused(f)
    /\ wallet' = (wallet /\ f # "trading")
    /\ boot' = NextCheck(f)
    /\ UNCHANGED <<deployVars, engine, resolution, failed, gaugeVars, balanceVars, failures>>

\* A right answer that is not the last.  The first names the engine.
Confirm(f) ==
    /\ boot.at = f /\ ~ Refused(f) /\ boot.read < LastRead(f)
    /\ engine' = (engine \/ (f = "trading" /\ boot.read = 0))
    /\ boot' = [boot EXCEPT !.read = @ + 1]
    /\ UNCHANGED <<deployVars, wallet, resolution, failed, gaugeVars, balanceVars, failures>>

\* The last one.
Ready(f) ==
    /\ boot.at = f /\ ~ Refused(f) /\ boot.read = LastRead(f)
    /\ resolution' = (resolution \/ f = "resolution")
    /\ boot' = NextCheck(f)
    /\ UNCHANGED <<deployVars, wallet, engine, failed, gaugeVars, balanceVars, failures>>

\* A read throws: the whole check is run again after a delay, or given up.
ReadFails(f) ==
    /\ boot.at = f
    /\ failures < MaxFailures /\ failures' = failures + 1
    /\ failed' = [failed EXCEPT ![f] = @ + 1]
    /\ IF boot.attempt < Retries
       THEN boot' = [boot EXCEPT !.attempt = @ + 1, !.read = 0] /\ UNCHANGED wallet
       ELSE boot' = NextCheck(f) /\ wallet' = (wallet /\ f # "trading")
    /\ UNCHANGED <<deployVars, engine, resolution, gaugeVars, balanceVars>>

(* ---- the gauge ---- *)

Tell(ps, wei) ==
    told' = [p \in Pollers |-> IF p \in ps THEN [now |-> TRUE, wei |-> wei] ELSE NotTold[p]]

\* cachedBalance: fresh.
PollFresh(p) ==
    /\ Up /\ p \notin waiting /\ balanceRead.fresh > 0
    /\ Tell({p}, balanceRead.wei)
    /\ UNCHANGED <<deployVars, bootVars, balanceRead, inFlight, waiting, balanceVars, failures>>

\* cachedBalance: whoever arrives during a read shares it.
PollJoins(p) ==
    /\ Up /\ p \notin waiting /\ balanceRead.fresh = 0 /\ inFlight # NoFlight
    /\ waiting' = waiting \cup {p}
    /\ UNCHANGED <<deployVars, bootVars, balanceRead, inFlight, told, balanceVars, failures>>

\* Mutant: the settled value alone is cached, and every poll that misses it reads.
PollReadsAlone(p) ==
    /\ Up /\ p \notin waiting /\ balanceRead.fresh = 0
    /\ waiting' = waiting \cup {p}
    /\ inFlight' = [wei |-> IF configured THEN balance ELSE Null, lag |-> 0]
    /\ UNCHANGED <<deployVars, bootVars, balanceRead, told, balanceVars, failures>>

\* cachedBalance: the first to miss reads, if there is a node to read from.
PollReads(p) ==
    /\ Up /\ p \notin waiting /\ balanceRead.fresh = 0 /\ inFlight = NoFlight
    /\ waiting' = {p}
    /\ inFlight' = [wei |-> IF configured THEN balance ELSE Null, lag |-> 0]
    /\ UNCHANGED <<deployVars, bootVars, balanceRead, told, balanceVars, failures>>

\* readBalance ends, and everybody who shares the read is answered.
Ends(wei) ==
    /\ inFlight # NoFlight
    /\ balanceRead' = [wei |-> wei, fresh |-> TTL]
    /\ inFlight' = NoFlight /\ waiting' = {}
    /\ Tell(waiting, wei)
    /\ quiet' = 0

BalanceAnswered == Ends(inFlight.wei) /\ UNCHANGED <<deployVars, bootVars, balance, settled, failures>>

\* A failed read is cached too.
BalanceFails ==
    /\ configured /\ failures < MaxFailures /\ failures' = failures + 1
    /\ Ends(Null)
    /\ settled' = 0
    /\ UNCHANGED <<deployVars, bootVars, balance>>

\* A relayed transaction or a top-up.  (External)
BalanceMoves ==
    /\ Up
    /\ \E b \in Balances \ {balance} : balance' = b
    /\ settled' = 0
    /\ told' = NotTold
    /\ UNCHANGED <<deployVars, bootVars, balanceRead, inFlight, waiting, quiet, failures>>

TimePasses ==
    /\ Up /\ (inFlight # NoFlight => inFlight.lag < MaxLag)
    /\ balanceRead' = IF balanceRead.fresh > 1 THEN [balanceRead EXCEPT !.fresh = @ - 1] ELSE NoRead
    /\ inFlight' = IF inFlight = NoFlight THEN NoFlight ELSE [inFlight EXCEPT !.lag = @ + 1]
    /\ told' = NotTold
    /\ settled' = IF settled < Old THEN settled + 1 ELSE settled
    /\ quiet' = IF quiet < TTL THEN quiet + 1 ELSE quiet
    /\ UNCHANGED <<deployVars, bootVars, waiting, balance, failures>>

-----------------------------------------------------------------------------
Check(f) == Refuse(f) \/ Confirm(f) \/ Ready(f) \/ ReadFails(f)
Poll(p)  == PollFresh(p) \/ PollJoins(p) \/ PollReads(p)

BootNext ==
    \/ \E f \in Forwarders : Check(f)
    \/ \E p \in Pollers : Poll(p)
    \/ BalanceAnswered \/ BalanceFails \/ BalanceMoves \/ TimePasses

BootSpec == BootInit /\ [][BootNext]_relayVars

\* The node answers or its transport gives up, and the delay between two attempts is a timer.
BootFairSpec ==
    /\ BootSpec
    /\ \A f \in Forwarders : WF_relayVars(Check(f))
    /\ WF_relayVars(BalanceAnswered \/ BalanceFails)

-----------------------------------------------------------------------------
(* Properties *)

\* Every variable stays in its type.
BootTypeOK ==
    /\ {configured, wallet, engine, resolution} \subseteq BOOLEAN
    /\ boot \in [at: Forwarders \cup {"over"}, attempt: 0..Retries, read: 0..Selectors + 1]
    /\ balanceRead \in [wei: Balances \cup {Null}, fresh: 0..TTL]
    /\ inFlight \in [wei: Balances \cup {Null}, lag: -1..MaxLag]
    /\ waiting \subseteq Pollers /\ told \in [Pollers -> [now: BOOLEAN, wei: Balances \cup {Null}]]
    /\ balance \in Balances /\ settled \in 0..Old /\ quiet \in 0..TTL
    /\ failed \in [Forwarders -> 0..MaxFailures] /\ failures \in 0..MaxFailures

\* A service that listens relays trades exactly if its forwarder is wired right and could be asked:
\* up to Retries failed reads take nothing away, one more may.  Whatever becomes of the resolution
\* forwarder never takes trading away, and proposals are only relayed through a forwarder that was
\* verified (verifyWiring, verifyResolutionWiring).
BootDecides ==
    Up /\ configured =>
        /\ Enabled => Wired("trading") /\ engine
        /\ Wired("trading") /\ failed["trading"] <= Retries => Enabled
        /\ ResolutionEnabled => Wired("resolution")
        /\ Enabled /\ Wired("resolution") /\ failed["resolution"] <= Retries => ResolutionEnabled

\* However many operators ask, a balance read begins only when none is under way and the last one
\* ended a TTL ago; and what they are told is the relayer's balance, unless it changed or a read
\* failed within a TTL and the time a read takes (cachedBalance: balanceInFlight and balanceRead).
GaugeIsCheapAndRecent ==
    /\ [][inFlight'.lag = 0 /\ inFlight' # inFlight => inFlight = NoFlight /\ quiet = TTL]_relayVars
    /\ [](\A p \in Pollers : told[p].now /\ configured /\ told[p].wei # balance => settled < Old)

\* The check ends, and so does the wait of every operator.
BootEndsAndPollsAreAnswered ==
    /\ <>Up
    /\ \A p \in Pollers : p \in waiting ~> p \notin waiting
=============================================================================
