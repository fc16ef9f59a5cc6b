------------------------------ MODULE Accounts ------------------------------
(***************************************************************************)
(* Sign-in and identity: src/auth/auth.service.ts, auth-tokens.service.ts  *)
(* and src/unlink/unlink-identity.service.ts with their controllers.       *)
(*                                                                         *)
(* Every request is a chain of awaited Redis and Postgres calls, none of   *)
(* them in a transaction, so requests of one user interleave call by call: *)
(* two tabs that sign in, refresh or log out at once, two devices that     *)
(* bind different Unlink addresses.  A request that is refused before it   *)
(* has written anything leaves the state as it was and is not a step.      *)
(*                                                                         *)
(* Signatures, JWTs and hashes are taken to work: who presents nonce n has *)
(* signed it with the wallet it was issued to, who presents session s      *)
(* holds the refresh token it was issued with.                             *)
(***************************************************************************)
EXTENDS Integers, Sequences, FiniteSets

CONSTANTS
    Wallets,      \* one account each; its user row is created by the first sign-in
    Requests,     \* requests served at the same time
    Addresses,    \* Unlink addresses
    None,         \* no address
    MaxNonces,    \* bound: nonces issued
    MaxSessions,  \* bound: refresh sessions created
    MaxExpiries,  \* bound: messages and sessions that expire
    MaxRequests   \* bound: requests that get past their first read

ASSUME AccountsAssumption ==
    /\ MaxNonces \in Nat /\ MaxSessions \in Nat /\ MaxExpiries \in Nat /\ MaxRequests \in Nat
    /\ None \notin Addresses

VARIABLES
    \* Redis and Postgres
    nonceKey,   \* nonceKey[w]: the nonce stored for w, 0 when there is none
    users,      \* wallets with a user row
    sessions,   \* refresh_sessions in order of creation; a session is its position
    unlinkOf,   \* unlinkOf[w]: users.unlink_address
    \* time
    nonces,     \* nonces issued: the wallet of each
    stale,      \* nonces 1..stale: their message has expired, and their key may have
    expired,    \* sessions 1..expired have expired
    \* the service
    req,        \* req[r]: where the request is and what it carries
    \* history
    spent,      \* nonces that a sign-in has deleted
    ended,      \* sign-ins whose sessions were ended by a logout or by a reuse
    rebound,    \* wallets whose binding was replaced
    granted,    \* <<w, a>>: an authorization token for a was issued to w
    begun       \* requests begun

redisVars   == <<nonceKey, nonces, stale>>
sessionVars == <<sessions, expired, ended>>
unlinkVars  == <<unlinkOf, rebound, granted>>
vars == <<redisVars, users, sessionVars, unlinkVars, req, begun, spent>>

\* A row of refresh_sessions.  from is the session it was rotated from, 0 after a sign-in; login is
\* the first session of the chain.  raced says that a rotation on the way was overtaken (below).
SessionRow == [user: Wallets, revoked: BOOLEAN, from: Nat, login: Nat, raced: BOOLEAN]

Idle == [at |-> "idle", wallet |-> None, arg |-> 0, raced |-> FALSE]

SignInSteps == {"consume", "find", "update", "create", "issue"}
RotateSteps == {"revoke", "reissue"}

\* Requests between reading session s and creating its successor.
Rotating(s) == {r \in Requests : req[r].at \in RotateSteps /\ req[r].arg = s}

\* Requests that got past the nonce check with n.
SignedInWith(n) == {r \in Requests : req[r].at \in SignInSteps /\ req[r].arg = n}

\* The sessions in ss are being ended by somebody else than rs: rotations of theirs that are under
\* way have been overtaken.
Overtaking(ss, rs) ==
    [r \in Requests |->
        [req[r] EXCEPT !.raced = @ \/ (r \notin rs /\ \E s \in ss : r \in Rotating(s))]]

\* Request r begins, its first read behind it.
Begins(r, at, w, arg) ==
    /\ req[r].at = "idle"
    /\ begun < MaxRequests /\ begun' = begun + 1
    /\ req' = [req EXCEPT ![r] = [at |-> at, wallet |-> w, arg |-> arg, raced |-> FALSE]]

-----------------------------------------------------------------------------
Init ==
    /\ nonceKey = [w \in Wallets |-> 0] /\ nonces = <<>> /\ stale = 0
    /\ users = {} /\ sessions = <<>> /\ expired = 0
    /\ unlinkOf = [w \in Wallets |-> None]
    /\ req = [r \in Requests |-> Idle]
    /\ spent = {} /\ ended = {} /\ rebound = {} /\ granted = {} /\ begun = 0

(* ---- the passing of time ---- *)

\* A sign-in message and the key of its nonce have the same lifetime, and the key is set last.
MessageExpires ==
    /\ stale < Len(nonces) /\ stale + expired < MaxExpiries
    /\ stale' = stale + 1
    /\ UNCHANGED <<nonceKey, nonces, users, sessionVars, unlinkVars, req, begun, spent>>

KeyExpires(w) ==
    /\ nonceKey[w] \in 1..stale
    /\ nonceKey' = [nonceKey EXCEPT ![w] = 0]
    /\ UNCHANGED <<nonces, stale, users, sessionVars, unlinkVars, req, begun, spent>>

\* A refresh token and its session row have the same lifetime.
SessionExpires ==
    /\ expired < Len(sessions) /\ stale + expired < MaxExpiries
    /\ expired' = expired + 1
    /\ UNCHANGED <<redisVars, users, sessions, ended, unlinkVars, req, begun, spent>>

(* ---- POST /auth/nonce and POST /auth/verify ---- *)

\* One key per wallet: a new nonce replaces the one before.
RequestNonce(w) ==
    /\ Len(nonces) < MaxNonces
    /\ nonces' = Append(nonces, w)
    /\ nonceKey' = [nonceKey EXCEPT ![w] = Len(nonces) + 1]
    /\ UNCHANGED <<stale, users, sessionVars, unlinkVars, req, begun, spent>>

\* The message has not expired, and the key of its wallet holds its nonce.
VerifyReadsNonce(r, n) ==
    /\ n \in DOMAIN nonces /\ n > stale
    /\ nonceKey[nonces[n]] = n
    /\ Begins(r, "consume", nonces[n], n)
    /\ UNCHANGED <<redisVars, users, sessionVars, unlinkVars, spent>>

\* Mutant: the nonce is left in Redis until it expires.
VerifyKeepsNonce(r) ==
    /\ req[r].at = "consume"
    /\ spent' = spent \cup {req[r].arg}
    /\ req' = [req EXCEPT ![r].at = "find"]
    /\ UNCHANGED <<redisVars, users, sessionVars, unlinkVars, begun>>

\* The key is deleted whatever it holds by now.
VerifyConsumes(r) ==
    /\ req[r].at = "consume"
    /\ nonceKey' = [nonceKey EXCEPT ![req[r].wallet] = 0]
    /\ spent' = spent \cup {req[r].arg}
    /\ req' = [req EXCEPT ![r].at = "find"]
    /\ UNCHANGED <<nonces, stale, users, sessionVars, unlinkVars, begun>>

VerifyFindsUser(r) ==
    /\ req[r].at = "find"
    /\ req' = [req EXCEPT ![r].at = IF req[r].wallet \in users THEN "update" ELSE "create"]
    /\ UNCHANGED <<redisVars, users, sessionVars, unlinkVars, begun, spent>>

VerifyUpdatesUser(r) ==
    /\ req[r].at = "update"
    /\ req' = [req EXCEPT ![r].at = "issue"]
    /\ UNCHANGED <<redisVars, users, sessionVars, unlinkVars, begun, spent>>

\* The wallet is unique: the slower of two first sign-ins fails.
VerifyCreatesUser(r) ==
    /\ req[r].at = "create"
    /\ users' = users \cup {req[r].wallet}
    /\ req' = [req EXCEPT ![r] = IF req[r].wallet \in users THEN Idle ELSE [@ EXCEPT !.at = "issue"]]
    /\ UNCHANGED <<redisVars, sessionVars, unlinkVars, begun, spent>>

\* issue for a sign-in: the first session of a new chain.
VerifyIssues(r) ==
    /\ req[r].at = "issue" /\ Len(sessions) < MaxSessions
    /\ sessions' = Append(sessions,
         [user |-> req[r].wallet, revoked |-> FALSE, from |-> 0, login |-> Len(sessions) + 1, raced |-> FALSE])
    /\ req' = [req EXCEPT ![r] = Idle]
    /\ UNCHANGED <<redisVars, users, expired, ended, unlinkVars, begun, spent>>

(* ---- POST /auth/refresh ---- *)

\* rotate: the token has not expired and its row is read; a revoked one has been used before.
RotateReads(r, s) ==
    /\ s \in DOMAIN sessions /\ s > expired
    /\ Begins(r, IF sessions[s].revoked THEN "sweep" ELSE "revoke", sessions[s].user, s)
    /\ UNCHANGED <<redisVars, users, sessionVars, unlinkVars, spent>>

SessionsOf(w) == {s \in DOMAIN sessions : sessions[s].user = w}

\* Mutant: only the session that was presented again is ended, and it has ended already.
SweepsOnlyReused(r) ==
    /\ req[r].at = "sweep"
    /\ ended' = ended \cup {sessions[s].login : s \in SessionsOf(req[r].wallet)}
    /\ sessions' = [sessions EXCEPT ![req[r].arg].revoked = TRUE]
    /\ req' = [Overtaking(SessionsOf(req[r].wallet), {r}) EXCEPT ![r] = Idle]
    /\ UNCHANGED <<redisVars, users, expired, unlinkVars, begun, spent>>

\* revokeAllForUser, then the request is refused.
RotateSweeps(r) ==
    /\ req[r].at = "sweep"
    /\ LET swept == SessionsOf(req[r].wallet)
       IN  /\ sessions' = [s \in DOMAIN sessions |->
                             [sessions[s] EXCEPT !.revoked = @ \/ s \in swept]]
           /\ ended' = ended \cup {sessions[s].login : s \in swept}
           /\ req' = [Overtaking(swept, {r}) EXCEPT ![r] = Idle]
    /\ UNCHANGED <<redisVars, users, expired, unlinkVars, begun, spent>>

\* Mutant: the presented session stays live.
RotateKeeps(r) ==
    /\ req[r].at = "revoke"
    /\ req' = [req EXCEPT ![r].at = "reissue"]
    /\ UNCHANGED <<redisVars, users, sessionVars, unlinkVars, begun, spent>>

\* The update is unconditional: a session that another request has revoked since is revoked again.
RotateRevokes(r) ==
    /\ req[r].at = "revoke"
    /\ LET s == req[r].arg
       IN  /\ sessions' = [sessions EXCEPT ![s].revoked = TRUE]
           /\ req' = [(IF sessions[s].revoked THEN req ELSE Overtaking({s}, {r})) EXCEPT ![r].at = "reissue"]
    /\ UNCHANGED <<redisVars, users, expired, ended, unlinkVars, begun, spent>>

\* issue for a rotation.
RotateIssues(r) ==
    /\ req[r].at = "reissue" /\ Len(sessions) < MaxSessions
    /\ LET s == req[r].arg
       IN  sessions' = Append(sessions,
             [user |-> sessions[s].user, revoked |-> FALSE, from |-> s, login |-> sessions[s].login,
              raced |-> sessions[s].raced \/ req[r].raced])
    /\ req' = [req EXCEPT ![r] = Idle]
    /\ UNCHANGED <<redisVars, users, expired, ended, unlinkVars, begun, spent>>

(* ---- POST /auth/logout ---- *)

\* The session its owner would call the current one: nothing was rotated from it yet.
IsHead(s) == \A t \in DOMAIN sessions : sessions[t].from # s

\* revoke: one conditional update.  It ends a chain when it is given the chain's head (of a chain
\* that forked, the branch that was not overtaken is meant).
LogsOut(s) ==
    /\ s \in DOMAIN sessions /\ s > expired
    /\ sessions' = [sessions EXCEPT ![s].revoked = TRUE]
    /\ ended' = IF IsHead(s) /\ ~ sessions[s].raced THEN ended \cup {sessions[s].login} ELSE ended
    /\ req' = IF IsHead(s) THEN Overtaking({s}, {}) ELSE req
    /\ UNCHANGED <<redisVars, users, expired, unlinkVars, begun, spent>>

(* ---- POST /unlink/register and /unlink/authorization-token ---- *)

\* JwtAuthGuard and JwtStrategy: an access token names its user, and no session is looked up.
SignedIn(w) == w \in users

\* Mutant: a user that is bound to another address is let through.
BindReadsAny(r, w, a) ==
    /\ SignedIn(w)
    /\ unlinkOf[w] # a
    /\ Begins(r, "bind", w, a)
    /\ UNCHANGED <<redisVars, users, sessionVars, unlinkVars, spent>>

\* The Engine registers the keys, again if it knows them; then bind reads the user's row.
\* A user bound to a gets a success, one bound to another address a conflict.
BindReads(r, w, a) ==
    /\ SignedIn(w)
    /\ unlinkOf[w] = None
    /\ Begins(r, "bind", w, a)
    /\ UNCHANGED <<redisVars, users, sessionVars, unlinkVars, spent>>

\* Binds of w under way that the one by r overtakes.
OvertakingBinds(w, r) ==
    [q \in Requests |-> [req[q] EXCEPT !.raced = @ \/ (q # r /\ req[q].at = "bind" /\ req[q].wallet = w)]]

\* Mutant: without the unique index on unlink_address.
BindsShared(r) ==
    /\ req[r].at = "bind"
    /\ LET w == req[r].wallet
       IN  /\ unlinkOf' = [unlinkOf EXCEPT ![w] = req[r].arg]
           /\ rebound' = IF unlinkOf[w] \in {None, req[r].arg} THEN rebound ELSE rebound \cup {w}
           /\ req' = [OvertakingBinds(w, r) EXCEPT ![r] = Idle]
    /\ UNCHANGED <<redisVars, users, sessionVars, granted, begun, spent>>

\* The row is updated unless another user has the address (P2002, a conflict).
Binds(r) ==
    /\ req[r].at = "bind"
    /\ LET w == req[r].wallet
           taken == \E v \in Wallets \ {w} : unlinkOf[v] = req[r].arg
       IN  IF taken
           THEN /\ req' = [req EXCEPT ![r] = Idle]
                /\ UNCHANGED <<unlinkOf, rebound>>
           ELSE /\ unlinkOf' = [unlinkOf EXCEPT ![w] = req[r].arg]
                /\ rebound' = IF unlinkOf[w] \in {None, req[r].arg} THEN rebound ELSE rebound \cup {w}
                /\ req' = [OvertakingBinds(w, r) EXCEPT ![r] = Idle]
    /\ UNCHANGED <<redisVars, users, sessionVars, granted, begun, spent>>

\* owns, and then the Engine's token in a second call.
TokenReads(r, w, a) ==
    /\ SignedIn(w)
    /\ unlinkOf[w] = a /\ <<w, a>> \notin granted
    /\ Begins(r, "token", w, a)
    /\ UNCHANGED <<redisVars, users, sessionVars, unlinkVars, spent>>

TokenIssues(r) ==
    /\ req[r].at = "token"
    /\ granted' = granted \cup {<<req[r].wallet, req[r].arg>>}
    /\ req' = [req EXCEPT ![r] = Idle]
    /\ UNCHANGED <<redisVars, users, sessionVars, unlinkOf, rebound, begun, spent>>

\* Any awaited call throws, or the process dies: what was written stays.
RequestFails(r) ==
    /\ req[r].at # "idle"
    /\ req' = [req EXCEPT ![r] = Idle]
    /\ UNCHANGED <<redisVars, users, sessionVars, unlinkVars, begun, spent>>

-----------------------------------------------------------------------------
Verify(r) ==
    \/ \E n \in DOMAIN nonces : VerifyReadsNonce(r, n)
    \/ VerifyConsumes(r) \/ VerifyFindsUser(r) \/ VerifyUpdatesUser(r) \/ VerifyCreatesUser(r)
    \/ VerifyIssues(r)

Refresh(r) ==
    \/ \E s \in DOMAIN sessions : RotateReads(r, s)
    \/ RotateSweeps(r) \/ RotateRevokes(r) \/ RotateIssues(r)

Unlink(r) ==
    \/ \E w \in Wallets, a \in Addresses : BindReads(r, w, a) \/ TokenReads(r, w, a)
    \/ Binds(r) \/ TokenIssues(r)

Next ==
    \/ MessageExpires \/ SessionExpires
    \/ \E w \in Wallets : KeyExpires(w) \/ RequestNonce(w)
    \/ \E s \in DOMAIN sessions : LogsOut(s)
    \/ \E r \in Requests : Verify(r) \/ Refresh(r) \/ Unlink(r) \/ RequestFails(r)

Spec == Init /\ [][Next]_vars

-----------------------------------------------------------------------------
(* Properties *)

\* Every variable stays in its type, and what a request carries exists.
TypeOK ==
    /\ nonces \in Seq(Wallets) /\ stale \in 0..Len(nonces)
    /\ nonceKey \in [Wallets -> 0..Len(nonces)]
    /\ users \subseteq Wallets
    /\ sessions \in Seq(SessionRow) /\ expired \in 0..Len(sessions)
    /\ unlinkOf \in [Wallets -> Addresses \cup {None}]
    /\ \A r \in Requests :
         /\ req[r].at \in SignInSteps => req[r].arg \in DOMAIN nonces
         /\ req[r].at \in RotateSteps \cup {"sweep"} => req[r].arg \in DOMAIN sessions
         /\ req[r].at \in {"bind", "token"} => req[r].arg \in Addresses
    /\ spent \subseteq DOMAIN nonces /\ ended \subseteq DOMAIN sessions
    /\ begun \in 0..MaxRequests
    /\ rebound \subseteq Wallets /\ granted \subseteq Wallets \X Addresses

\* A nonce signs in once (AuthService.verify): after a sign-in has deleted it, only requests that had
\* read it before get any further, whatever the wallet does with newer nonces meanwhile.
NonceSpentOnce ==
    [][\A n \in spent : SignedInWith(n)' \subseteq SignedInWith(n)]_vars

Live(s) == s \in DOMAIN sessions /\ s > expired /\ ~ sessions[s].revoked

\* Rotation (AuthTokensService.rotate): a sign-in has at most one live refresh session, apart from
\* those minted by rotations that read a session before another request ended it.
OneHeir ==
    \A s, t \in DOMAIN sessions :
        /\ Live(s) /\ Live(t) /\ sessions[s].login = sessions[t].login
        /\ ~ sessions[s].raced /\ ~ sessions[t].raced
        => s = t

\* Reuse of a rotated token ends every chain of the user, and a logout with the current token its
\* own (rotate, revokeAllForUser, revoke): no later request revives one, except a rotation that was
\* already under way.
EndedStaysEnded ==
    \A s \in DOMAIN sessions : Live(s) /\ sessions[s].login \in ended => sessions[s].raced

\* A user's Unlink address is replaced only by a bind that had read the row before another bind of
\* the same user wrote it (UnlinkIdentityService.bind).
RebindsOnlyRaced ==
    [][\A w \in Wallets :
         unlinkOf[w] # None /\ unlinkOf'[w] # unlinkOf[w] =>
         \E r \in Requests : req[r].at = "bind" /\ req[r].wallet = w /\ req[r].raced]_vars

\* Read access to one Unlink address is given to two users only after a binding was replaced
\* (bind's unique index, and owns before every token).
OneReaderPerAddress ==
    \A g, h \in granted : g[2] = h[2] /\ g[1] # h[1] => g[1] \in rebound \/ h[1] \in rebound
=============================================================================
