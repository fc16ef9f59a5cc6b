--------------------------- MODULE Accounts_proofs ---------------------------
(***************************************************************************)
(* Proofs about Accounts: what sign-in, rotation, logout and binding       *)
(* guarantee to any number of wallets, requests, nonces and sessions,      *)
(* however their calls interleave.                                         *)
(*                                                                         *)
(* Three inductive invariants over one type: NonceInv for the nonces,      *)
(* ChainInv for the chains of refresh sessions, BindInv for the bindings.  *)
(***************************************************************************)
EXTENDS Accounts, TLAPS

-----------------------------------------------------------------------------
(* Types *)

Steps == {"idle", "sweep", "bind", "token"} \cup SignInSteps \cup RotateSteps
ReqRow == [at : Steps, wallet : Wallets \cup {None}, arg : Nat \cup Addresses, raced : BOOLEAN]

\* What is stored, and that what a request carries is.
AccountType ==
    /\ nonces \in Seq(Wallets) /\ nonceKey \in [Wallets -> Nat]
    /\ sessions \in Seq(SessionRow)
    /\ unlinkOf \in [Wallets -> Addresses \cup {None}]
    /\ rebound \subseteq Wallets /\ granted \subseteq Wallets \X Addresses
    /\ req \in [Requests -> ReqRow]
    /\ \A r \in Requests :
         /\ req[r].at \in SignInSteps => req[r].arg \in 1..Len(nonces) /\ req[r].wallet = nonces[req[r].arg]
         /\ req[r].at \in RotateSteps => req[r].arg \in 1..Len(sessions)
         /\ req[r].at \in {"bind", "token"} => req[r].wallet \in Wallets /\ req[r].arg \in Addresses

\* The request that takes a step is the only one whose step changes.
LEMMA OthersWait ==
    ASSUME AccountType, NEW r \in Requests, NEW row \in ReqRow,
           req' = [req EXCEPT ![r] = row]
    PROVE  /\ req' \in [Requests -> ReqRow] /\ req'[r] = row
           /\ \A q \in Requests \ {r} : req'[q] = req[q]
BY DEF AccountType

\* A request that begins carries what it was given, and nobody has overtaken it.
LEMMA Began ==
    ASSUME AccountType, NEW r \in Requests, NEW at \in Steps, NEW w \in Wallets,
           NEW arg \in Nat \cup Addresses, Begins(r, at, w, arg)
    PROVE  /\ req' \in [Requests -> ReqRow]
           /\ req'[r].at = at /\ req'[r].wallet = w /\ req'[r].arg = arg /\ req'[r].raced = FALSE
           /\ \A q \in Requests \ {r} : req'[q] = req[q]
<1> DEFINE row == [at |-> at, wallet |-> w, arg |-> arg, raced |-> FALSE]
<1>1. row \in ReqRow
  BY DEF ReqRow
<1>2. req' = [req EXCEPT ![r] = row]
  BY DEF Begins
<1> HIDE DEF row
<1>3. /\ req' \in [Requests -> ReqRow] /\ req'[r] = row
      /\ \A q \in Requests \ {r} : req'[q] = req[q]
  BY <1>1, <1>2, OthersWait
<1> QED BY <1>3 DEF row

\* A request that goes on keeps what it carries.
LEMMA GoesOn ==
    ASSUME AccountType, NEW r \in Requests, NEW at \in Steps, req' = [req EXCEPT ![r].at = at]
    PROVE  /\ req' \in [Requests -> ReqRow]
           /\ req'[r].at = at /\ req'[r].wallet = req[r].wallet /\ req'[r].arg = req[r].arg
           /\ req'[r].raced = req[r].raced
           /\ \A q \in Requests \ {r} : req'[q] = req[q]
<1>1. req[r] \in ReqRow
  BY DEF AccountType
<1>2. [req[r] EXCEPT !.at = at] \in ReqRow
  BY <1>1 DEF ReqRow
<1> QED BY <1>1, <1>2, OthersWait DEF ReqRow

\* A request that is over carries nothing.
LEMMA Ends ==
    ASSUME AccountType, NEW r \in Requests, req' = [req EXCEPT ![r] = Idle]
    PROVE  /\ req' \in [Requests -> ReqRow] /\ req'[r].at = "idle"
           /\ \A q \in Requests \ {r} : req'[q] = req[q]
<1>1. Idle \in ReqRow /\ Idle.at = "idle"
  BY DEF Idle, ReqRow, Steps
<1> QED BY <1>1, OthersWait

\* Whom a request overtakes: it only sets their flag.
LEMMA Overtakes ==
    ASSUME AccountType, NEW ss, NEW rs
    PROVE  /\ Overtaking(ss, rs) \in [Requests -> ReqRow]
           /\ \A q \in Requests :
                /\ Overtaking(ss, rs)[q].at = req[q].at /\ Overtaking(ss, rs)[q].wallet = req[q].wallet
                /\ Overtaking(ss, rs)[q].arg = req[q].arg
                /\ Overtaking(ss, rs)[q].raced <=>
                     req[q].raced \/ (q \notin rs /\ req[q].at \in RotateSteps /\ req[q].arg \in ss)
<1> SUFFICES ASSUME NEW q \in Requests
             PROVE  LET new == [req[q] EXCEPT !.raced = @ \/ (q \notin rs /\ \E s \in ss : q \in Rotating(s))]
                    IN  /\ new \in ReqRow
                        /\ new.at = req[q].at /\ new.wallet = req[q].wallet /\ new.arg = req[q].arg
                        /\ new.raced <=> req[q].raced \/ (q \notin rs /\ req[q].at \in RotateSteps /\ req[q].arg \in ss)
  BY DEF Overtaking
<1>1. req[q] \in ReqRow
  BY DEF AccountType
<1>2. (\E s \in ss : q \in Rotating(s)) <=> req[q].at \in RotateSteps /\ req[q].arg \in ss
  BY DEF Rotating
<1> QED BY <1>1, <1>2 DEF ReqRow

\* A bind that writes the row overtakes the user's other binds, and nobody else.
LEMMA BindsOvertake ==
    ASSUME AccountType, NEW w, NEW r \in Requests
    PROVE  /\ OvertakingBinds(w, r) \in [Requests -> ReqRow]
           /\ \A q \in Requests :
                /\ OvertakingBinds(w, r)[q].at = req[q].at /\ OvertakingBinds(w, r)[q].wallet = req[q].wallet
                /\ OvertakingBinds(w, r)[q].arg = req[q].arg
                /\ OvertakingBinds(w, r)[q].raced <=>
                     req[q].raced \/ (q # r /\ req[q].at = "bind" /\ req[q].wallet = w)
<1> SUFFICES ASSUME NEW q \in Requests
             PROVE  LET new == [req[q] EXCEPT !.raced = @ \/ (q # r /\ req[q].at = "bind" /\ req[q].wallet = w)]
                    IN  /\ new \in ReqRow
                        /\ new.at = req[q].at /\ new.wallet = req[q].wallet /\ new.arg = req[q].arg
                        /\ new.raced <=> req[q].raced \/ (q # r /\ req[q].at = "bind" /\ req[q].wallet = w)
  BY DEF OvertakingBinds
<1>1. req[q] \in ReqRow
  BY DEF AccountType
<1> QED BY <1>1 DEF ReqRow

\* A step that stores nothing but leaves what is stored, and after which requests carry what is.
LEMMA TypeKept ==
    ASSUME AccountType, UNCHANGED <<nonces, nonceKey, sessions, unlinkOf, rebound, granted>>,
           NEW r \in Requests, req' \in [Requests -> ReqRow], \A q \in Requests \ {r} : req'[q] = req[q],
           req'[r].at \in SignInSteps =>
               req'[r].arg \in 1..Len(nonces) /\ req'[r].wallet = nonces[req'[r].arg],
           req'[r].at \in RotateSteps => req'[r].arg \in 1..Len(sessions),
           req'[r].at \in {"bind", "token"} => req'[r].wallet \in Wallets /\ req'[r].arg \in Addresses
    PROVE  AccountType'
BY DEF AccountType

\* One more session, of whoever holds the request, which is then over.
LEMMA TypeIssued ==
    ASSUME AccountType, NEW r \in Requests, NEW row \in SessionRow, sessions' = Append(sessions, row),
           req' = [req EXCEPT ![r] = Idle],
           UNCHANGED <<nonces, nonceKey, unlinkOf, rebound, granted>>
    PROVE  AccountType'
<1>1. sessions' \in Seq(SessionRow) /\ Len(sessions') = Len(sessions) + 1 /\ Len(sessions) \in Nat
  BY DEF AccountType
<1>2. req' \in [Requests -> ReqRow] /\ req'[r].at = "idle" /\ \A q \in Requests \ {r} : req'[q] = req[q]
  BY Ends
<1> QED BY <1>1, <1>2 DEF AccountType, SignInSteps, RotateSteps

\* A step that changes sessions in place, and of the requests at most their steps and flags.
LEMMA TypeEnded ==
    ASSUME AccountType, UNCHANGED <<nonces, nonceKey, unlinkOf, rebound, granted>>,
           sessions' \in Seq(SessionRow), Len(sessions') = Len(sessions), req' \in [Requests -> ReqRow],
           \A q \in Requests : \/ req'[q].at = "idle"
                               \/ /\ req'[q].wallet = req[q].wallet /\ req'[q].arg = req[q].arg
                                  /\ req'[q].at = req[q].at \/ {req'[q].at, req[q].at} \subseteq RotateSteps
    PROVE  AccountType'
<1>1. ASSUME NEW q \in Requests
      PROVE  /\ req'[q].at \in SignInSteps =>
                    req'[q].arg \in 1..Len(nonces) /\ req'[q].wallet = nonces[req'[q].arg]
             /\ req'[q].at \in RotateSteps => req'[q].arg \in 1..Len(sessions')
             /\ req'[q].at \in {"bind", "token"} => req'[q].wallet \in Wallets /\ req'[q].arg \in Addresses
  <2>1. CASE req'[q].at = "idle"
    BY <2>1 DEF SignInSteps, RotateSteps
  <2>2. CASE req'[q].at # "idle"
    BY <2>2 DEF AccountType, SignInSteps, RotateSteps
  <2> QED BY <2>1, <2>2
<1> QED BY <1>1 DEF AccountType

\* Session rows change one at a time ...
LEMMA RevokesOne ==
    ASSUME AccountType, NEW s \in 1..Len(sessions), sessions' = [sessions EXCEPT ![s].revoked = TRUE]
    PROVE  /\ sessions' \in Seq(SessionRow) /\ Len(sessions') = Len(sessions)
           /\ \A t \in 1..Len(sessions) :
                /\ sessions'[t].user = sessions[t].user /\ sessions'[t].from = sessions[t].from
                /\ sessions'[t].login = sessions[t].login /\ sessions'[t].raced = sessions[t].raced
                /\ sessions'[t].revoked <=> sessions[t].revoked \/ t = s
<1>1. sessions \in Seq(SessionRow) /\ sessions[s] \in SessionRow
  BY DEF AccountType
<1>2. [sessions[s] EXCEPT !.revoked = TRUE] \in SessionRow
  BY <1>1 DEF SessionRow
<1>3. sessions' \in Seq(SessionRow) /\ Len(sessions') = Len(sessions)
      /\ \A t \in 1..Len(sessions) :
           sessions'[t] = IF t = s THEN [sessions[s] EXCEPT !.revoked = TRUE] ELSE sessions[t]
  BY <1>1, <1>2
<1> QED BY <1>1, <1>3 DEF SessionRow

\* ... or all of a user's at once.
LEMMA RevokesAll ==
    ASSUME AccountType, NEW ss,
           sessions' = [s \in DOMAIN sessions |-> [sessions[s] EXCEPT !.revoked = @ \/ s \in ss]]
    PROVE  /\ sessions' \in Seq(SessionRow) /\ Len(sessions') = Len(sessions)
           /\ \A t \in 1..Len(sessions) :
                /\ sessions'[t].user = sessions[t].user /\ sessions'[t].from = sessions[t].from
                /\ sessions'[t].login = sessions[t].login /\ sessions'[t].raced = sessions[t].raced
                /\ sessions'[t].revoked <=> sessions[t].revoked \/ t \in ss
<1>1. DOMAIN sessions = 1..Len(sessions) /\ Len(sessions) \in Nat
  BY DEF AccountType
<1>2. \A t \in 1..Len(sessions) : sessions[t] \in SessionRow
  BY DEF AccountType
<1>3. ASSUME NEW t \in 1..Len(sessions)
      PROVE  /\ [sessions[t] EXCEPT !.revoked = @ \/ t \in ss] \in SessionRow
             /\ sessions'[t] = [sessions[t] EXCEPT !.revoked = @ \/ t \in ss]
  BY <1>1, <1>2 DEF SessionRow
<1>4. sessions' \in [1..Len(sessions) -> SessionRow]
  BY <1>1, <1>3
<1>5. sessions' \in Seq(SessionRow) /\ Len(sessions') = Len(sessions)
  BY <1>1, <1>4
<1> QED BY <1>2, <1>3, <1>5 DEF SessionRow

\* Nothing is stored and nobody served at the start.
LEMMA TypeInit == Init => AccountType
BY DEF Init, AccountType, ReqRow, Idle, Steps, SignInSteps, RotateSteps

\* Sign-in, up to the session it ends with.
LEMMA TypeVerify ==
    ASSUME AccountType, NEW r \in Requests, Verify(r)
    PROVE  AccountType'
<1>1. ASSUME NEW n \in DOMAIN nonces, VerifyReadsNonce(r, n) PROVE AccountType'
  <2>1. n \in 1..Len(nonces) /\ n \in Nat /\ nonces[n] \in Wallets
    BY DEF AccountType
  <2>3. "consume" \in Steps /\ n \in Nat \cup Addresses /\ Begins(r, "consume", nonces[n], n)
    BY <1>1, <2>1 DEF VerifyReadsNonce, Steps, SignInSteps
  <2>2. /\ req' \in [Requests -> ReqRow]
        /\ req'[r].at = "consume" /\ req'[r].wallet = nonces[n] /\ req'[r].arg = n
        /\ \A q \in Requests \ {r} : req'[q] = req[q]
    BY <2>1, <2>3, Began
  <2> QED BY <1>1, <2>1, <2>2, TypeKept DEF VerifyReadsNonce, redisVars, sessionVars, unlinkVars, RotateSteps
<1>2. CASE VerifyConsumes(r)
  <2>1. nonceKey' \in [Wallets -> Nat]
    BY <1>2 DEF AccountType, VerifyConsumes
  <2>2. /\ req' \in [Requests -> ReqRow]
        /\ req'[r].at = "find" /\ req'[r].wallet = req[r].wallet /\ req'[r].arg = req[r].arg
        /\ \A q \in Requests \ {r} : req'[q] = req[q]
    BY <1>2, GoesOn DEF VerifyConsumes, Steps, SignInSteps
  <2> QED BY <1>2, <2>1, <2>2 DEF AccountType, VerifyConsumes, sessionVars, unlinkVars, SignInSteps, RotateSteps
<1>3. CASE VerifyFindsUser(r) \/ VerifyUpdatesUser(r)
  <2>1. PICK at \in {"update", "create", "issue"} : req' = [req EXCEPT ![r].at = at]
    BY <1>3 DEF VerifyFindsUser, VerifyUpdatesUser
  <2>2. /\ req' \in [Requests -> ReqRow]
        /\ req'[r].at = at /\ req'[r].wallet = req[r].wallet /\ req'[r].arg = req[r].arg
        /\ \A q \in Requests \ {r} : req'[q] = req[q]
    BY <2>1, GoesOn DEF Steps, SignInSteps
  <2>3. req[r].at \in SignInSteps
    BY <1>3 DEF VerifyFindsUser, VerifyUpdatesUser, SignInSteps
  <2>4. UNCHANGED <<nonces, nonceKey, sessions, unlinkOf, rebound, granted>>
    BY <1>3 DEF VerifyFindsUser, VerifyUpdatesUser, redisVars, sessionVars, unlinkVars
  <2> QED BY <2>2, <2>3, <2>4, TypeKept DEF AccountType, SignInSteps, RotateSteps
<1>4. CASE VerifyCreatesUser(r)
  <2>1. UNCHANGED <<nonces, nonceKey, sessions, unlinkOf, rebound, granted>>
    BY <1>4 DEF VerifyCreatesUser, redisVars, sessionVars, unlinkVars
  <2>2. CASE req' = [req EXCEPT ![r] = Idle]
    BY <2>1, <2>2, Ends, TypeKept DEF SignInSteps, RotateSteps
  <2>3. CASE req' = [req EXCEPT ![r].at = "issue"]
    <3>1. /\ req' \in [Requests -> ReqRow]
          /\ req'[r].at = "issue" /\ req'[r].wallet = req[r].wallet /\ req'[r].arg = req[r].arg
          /\ \A q \in Requests \ {r} : req'[q] = req[q]
      BY <2>3, GoesOn DEF Steps, SignInSteps
    <3> QED BY <1>4, <2>1, <3>1, TypeKept DEF AccountType, VerifyCreatesUser, SignInSteps, RotateSteps
  <2> QED BY <1>4, <2>2, <2>3 DEF VerifyCreatesUser
<1>5. CASE VerifyIssues(r)
  <2>1. req[r].wallet \in Wallets
    BY <1>5 DEF AccountType, VerifyIssues, SignInSteps
  <2> DEFINE row == [user |-> req[r].wallet, revoked |-> FALSE, from |-> 0, login |-> Len(sessions) + 1,
                     raced |-> FALSE]
  <2>2. row \in SessionRow
    BY <2>1 DEF AccountType, SessionRow
  <2>3. sessions' = Append(sessions, row) /\ req' = [req EXCEPT ![r] = Idle]
        /\ UNCHANGED <<nonces, nonceKey, unlinkOf, rebound, granted>>
    BY <1>5 DEF VerifyIssues, redisVars, unlinkVars
  <2> HIDE DEF row
  <2> QED BY <2>2, <2>3, TypeIssued
<1> QED BY <1>1, <1>2, <1>3, <1>4, <1>5 DEF Verify

\* Rotation.
LEMMA TypeRefresh ==
    ASSUME AccountType, NEW r \in Requests, Refresh(r)
    PROVE  AccountType'
<1>1. ASSUME NEW s \in DOMAIN sessions, RotateReads(r, s) PROVE AccountType'
  <2>1. s \in 1..Len(sessions) /\ s \in Nat \cup Addresses /\ sessions[s] \in SessionRow
    BY DEF AccountType
  <2>3. sessions[s].user \in Wallets
    BY <2>1 DEF SessionRow
  <2>4. PICK at \in {"sweep", "revoke"} : Begins(r, at, sessions[s].user, s)
    BY <1>1 DEF RotateReads
  <2>5. at \in Steps
    BY DEF Steps, RotateSteps
  <2>2. /\ req' \in [Requests -> ReqRow]
        /\ req'[r].at \in {"sweep", "revoke"} /\ req'[r].arg = s
        /\ \A q \in Requests \ {r} : req'[q] = req[q]
    BY <2>1, <2>3, <2>4, <2>5, Began
  <2> QED BY <1>1, <2>1, <2>2, TypeKept DEF RotateReads, redisVars, sessionVars, unlinkVars, SignInSteps
<1>2. CASE RotateSweeps(r)
  <2> DEFINE ss == SessionsOf(req[r].wallet)
  <2>1. sessions' = [s \in DOMAIN sessions |-> [sessions[s] EXCEPT !.revoked = @ \/ s \in ss]]
    BY <1>2 DEF RotateSweeps
  <2>2. sessions' \in Seq(SessionRow) /\ Len(sessions') = Len(sessions)
    BY <2>1, RevokesAll
  <2>3. req' = [Overtaking(ss, {r}) EXCEPT ![r] = Idle]
    BY <1>2 DEF RotateSweeps
  <2> HIDE DEF ss
  <2>4. Idle \in ReqRow /\ Idle.at = "idle"
    BY DEF Idle, ReqRow, Steps
  <2>5. /\ req' \in [Requests -> ReqRow] /\ req'[r].at = "idle"
        /\ \A q \in Requests \ {r} : /\ req'[q].at = req[q].at /\ req'[q].wallet = req[q].wallet
                                     /\ req'[q].arg = req[q].arg
    BY <2>3, <2>4, Overtakes
  <2> QED BY <1>2, <2>2, <2>5, TypeEnded DEF RotateSweeps, redisVars, unlinkVars
<1>3. CASE RotateRevokes(r)
  <2> DEFINE s == req[r].arg
             base == IF sessions[s].revoked THEN req ELSE Overtaking({s}, {r})
  <2>1. s \in 1..Len(sessions)
    BY <1>3 DEF AccountType, RotateRevokes, RotateSteps
  <2>2. sessions' \in Seq(SessionRow) /\ Len(sessions') = Len(sessions)
    BY <1>3, <2>1, RevokesOne DEF RotateRevokes
  <2>3. base \in [Requests -> ReqRow]
        /\ \A q \in Requests : base[q].at = req[q].at /\ base[q].wallet = req[q].wallet /\ base[q].arg = req[q].arg
    BY Overtakes DEF AccountType
  <2>4. req' = [base EXCEPT ![r].at = "reissue"]
    BY <1>3 DEF RotateRevokes
  <2> HIDE DEF base
  <2>5. [base[r] EXCEPT !.at = "reissue"] \in ReqRow
    BY <2>3 DEF ReqRow, Steps, RotateSteps
  <2>6. /\ req' \in [Requests -> ReqRow]
        /\ \A q \in Requests : /\ req'[q].wallet = req[q].wallet /\ req'[q].arg = req[q].arg
                               /\ req'[q].at = req[q].at \/ (q = r /\ req'[q].at = "reissue")
    BY <2>3, <2>4, <2>5 DEF ReqRow
  <2> QED BY <1>3, <2>2, <2>6, TypeEnded DEF RotateRevokes, RotateSteps, redisVars, unlinkVars
<1>4. CASE RotateIssues(r)
  <2> DEFINE s == req[r].arg
             row == [user |-> sessions[s].user, revoked |-> FALSE, from |-> s, login |-> sessions[s].login,
                     raced |-> sessions[s].raced \/ req[r].raced]
  <2>1. s \in 1..Len(sessions) /\ s \in Nat /\ sessions[s] \in SessionRow /\ req[r] \in ReqRow
    BY <1>4 DEF AccountType, RotateIssues, RotateSteps
  <2>2. row \in SessionRow
    BY <2>1 DEF SessionRow, ReqRow
  <2>3. sessions' = Append(sessions, row) /\ req' = [req EXCEPT ![r] = Idle]
        /\ UNCHANGED <<nonces, nonceKey, unlinkOf, rebound, granted>>
    BY <1>4 DEF RotateIssues, redisVars, unlinkVars
  <2> HIDE DEF row
  <2> QED BY <2>2, <2>3, TypeIssued
<1> QED BY <1>1, <1>2, <1>3, <1>4 DEF Refresh

\* Registration and the tokens that follow.
LEMMA TypeUnlink ==
    ASSUME AccountType, NEW r \in Requests, Unlink(r)
    PROVE  AccountType'
<1>1. ASSUME NEW w \in Wallets, NEW a \in Addresses, BindReads(r, w, a) \/ TokenReads(r, w, a)
      PROVE  AccountType'
  <2>1. PICK at \in {"bind", "token"} : Begins(r, at, w, a)
    BY <1>1 DEF BindReads, TokenReads
  <2>2. at \in Steps /\ a \in Nat \cup Addresses
    BY DEF Steps
  <2>3. /\ req' \in [Requests -> ReqRow]
        /\ req'[r].at = at /\ req'[r].wallet = w /\ req'[r].arg = a
        /\ \A q \in Requests \ {r} : req'[q] = req[q]
    BY <2>1, <2>2, Began
  <2>4. UNCHANGED <<nonces, nonceKey, sessions, unlinkOf, rebound, granted>>
    BY <1>1 DEF BindReads, TokenReads, redisVars, sessionVars, unlinkVars
  <2> QED BY <2>3, <2>4, TypeKept DEF SignInSteps, RotateSteps
<1>2. CASE Binds(r)
  <2> DEFINE w == req[r].wallet
  <2>1. w \in Wallets /\ req[r].arg \in Addresses
    BY <1>2 DEF AccountType, Binds
  <2>2. UNCHANGED <<nonces, nonceKey, sessions, granted>>
    BY <1>2 DEF Binds, redisVars, sessionVars
  <2>3. CASE req' = [req EXCEPT ![r] = Idle] /\ UNCHANGED <<unlinkOf, rebound>>
    BY <2>2, <2>3, Ends, TypeKept DEF SignInSteps, RotateSteps
  <2>4. CASE /\ unlinkOf' = [unlinkOf EXCEPT ![w] = req[r].arg]
             /\ rebound' = IF unlinkOf[w] \in {None, req[r].arg} THEN rebound ELSE rebound \cup {w}
             /\ req' = [OvertakingBinds(w, r) EXCEPT ![r] = Idle]
    <3>1. unlinkOf' \in [Wallets -> Addresses \cup {None}] /\ rebound' \subseteq Wallets
      BY <2>1, <2>4 DEF AccountType
    <3>2. Idle \in ReqRow /\ Idle.at = "idle"
      BY DEF Idle, ReqRow, Steps
    <3>3. /\ req' \in [Requests -> ReqRow] /\ req'[r].at = "idle"
          /\ \A q \in Requests \ {r} : /\ req'[q].at = req[q].at /\ req'[q].wallet = req[q].wallet
                                       /\ req'[q].arg = req[q].arg
      BY <2>4, <3>2, BindsOvertake
    <3> QED BY <2>2, <3>1, <3>3 DEF AccountType, SignInSteps, RotateSteps
  <2> QED BY <1>2, <2>3, <2>4 DEF Binds
<1>3. CASE TokenIssues(r)
  <2>1. granted' \subseteq Wallets \X Addresses
    BY <1>3 DEF AccountType, TokenIssues
  <2>2. req' \in [Requests -> ReqRow] /\ req'[r].at = "idle" /\ \A q \in Requests \ {r} : req'[q] = req[q]
    BY <1>3, Ends DEF TokenIssues
  <2> QED BY <1>3, <2>1, <2>2 DEF AccountType, TokenIssues, redisVars, sessionVars, SignInSteps, RotateSteps
<1> QED BY <1>1, <1>2, <1>3 DEF Unlink

\* No step stores or carries anything of another type.
LEMMA TypeStep == AccountType /\ [Next]_vars => AccountType'
<1> SUFFICES ASSUME AccountType, [Next]_vars PROVE AccountType'
  OBVIOUS
<1>1. CASE MessageExpires \/ SessionExpires \/ UNCHANGED vars
  BY <1>1 DEF AccountType, MessageExpires, SessionExpires, vars, redisVars, sessionVars, unlinkVars
<1>2. ASSUME NEW w \in Wallets, KeyExpires(w) PROVE AccountType'
  <2>1. nonceKey' \in [Wallets -> Nat]
    BY <1>2 DEF AccountType, KeyExpires
  <2> QED BY <1>2, <2>1 DEF AccountType, KeyExpires, sessionVars, unlinkVars
<1>3. ASSUME NEW w \in Wallets, RequestNonce(w) PROVE AccountType'
  <2>1. nonces' \in Seq(Wallets) /\ Len(nonces') = Len(nonces) + 1 /\ Len(nonces) \in Nat
        /\ \A n \in 1..Len(nonces) : nonces'[n] = nonces[n]
    BY <1>3 DEF AccountType, RequestNonce
  <2>2. nonceKey' \in [Wallets -> Nat]
    BY <1>3 DEF AccountType, RequestNonce
  <2> QED BY <1>3, <2>1, <2>2 DEF AccountType, RequestNonce, sessionVars, unlinkVars
<1>4. ASSUME NEW s \in DOMAIN sessions, LogsOut(s) PROVE AccountType'
  <2>1. s \in 1..Len(sessions)
    BY DEF AccountType
  <2>2. sessions' \in Seq(SessionRow) /\ Len(sessions') = Len(sessions)
    BY <1>4, <2>1, RevokesOne DEF LogsOut
  <2>3. /\ req' \in [Requests -> ReqRow]
        /\ \A q \in Requests : /\ req'[q].at = req[q].at /\ req'[q].wallet = req[q].wallet
                               /\ req'[q].arg = req[q].arg
    BY <1>4, Overtakes DEF AccountType, LogsOut
  <2> QED BY <1>4, <2>2, <2>3, TypeEnded DEF LogsOut, redisVars, unlinkVars
<1>5. ASSUME NEW r \in Requests, RequestFails(r) PROVE AccountType'
  BY <1>5, Ends, TypeKept DEF RequestFails, redisVars, sessionVars, unlinkVars, SignInSteps, RotateSteps
<1> QED BY <1>1, <1>2, <1>3, <1>4, <1>5, TypeVerify, TypeRefresh, TypeUnlink DEF Next

\* The types hold throughout.
LEMMA TypeAlways == Spec => []AccountType
BY TypeInit, TypeStep, PTL DEF Spec

-----------------------------------------------------------------------------
(* Nonces *)

\* A key holds a nonce that was issued to its wallet and that no sign-in has deleted.
NonceInv ==
    /\ AccountType
    /\ spent \subseteq 1..Len(nonces)
    /\ \A w \in Wallets : nonceKey[w] # 0 =>
         /\ nonceKey[w] \in 1..Len(nonces) \ spent
         /\ nonces[nonceKey[w]] = w

\* Who signs in next with n signs in with it already, or finds it in its wallet's key.
LEMMA SignsIn ==
    ASSUME AccountType, [Next]_vars, NEW r \in Requests, NEW n, r \in SignedInWith(n)'
    PROVE  r \in SignedInWith(n) \/ (n \in 1..Len(nonces) /\ nonceKey[nonces[n]] = n)
<1> USE DEF SignedInWith
<1>1. req'[r].at \in SignInSteps /\ req'[r].arg = n
  OBVIOUS
<1>2. CASE req'[r] = req[r]
  BY <1>1, <1>2
<1>3. ASSUME NEW m \in DOMAIN nonces, VerifyReadsNonce(r, m)
      PROVE  n \in 1..Len(nonces) /\ nonceKey[nonces[n]] = n
  <2>1. m \in 1..Len(nonces) /\ m \in Nat \cup Addresses /\ nonces[m] \in Wallets /\ "consume" \in Steps
        /\ nonceKey[nonces[m]] = m /\ Begins(r, "consume", nonces[m], m)
    BY <1>3 DEF AccountType, VerifyReadsNonce, Steps, SignInSteps
  <2>2. req'[r].arg = m
    BY <2>1, Began
  <2> QED BY <1>1, <2>1, <2>2
<1>4. ASSUME NEW at \in SignInSteps, req' = [req EXCEPT ![r].at = at], req[r].at \in SignInSteps
      PROVE  r \in SignedInWith(n)
  BY <1>1, <1>4, GoesOn DEF Steps
<1>5. ASSUME NEW q \in Requests, Verify(q) PROVE r \in SignedInWith(n) \/ (n \in 1..Len(nonces) /\ nonceKey[nonces[n]] = n)
  <2>1. CASE q # r
    <3>1. req'[r] = req[r]
      BY <1>5, <2>1 DEF AccountType, Verify, VerifyReadsNonce, Begins, VerifyConsumes, VerifyFindsUser,
              VerifyUpdatesUser, VerifyCreatesUser, VerifyIssues
    <3> QED BY <1>2, <3>1
  <2>2. CASE q = r
    <3>1. CASE \E m \in DOMAIN nonces : VerifyReadsNonce(r, m)
      BY <1>3, <3>1
    <3>2. CASE req' = [req EXCEPT ![r] = Idle]
      BY <1>1, <3>2, Ends DEF SignInSteps
    <3>3. CASE VerifyConsumes(r) \/ VerifyFindsUser(r) \/ VerifyUpdatesUser(r)
      BY <1>4, <3>3 DEF VerifyConsumes, VerifyFindsUser, VerifyUpdatesUser, SignInSteps
    <3>4. CASE VerifyCreatesUser(r)
      BY <1>4, <3>2, <3>4 DEF VerifyCreatesUser, SignInSteps
    <3> QED BY <1>5, <2>2, <3>1, <3>2, <3>3, <3>4 DEF Verify, VerifyIssues
  <2> QED BY <2>1, <2>2
<1>6. ASSUME NEW q \in Requests, Refresh(q) PROVE r \in SignedInWith(n)
  <2>1. ASSUME NEW s \in DOMAIN sessions, RotateReads(q, s) PROVE r \in SignedInWith(n)
    BY <1>1, <2>1 DEF AccountType, RotateReads, Begins, SignInSteps
  <2>2. CASE RotateIssues(q)
    BY <1>1, <2>2 DEF AccountType, RotateIssues, Idle, SignInSteps
  <2>3. CASE RotateSweeps(q)
    <3>1. PICK ss : req' = [Overtaking(ss, {q}) EXCEPT ![q] = Idle]
      BY <2>3 DEF RotateSweeps
    <3> QED BY <1>1, <3>1, Overtakes DEF Idle, SignInSteps
  <2>4. CASE RotateRevokes(q)
    <3>1. CASE req' = [req EXCEPT ![q].at = "reissue"]
      BY <1>1, <3>1 DEF AccountType, ReqRow, SignInSteps
    <3>2. CASE req' = [Overtaking({req[q].arg}, {q}) EXCEPT ![q].at = "reissue"]
      BY <1>1, <3>2, Overtakes DEF ReqRow, SignInSteps
    <3> QED BY <2>4, <3>1, <3>2 DEF RotateRevokes
  <2> QED BY <1>6, <2>1, <2>2, <2>3, <2>4 DEF Refresh
<1>7. ASSUME NEW q \in Requests, Unlink(q) PROVE r \in SignedInWith(n)
  <2>1. ASSUME NEW w \in Wallets, NEW a \in Addresses, BindReads(q, w, a) \/ TokenReads(q, w, a)
        PROVE  r \in SignedInWith(n)
    <3>1. PICK at \in {"bind", "token"} : Begins(q, at, w, a)
      BY <2>1 DEF BindReads, TokenReads
    <3>2. at \in Steps /\ at \notin SignInSteps /\ a \in Nat \cup Addresses
      BY DEF Steps, SignInSteps
    <3>3. req'[q].at = at /\ \A p \in Requests \ {q} : req'[p] = req[p]
      BY <3>1, <3>2, Began
    <3> QED BY <1>1, <3>2, <3>3
  <2>2. CASE req' = [req EXCEPT ![q] = Idle]
    BY <1>1, <2>2 DEF AccountType, Idle, SignInSteps
  <2>3. CASE req' = [OvertakingBinds(req[q].wallet, q) EXCEPT ![q] = Idle]
    BY <1>1, <2>3, BindsOvertake DEF Idle, SignInSteps
  <2> QED BY <1>7, <2>1, <2>2, <2>3 DEF Unlink, Binds, TokenIssues
<1>8. ASSUME NEW s \in DOMAIN sessions, LogsOut(s) PROVE r \in SignedInWith(n)
  BY <1>1, <1>8, Overtakes DEF LogsOut
<1>9. ASSUME NEW q \in Requests, RequestFails(q) PROVE r \in SignedInWith(n)
  BY <1>1, <1>9 DEF AccountType, RequestFails, Idle, SignInSteps
<1>10. CASE UNCHANGED req
  BY <1>2, <1>10
<1> QED BY <1>5, <1>6, <1>7, <1>8, <1>9, <1>10
        DEF Next, vars, MessageExpires, SessionExpires, KeyExpires, RequestNonce

\* No key gets back a nonce that was deleted.
LEMMA NonceStep == NonceInv /\ [Next]_vars => NonceInv'
<1> SUFFICES ASSUME NonceInv, [Next]_vars PROVE NonceInv'
  OBVIOUS
<1>1. AccountType /\ AccountType'
  BY TypeStep DEF NonceInv
<1>2. CASE UNCHANGED <<nonces, nonceKey, spent>>
  BY <1>1, <1>2 DEF NonceInv
<1>3. ASSUME NEW w \in Wallets, KeyExpires(w) PROVE NonceInv'
  BY <1>1, <1>3 DEF NonceInv, AccountType, KeyExpires
<1>4. ASSUME NEW w \in Wallets, RequestNonce(w) PROVE NonceInv'
  <2>1. nonces' \in Seq(Wallets) /\ Len(nonces') = Len(nonces) + 1 /\ Len(nonces) \in Nat
        /\ nonces'[Len(nonces) + 1] = w /\ \A n \in 1..Len(nonces) : nonces'[n] = nonces[n]
    BY <1>1, <1>4 DEF AccountType, RequestNonce
  <2>2. nonceKey'[w] = Len(nonces) + 1 /\ \A v \in Wallets \ {w} : nonceKey'[v] = nonceKey[v]
    BY <1>1, <1>4 DEF AccountType, RequestNonce
  <2>3. spent' = spent
    BY <1>4 DEF RequestNonce
  <2> QED BY <1>1, <2>1, <2>2, <2>3 DEF NonceInv
<1>5. ASSUME NEW r \in Requests, VerifyConsumes(r) PROVE NonceInv'
  <2>1. req[r].arg \in 1..Len(nonces) /\ req[r].wallet = nonces[req[r].arg] /\ req[r].wallet \in Wallets
    BY <1>1, <1>5 DEF AccountType, VerifyConsumes, SignInSteps
  <2>2. nonceKey'[req[r].wallet] = 0 /\ \A v \in Wallets \ {req[r].wallet} : nonceKey'[v] = nonceKey[v]
    BY <1>1, <1>5, <2>1 DEF AccountType, VerifyConsumes
  <2>3. nonces' = nonces /\ spent' = spent \cup {req[r].arg}
    BY <1>5 DEF VerifyConsumes
  <2> QED BY <1>1, <2>1, <2>2, <2>3 DEF NonceInv
<1>6. ASSUME NEW r \in Requests, Verify(r) PROVE NonceInv'
  BY <1>2, <1>5, <1>6 DEF Verify, VerifyReadsNonce, VerifyFindsUser, VerifyUpdatesUser, VerifyCreatesUser,
     VerifyIssues, redisVars
<1>7. ASSUME NEW r \in Requests, Refresh(r) \/ Unlink(r) \/ RequestFails(r) PROVE NonceInv'
  BY <1>2, <1>7 DEF Refresh, RotateReads, RotateSweeps, RotateRevokes, RotateIssues, Unlink, BindReads,
     TokenReads, Binds, TokenIssues, RequestFails, redisVars
<1> QED BY <1>2, <1>3, <1>4, <1>6, <1>7 DEF Next, vars, MessageExpires, SessionExpires, LogsOut, redisVars

\* Nothing was issued at the start.
LEMMA NonceInit == Init => NonceInv
BY TypeInit DEF Init, NonceInv

\* AuthService.verify: once a sign-in has deleted a nonce, nobody gets past the nonce check with it
\* who had not before, for any wallets, requests and nonces.
THEOREM NoncesSignInOnce == Spec => NonceSpentOnce
<1>1. NonceInv /\ [Next]_vars => [\A n \in spent : SignedInWith(n)' \subseteq SignedInWith(n)]_vars
  <2> SUFFICES ASSUME NonceInv, [Next]_vars, NEW n \in spent, NEW r \in SignedInWith(n)'
               PROVE  r \in SignedInWith(n)
    OBVIOUS
  <2>1. AccountType /\ r \in Requests /\ n \in 1..Len(nonces)
    BY DEF NonceInv, SignedInWith
  <2>2. nonces[n] \in Wallets
    BY <2>1 DEF AccountType
  <2>3. nonceKey[nonces[n]] # n
    BY <2>1, <2>2 DEF NonceInv
  <2> QED BY <2>1, <2>3, SignsIn
<1> QED BY <1>1, NonceInit, NonceStep, PTL DEF Spec, NonceSpentOnce

-----------------------------------------------------------------------------
(* Bindings *)

\* w was bound to a when its right to read a was established, and still is unless it was rebound.
Entitled(w, a) == unlinkOf[w] = a \/ w \in rebound

\* No address is bound twice, every token is for an address its user is entitled to, and a bind that
\* nobody overtook writes where nothing is.
BindInv ==
    /\ AccountType
    /\ \A v, w \in Wallets : unlinkOf[v] = unlinkOf[w] /\ unlinkOf[w] # None => v = w
    /\ \A g \in granted : Entitled(g[1], g[2])
    /\ \A r \in Requests :
         /\ req[r].at = "token" => Entitled(req[r].wallet, req[r].arg)
         /\ req[r].at = "bind" /\ ~ req[r].raced => unlinkOf[req[r].wallet] = None

\* Requests of other kinds neither bind nor overtake a bind.
LEMMA OthersBindNothing ==
    ASSUME AccountType, NEW r \in Requests,
           \/ \E q \in Requests : Verify(q) \/ Refresh(q) \/ RequestFails(q)
           \/ \E s \in DOMAIN sessions : LogsOut(s)
           \/ UNCHANGED req,
           req'[r].at \in {"bind", "token"}
    PROVE  /\ req'[r].at = req[r].at /\ req'[r].wallet = req[r].wallet /\ req'[r].arg = req[r].arg
           /\ req'[r].raced = req[r].raced
<1> DEFINE Same == /\ req'[r].at = req[r].at /\ req'[r].wallet = req[r].wallet /\ req'[r].arg = req[r].arg
                   /\ req'[r].raced = req[r].raced
<1>1. CASE req'[r] = req[r]
  BY <1>1
<1>2. ASSUME NEW q \in Requests, NEW at \in SignInSteps \cup RotateSteps, NEW w \in Wallets,
             NEW arg \in Nat \cup Addresses, Begins(q, at, w, arg)
      PROVE  Same
  <2>1. at \in Steps /\ at \notin {"bind", "token"}
    BY DEF Steps, SignInSteps, RotateSteps
  <2>2. req'[q].at = at /\ \A p \in Requests \ {q} : req'[p] = req[p]
    BY <1>2, <2>1, Began
  <2> QED BY <2>1, <2>2
<1>3. ASSUME NEW q \in Requests, NEW at \in SignInSteps \cup RotateSteps, req' = [req EXCEPT ![q].at = at]
      PROVE  Same
  <2>1. at \in Steps /\ at \notin {"bind", "token"}
    BY DEF Steps, SignInSteps, RotateSteps
  <2>2. req'[q].at = at /\ \A p \in Requests \ {q} : req'[p] = req[p]
    BY <1>3, <2>1, GoesOn
  <2> QED BY <2>1, <2>2
<1>4. ASSUME NEW q \in Requests, req' = [req EXCEPT ![q] = Idle] PROVE Same
  BY <1>4, Ends
<1>5. ASSUME NEW ss, NEW rs, req'[r] = Overtaking(ss, rs)[r] PROVE Same
  <2>1. /\ req'[r].at = req[r].at /\ req'[r].wallet = req[r].wallet /\ req'[r].arg = req[r].arg
        /\ req'[r].raced <=> req[r].raced \/ (r \notin rs /\ req[r].at \in RotateSteps /\ req[r].arg \in ss)
    BY <1>5, Overtakes
  <2>2. req'[r].raced <=> req[r].raced
    BY <2>1 DEF RotateSteps
  <2>3. req[r].raced \in BOOLEAN /\ req'[r].raced \in BOOLEAN
    BY <1>5, Overtakes DEF AccountType, ReqRow
  <2> QED BY <2>1, <2>2, <2>3
<1>6. ASSUME NEW q \in Requests, Verify(q) PROVE Same
  <2>1. ASSUME NEW m \in DOMAIN nonces, VerifyReadsNonce(q, m) PROVE Same
    <3>1. m \in Nat \cup Addresses /\ nonces[m] \in Wallets /\ "consume" \in SignInSteps
          /\ Begins(q, "consume", nonces[m], m)
      BY <2>1 DEF AccountType, VerifyReadsNonce, SignInSteps
    <3> QED BY <1>2, <3>1
  <2>2. CASE VerifyConsumes(q) \/ VerifyFindsUser(q) \/ VerifyUpdatesUser(q)
    BY <1>3, <2>2 DEF VerifyConsumes, VerifyFindsUser, VerifyUpdatesUser, SignInSteps
  <2>3. CASE VerifyCreatesUser(q)
    BY <1>3, <1>4, <2>3 DEF VerifyCreatesUser, SignInSteps
  <2>4. CASE VerifyIssues(q)
    BY <1>4, <2>4 DEF VerifyIssues
  <2> QED BY <1>6, <2>1, <2>2, <2>3, <2>4 DEF Verify
<1>7. ASSUME NEW q \in Requests, Refresh(q) PROVE Same
  <2>1. ASSUME NEW s \in DOMAIN sessions, RotateReads(q, s) PROVE Same
    <3>1. s \in Nat \cup Addresses /\ sessions[s] \in SessionRow
      BY DEF AccountType
    <3>2. sessions[s].user \in Wallets
      BY <3>1 DEF SessionRow
    <3>3. PICK at \in {"sweep", "revoke"} : Begins(q, at, sessions[s].user, s)
      BY <2>1 DEF RotateReads
    <3>4. at \in Steps /\ at \notin {"bind", "token"}
      BY DEF Steps, RotateSteps
    <3>5. req'[q].at = at /\ \A p \in Requests \ {q} : req'[p] = req[p]
      BY <3>1, <3>2, <3>3, <3>4, Began
    <3> QED BY <3>4, <3>5
  <2>2. CASE RotateSweeps(q)
    <3>1. PICK ss : req' = [Overtaking(ss, {q}) EXCEPT ![q] = Idle]
      BY <2>2 DEF RotateSweeps
    <3>2. CASE r = q
      BY <3>1, <3>2, Overtakes DEF Idle
    <3>3. CASE r # q
      <4>1. req'[r] = Overtaking(ss, {q})[r]
        BY <3>1, <3>3, Overtakes
      <4> QED BY <1>5, <4>1
    <3> QED BY <3>2, <3>3
  <2>3. CASE RotateRevokes(q)
    <3>1. CASE req' = [req EXCEPT ![q].at = "reissue"]
      BY <1>3, <3>1 DEF RotateSteps
    <3>2. CASE req' = [Overtaking({req[q].arg}, {q}) EXCEPT ![q].at = "reissue"]
      <4>1. CASE r = q
        BY <3>2, <4>1, Overtakes DEF ReqRow
      <4>2. CASE r # q
        <5>1. req'[r] = Overtaking({req[q].arg}, {q})[r]
          BY <3>2, <4>2, Overtakes
        <5> QED BY <1>5, <5>1
      <4> QED BY <4>1, <4>2
    <3> QED BY <2>3, <3>1, <3>2 DEF RotateRevokes
  <2>4. CASE RotateIssues(q)
    BY <1>4, <2>4 DEF RotateIssues
  <2> QED BY <1>7, <2>1, <2>2, <2>3, <2>4 DEF Refresh
<1>8. ASSUME NEW s \in DOMAIN sessions, LogsOut(s) PROVE Same
  BY <1>1, <1>5, <1>8 DEF LogsOut
<1> QED BY <1>1, <1>4, <1>6, <1>7, <1>8 DEF RequestFails

\* A step that leaves bindings, tokens and the requests about them alone.
LEMMA BindKept ==
    ASSUME BindInv, AccountType', UNCHANGED <<unlinkOf, rebound, granted>>,
           \A r \in Requests : req'[r].at \in {"bind", "token"} =>
               /\ req'[r].at = req[r].at /\ req'[r].wallet = req[r].wallet /\ req'[r].arg = req[r].arg
               /\ req'[r].raced = req[r].raced
    PROVE  BindInv'
BY DEF BindInv, Entitled

\* bind, owns and the token.
LEMMA BindUnlink ==
    ASSUME BindInv, AccountType', NEW r \in Requests, Unlink(r)
    PROVE  BindInv'
<1>1. ASSUME NEW w \in Wallets, NEW a \in Addresses, BindReads(r, w, a) \/ TokenReads(r, w, a)
      PROVE  BindInv'
  <2>1. PICK at \in {"bind", "token"} : Begins(r, at, w, a) /\ unlinkOf[w] = IF at = "bind" THEN None ELSE a
    BY <1>1 DEF BindReads, TokenReads
  <2>2. at \in Steps /\ a \in Nat \cup Addresses /\ AccountType /\ Begins(r, at, w, a)
    BY <2>1 DEF Steps, BindInv
  <2>3. /\ req'[r].at = at /\ req'[r].wallet = w /\ req'[r].arg = a
        /\ \A q \in Requests \ {r} : req'[q] = req[q]
    BY <2>2, Began
  <2>4. UNCHANGED <<unlinkOf, rebound, granted>>
    BY <1>1 DEF BindReads, TokenReads, unlinkVars
  <2> QED BY <2>1, <2>3, <2>4 DEF BindInv, Entitled
<1>2. CASE Binds(r)
  <2> DEFINE w == req[r].wallet
             a == req[r].arg
  <2>1. w \in Wallets /\ a \in Addresses /\ req[r].at = "bind" /\ granted' = granted
        /\ unlinkOf \in [Wallets -> Addresses \cup {None}] /\ granted \subseteq Wallets \X Addresses
    BY <1>2 DEF BindInv, AccountType, Binds
  <2>2. CASE req' = [req EXCEPT ![r] = Idle] /\ UNCHANGED <<unlinkOf, rebound>>
    <3>1. req'[r].at = "idle" /\ \A q \in Requests \ {r} : req'[q] = req[q]
      BY <2>2, Ends DEF BindInv
    <3> QED BY <2>1, <2>2, <3>1, BindKept
  <2>3. CASE /\ ~ \E v \in Wallets \ {w} : unlinkOf[v] = a
             /\ unlinkOf' = [unlinkOf EXCEPT ![w] = a]
             /\ rebound' = IF unlinkOf[w] \in {None, a} THEN rebound ELSE rebound \cup {w}
             /\ req' = [OvertakingBinds(w, r) EXCEPT ![r] = Idle]
    <3>1. req'[r].at = "idle"
      BY <2>3, BindsOvertake DEF BindInv, Idle
    <3>2. \A q \in Requests \ {r} :
            /\ req'[q].at = req[q].at /\ req'[q].wallet = req[q].wallet /\ req'[q].arg = req[q].arg
            /\ req'[q].raced <=> req[q].raced \/ (req[q].at = "bind" /\ req[q].wallet = w)
      BY <2>3, BindsOvertake DEF BindInv
    <3>3. unlinkOf'[w] = a /\ \A v \in Wallets \ {w} : unlinkOf'[v] = unlinkOf[v]
      BY <2>1, <2>3
    <3>4. \A v, u \in Wallets : unlinkOf'[v] = unlinkOf'[u] /\ unlinkOf'[u] # None => v = u
      BY <2>3, <3>3 DEF BindInv
    <3>5. ASSUME NEW v \in Wallets, NEW b \in Addresses, Entitled(v, b) PROVE Entitled(v, b)'
      <4>1. b # None
        BY AccountsAssumption
      <4>2. CASE v = w
        BY <2>3, <3>3, <3>5, <4>1, <4>2 DEF Entitled
      <4>3. CASE v # w
        BY <2>3, <3>3, <3>5, <4>3 DEF Entitled
      <4> QED BY <4>2, <4>3
    <3>6. \A g \in granted : g[1] \in Wallets /\ g[2] \in Addresses
      BY <2>1
    <3>7. \A g \in granted' : Entitled(g[1], g[2])'
      BY <2>1, <3>5, <3>6 DEF BindInv
    <3>8. ASSUME NEW q \in Requests, req'[q].at = "token" PROVE Entitled(req[q].wallet, req[q].arg)'
      <4>1. q # r /\ req[q].at = "token" /\ req'[q].wallet = req[q].wallet /\ req'[q].arg = req[q].arg
        BY <3>1, <3>2, <3>8
      <4>2. req[q].wallet \in Wallets /\ req[q].arg \in Addresses
        BY <4>1 DEF BindInv, AccountType
      <4>3. Entitled(req[q].wallet, req[q].arg)
        BY <4>1 DEF BindInv
      <4>4. unlinkOf'[req[q].wallet] = req[q].arg \/ req[q].wallet \in rebound'
        BY <3>5, <4>2, <4>3 DEF Entitled
      <4> QED BY <4>1, <4>4 DEF Entitled
    <3>9. ASSUME NEW q \in Requests, req'[q].at = "bind", ~ req'[q].raced PROVE unlinkOf'[req'[q].wallet] = None
      <4>1. q # r /\ req[q].at = "bind" /\ ~ req[q].raced /\ req'[q].wallet = req[q].wallet /\ req[q].wallet # w
        BY <3>1, <3>2, <3>9
      <4>2. req[q].wallet \in Wallets
        BY <4>1 DEF BindInv, AccountType
      <4> QED BY <3>3, <4>1, <4>2 DEF BindInv
    <3>10. \A q \in Requests :
             /\ req'[q].at = "token" => Entitled(req[q].wallet, req[q].arg)'
             /\ req'[q].at = "bind" /\ ~ req'[q].raced => unlinkOf'[req'[q].wallet] = None
      BY <3>8, <3>9
    <3> QED BY <3>4, <3>7, <3>10 DEF BindInv
  <2> QED BY <1>2, <2>2, <2>3 DEF Binds
<1>3. CASE TokenIssues(r)
  <2>1. req'[r].at = "idle" /\ \A q \in Requests \ {r} : req'[q] = req[q]
    BY <1>3, Ends DEF BindInv, TokenIssues
  <2>2. UNCHANGED <<unlinkOf, rebound>> /\ granted' = granted \cup {<<req[r].wallet, req[r].arg>>}
        /\ req[r].at = "token"
    BY <1>3 DEF TokenIssues
  <2> QED BY <2>1, <2>2 DEF BindInv, Entitled
<1> QED BY <1>1, <1>2, <1>3 DEF Unlink

\* No step breaks the invariant.
LEMMA BindStep == BindInv /\ [Next]_vars => BindInv'
<1> SUFFICES ASSUME BindInv, [Next]_vars PROVE BindInv'
  OBVIOUS
<1>1. AccountType /\ AccountType'
  BY TypeStep DEF BindInv
<1>2. ASSUME NEW r \in Requests, Unlink(r) PROVE BindInv'
  BY <1>1, <1>2, BindUnlink
<1>3. ASSUME UNCHANGED <<unlinkOf, rebound, granted>>,
             \/ \E q \in Requests : Verify(q) \/ Refresh(q) \/ RequestFails(q)
             \/ \E s \in DOMAIN sessions : LogsOut(s)
             \/ UNCHANGED req
      PROVE  BindInv'
  BY <1>1, <1>3, OthersBindNothing, BindKept
<1>4. ASSUME NEW q \in Requests, Verify(q) \/ Refresh(q) \/ RequestFails(q) PROVE BindInv'
  BY <1>3, <1>4 DEF Verify, VerifyReadsNonce, VerifyConsumes, VerifyFindsUser, VerifyUpdatesUser,
     VerifyCreatesUser, VerifyIssues, Refresh, RotateReads, RotateSweeps, RotateRevokes, RotateIssues,
     RequestFails, unlinkVars
<1>5. ASSUME NEW s \in DOMAIN sessions, LogsOut(s) PROVE BindInv'
  BY <1>3, <1>5 DEF LogsOut, unlinkVars
<1> QED BY <1>2, <1>3, <1>4, <1>5
        DEF Next, vars, MessageExpires, SessionExpires, KeyExpires, RequestNonce, unlinkVars

\* Nobody is bound at the start.
LEMMA BindInit == Init => BindInv
BY TypeInit DEF Init, BindInv, Idle

\* The invariant holds throughout.
LEMMA BindAlways == Spec => []BindInv
BY BindInit, BindStep, PTL DEF Spec

\* bind's unique index and owns: two users get tokens for one address only after a binding of theirs
\* was replaced, for any users, devices and addresses.
THEOREM AddressesHaveOneReader == Spec => []OneReaderPerAddress
<1>1. BindInv => OneReaderPerAddress
  <2> SUFFICES ASSUME BindInv, NEW g \in granted, NEW h \in granted, g[2] = h[2],
                      g[1] \notin rebound, h[1] \notin rebound
               PROVE  g[1] = h[1]
    BY DEF OneReaderPerAddress
  <2>1. {g[1], h[1]} \subseteq Wallets /\ g[2] \in Addresses
    BY DEF BindInv, AccountType
  <2>2. unlinkOf[g[1]] = g[2] /\ unlinkOf[h[1]] = g[2]
    BY DEF BindInv, Entitled
  <2> QED BY <2>1, <2>2, AccountsAssumption DEF BindInv
<1> QED BY <1>1, BindAlways, PTL

\* UnlinkIdentityService.bind: what replaces a binding is a bind that another one overtook between
\* its read and its write.
THEOREM ReplacedByRacesOnly == Spec => RebindsOnlyRaced
<1>1. BindInv /\ [Next]_vars =>
        [\A w \in Wallets : unlinkOf[w] # None /\ unlinkOf'[w] # unlinkOf[w] =>
           \E r \in Requests : req[r].at = "bind" /\ req[r].wallet = w /\ req[r].raced]_vars
  <2> SUFFICES ASSUME BindInv, [Next]_vars, NEW w \in Wallets, unlinkOf[w] # None, unlinkOf'[w] # unlinkOf[w]
               PROVE  \E r \in Requests : req[r].at = "bind" /\ req[r].wallet = w /\ req[r].raced
    OBVIOUS
  <2>1. PICK r \in Requests : Binds(r)
    BY DEF Next, vars, Unlink, Verify, VerifyReadsNonce, VerifyConsumes, VerifyFindsUser, VerifyUpdatesUser,
       VerifyCreatesUser, VerifyIssues, Refresh, RotateReads, RotateSweeps, RotateRevokes, RotateIssues,
       RequestFails, unlinkVars, MessageExpires, SessionExpires, KeyExpires, RequestNonce, LogsOut,
       BindReads, TokenReads, TokenIssues
  <2>2. req[r].at = "bind" /\ req[r].wallet = w
    BY <2>1 DEF BindInv, AccountType, Binds
  <2> QED BY <2>2 DEF BindInv
<1> QED BY <1>1, BindAlways, PTL DEF Spec, RebindsOnlyRaced

-----------------------------------------------------------------------------
(* Refresh sessions *)

\* Something was rotated from s.
HasHeir(s) == \E u \in 1..Len(sessions) : sessions[u].from = s

\* r has read s, or revoked it, and nobody has ended s in between.
Has(r, at, s) == req[r].at = at /\ req[r].arg = s /\ ~ req[r].raced

Unraced(s) == ~ sessions[s].raced

\* A chain's sessions are of one user, and begin with its sign-in.
ChainRows ==
    /\ \A s \in 1..Len(sessions) :
         /\ sessions[s].login \in 1..Len(sessions)
         /\ sessions[s].from # 0 => sessions[s].from \in 1..Len(sessions) /\ sessions[sessions[s].from].revoked
    /\ \A s, t \in 1..Len(sessions) : sessions[s].login = sessions[t].login => sessions[s].user = sessions[t].user
    /\ ended \subseteq 1..Len(sessions)

\* A rotation revokes before it issues, and what it revokes was live unless it was overtaken.
Rotations ==
    \A r \in Requests :
        /\ req[r].at = "reissue" => sessions[req[r].arg].revoked
        /\ req[r].at = "revoke" /\ ~ req[r].raced => ~ sessions[req[r].arg].revoked

\* One rotation at a time carries a session on.
OneRotation ==
    \A r, q \in Requests : \A s \in 1..Len(sessions) : Has(r, "reissue", s) /\ Has(q, "reissue", s) => r = q

\* Of a chain, leaving aside what races have minted, all sessions but the last have been rotated.
Linear ==
    \A s, t \in 1..Len(sessions) :
        /\ sessions[s].login = sessions[t].login
        /\ Unraced(s) /\ Unraced(t) /\ s < t
        => HasHeir(s) /\ \A r \in Requests : ~ Has(r, "reissue", s)

\* What is live in a chain that was ended, or about to be issued in it, comes from a race.
EndsHold ==
    /\ \A s \in 1..Len(sessions) : ~ sessions[s].revoked /\ sessions[s].login \in ended => ~ Unraced(s)
    /\ \A r \in Requests : req[r].at = "reissue" /\ sessions[req[r].arg].login \in ended =>
         req[r].raced \/ ~ Unraced(req[r].arg)

Chains == ChainRows /\ Rotations /\ OneRotation /\ Linear
ChainInv == AccountType /\ Chains /\ EndsHold

\* Requests of other kinds take part in no rotation.
LEMMA OthersRotateNothing ==
    ASSUME AccountType, NEW r \in Requests,
           \/ \E q \in Requests : Verify(q) \/ Unlink(q) \/ RequestFails(q)
           \/ UNCHANGED req,
           req'[r].at \in RotateSteps
    PROVE  req'[r].at = req[r].at /\ req'[r].arg = req[r].arg /\ (req'[r].raced <=> req[r].raced)
<1> DEFINE Same == req'[r].at = req[r].at /\ req'[r].arg = req[r].arg /\ (req'[r].raced <=> req[r].raced)
<1>1. CASE req'[r] = req[r]
  BY <1>1
<1>2. ASSUME NEW q \in Requests, NEW at \in SignInSteps \cup {"bind", "token"}, NEW w \in Wallets,
             NEW arg \in Nat \cup Addresses, Begins(q, at, w, arg)
      PROVE  Same
  <2>1. at \in Steps /\ at \notin RotateSteps
    BY DEF Steps, SignInSteps, RotateSteps
  <2>2. req'[q].at = at /\ \A p \in Requests \ {q} : req'[p] = req[p]
    BY <1>2, <2>1, Began
  <2> QED BY <2>1, <2>2
<1>3. ASSUME NEW q \in Requests, NEW at \in SignInSteps, req' = [req EXCEPT ![q].at = at] PROVE Same
  <2>1. at \in Steps /\ at \notin RotateSteps
    BY DEF Steps, SignInSteps, RotateSteps
  <2>2. req'[q].at = at /\ \A p \in Requests \ {q} : req'[p] = req[p]
    BY <1>3, <2>1, GoesOn
  <2> QED BY <2>1, <2>2
<1>4. ASSUME NEW q \in Requests, req' = [req EXCEPT ![q] = Idle] PROVE Same
  BY <1>4, Ends DEF RotateSteps
<1>5. ASSUME NEW q \in Requests, Verify(q) PROVE Same
  <2>1. ASSUME NEW m \in DOMAIN nonces, VerifyReadsNonce(q, m) PROVE Same
    <3>1. m \in Nat \cup Addresses /\ nonces[m] \in Wallets /\ "consume" \in SignInSteps
          /\ Begins(q, "consume", nonces[m], m)
      BY <2>1 DEF AccountType, VerifyReadsNonce, SignInSteps
    <3> QED BY <1>2, <3>1
  <2>2. CASE VerifyConsumes(q) \/ VerifyFindsUser(q) \/ VerifyUpdatesUser(q)
    BY <1>3, <2>2 DEF VerifyConsumes, VerifyFindsUser, VerifyUpdatesUser, SignInSteps
  <2>3. CASE VerifyCreatesUser(q)
    BY <1>3, <1>4, <2>3 DEF VerifyCreatesUser, SignInSteps
  <2>4. CASE VerifyIssues(q)
    BY <1>4, <2>4 DEF VerifyIssues
  <2> QED BY <1>5, <2>1, <2>2, <2>3, <2>4 DEF Verify
<1>6. ASSUME NEW q \in Requests, Unlink(q) PROVE Same
  <2>1. ASSUME NEW w \in Wallets, NEW a \in Addresses, BindReads(q, w, a) \/ TokenReads(q, w, a) PROVE Same
    <3>1. PICK at \in {"bind", "token"} : Begins(q, at, w, a)
      BY <2>1 DEF BindReads, TokenReads
    <3> QED BY <1>2, <3>1
  <2>2. CASE req' = [OvertakingBinds(req[q].wallet, q) EXCEPT ![q] = Idle]
    <3>1. CASE r = q
      BY <2>2, <3>1, BindsOvertake DEF Idle, RotateSteps
    <3>2. CASE r # q
      <4>1. req'[r] = OvertakingBinds(req[q].wallet, q)[r]
        BY <2>2, <3>2, BindsOvertake
      <4> QED BY <4>1, BindsOvertake DEF RotateSteps
    <3> QED BY <3>1, <3>2
  <2> QED BY <1>4, <1>6, <2>1, <2>2 DEF Unlink, Binds, TokenIssues
<1> QED BY <1>1, <1>4, <1>5, <1>6 DEF RequestFails

\* A step that leaves sessions alone, and of the rotations at most begins one of a live session.
LEMMA ChainKept ==
    ASSUME ChainInv, AccountType', UNCHANGED <<sessions, ended>>,
           \A r \in Requests : req'[r].at \in RotateSteps =>
               \/ req'[r].at = req[r].at /\ req'[r].arg = req[r].arg /\ (req'[r].raced <=> req[r].raced)
               \/ req'[r].at = "revoke" /\ ~ sessions[req'[r].arg].revoked
    PROVE  ChainInv'
<1> USE DEF ChainInv, Chains
<1>1. ChainRows'
  BY DEF ChainRows
<1>2. Rotations'
  BY DEF Rotations, RotateSteps
<1>3. \A r \in Requests, s \in 1..Len(sessions) : Has(r, "reissue", s)' => Has(r, "reissue", s)
  BY DEF Has, RotateSteps
<1>4. OneRotation'
  BY <1>3 DEF OneRotation
<1>5. Linear'
  BY <1>3 DEF Linear, HasHeir, Unraced
<1>6. EndsHold'
  BY DEF EndsHold, Unraced, RotateSteps
<1> QED BY <1>1, <1>2, <1>4, <1>5, <1>6

\* A step that revokes the sessions in ss and overtakes their rotations, or is itself the rotation
\* m of one of them.
LEMMA ChainRevoked ==
    ASSUME AccountType, Chains, NEW ss, NEW m, ended' \subseteq 1..Len(sessions), Len(sessions') = Len(sessions),
           \A t \in 1..Len(sessions) :
                /\ sessions'[t].user = sessions[t].user /\ sessions'[t].from = sessions[t].from
                /\ sessions'[t].login = sessions[t].login /\ sessions'[t].raced = sessions[t].raced
                /\ sessions'[t].revoked <=> sessions[t].revoked \/ t \in ss,
           \A r \in Requests : req'[r].at \in RotateSteps =>
               /\ req'[r].arg = req[r].arg /\ (req[r].raced => req'[r].raced)
               /\ r # m => /\ req'[r].at = req[r].at
                           /\ req[r].arg \in ss /\ ~ sessions[req[r].arg].revoked => req'[r].raced
               /\ r = m => req[r].at = "revoke" /\ req'[r].at = "reissue" /\ req[r].arg \in ss
    PROVE  Chains'
<1> USE DEF Chains
<1>1. \A r \in Requests : req[r].at \in RotateSteps => req[r].arg \in 1..Len(sessions)
  BY DEF AccountType
<1>2. ChainRows'
  BY DEF ChainRows
<1>3. Rotations'
  BY <1>1 DEF Rotations, RotateSteps
<1>4. ASSUME NEW r \in Requests, NEW s \in 1..Len(sessions), Has(r, "reissue", s)'
      PROVE  IF r = m THEN ~ sessions[s].revoked ELSE Has(r, "reissue", s)
  BY <1>4 DEF Has, Rotations, RotateSteps
<1>5. ASSUME NEW r \in Requests, NEW s \in 1..Len(sessions), Has(r, "reissue", s) PROVE sessions[s].revoked
  BY <1>5 DEF Has, Rotations
<1>6. OneRotation'
  BY <1>4, <1>5 DEF OneRotation
<1>7. \A s \in 1..Len(sessions) : HasHeir(s) => sessions[s].revoked /\ HasHeir(s)'
  BY DEF HasHeir, ChainRows
<1>8. Linear'
  <2> SUFFICES ASSUME NEW s \in 1..Len(sessions), NEW t \in 1..Len(sessions),
                      sessions[s].login = sessions[t].login, Unraced(s), Unraced(t), s < t
               PROVE  HasHeir(s)' /\ \A r \in Requests : ~ Has(r, "reissue", s)'
    BY DEF Linear, Unraced
  <2>1. HasHeir(s) /\ \A r \in Requests : ~ Has(r, "reissue", s)
    BY DEF Linear
  <2> QED BY <1>4, <1>7, <2>1
<1> QED BY <1>2, <1>3, <1>6, <1>8

\* What one more session leaves of the others, and of the requests.
LEMMA Issued ==
    ASSUME AccountType, NEW r \in Requests, NEW row \in SessionRow, sessions' = Append(sessions, row),
           req' = [req EXCEPT ![r] = Idle]
    PROVE  /\ Len(sessions) \in Nat /\ Len(sessions') = Len(sessions) + 1
           /\ sessions'[Len(sessions) + 1] = row
           /\ \A t \in 1..Len(sessions) : sessions'[t] = sessions[t]
           /\ \A q \in Requests : req'[q].at \in RotateSteps => q # r /\ req'[q] = req[q]
           /\ \A t \in 1..Len(sessions) : HasHeir(t) => HasHeir(t)'
<1>1. /\ Len(sessions) \in Nat /\ Len(sessions') = Len(sessions) + 1
      /\ sessions'[Len(sessions) + 1] = row
      /\ \A t \in 1..Len(sessions) : sessions'[t] = sessions[t]
  BY DEF AccountType
<1>2. \A q \in Requests : req'[q].at \in RotateSteps => q # r /\ req'[q] = req[q]
  BY Ends DEF RotateSteps
<1>3. \A t \in 1..Len(sessions) : HasHeir(t) => HasHeir(t)'
  BY <1>1 DEF HasHeir
<1> QED BY <1>1, <1>2, <1>3

\* A sign-in begins a chain of its own.
LEMMA ChainBegins ==
    ASSUME ChainInv, AccountType', NEW r \in Requests, VerifyIssues(r)
    PROVE  ChainInv'
<1> DEFINE row == [user |-> req[r].wallet, revoked |-> FALSE, from |-> 0, login |-> Len(sessions) + 1,
                   raced |-> FALSE]
           n == Len(sessions) + 1
<1>1. AccountType /\ Chains /\ EndsHold
  BY DEF ChainInv
<1>2. req[r].wallet \in Wallets
  <2>1. req[r].at \in SignInSteps
    BY DEF VerifyIssues, SignInSteps
  <2>2. req[r].arg \in 1..Len(nonces) /\ req[r].wallet = nonces[req[r].arg] /\ nonces \in Seq(Wallets)
    BY <1>1, <2>1 DEF AccountType
  <2> QED BY <2>2
<1>3. row \in SessionRow /\ sessions' = Append(sessions, row) /\ req' = [req EXCEPT ![r] = Idle] /\ ended' = ended
  BY <1>1, <1>2 DEF AccountType, SessionRow, VerifyIssues
<1>4. row.from = 0 /\ row.login = n /\ ~ row.raced
  OBVIOUS
<1> HIDE DEF row
<1>5. /\ Len(sessions) \in Nat /\ Len(sessions') = n
      /\ sessions'[n] = row
      /\ \A t \in 1..Len(sessions) : sessions'[t] = sessions[t]
      /\ \A q \in Requests : req'[q].at \in RotateSteps => q # r /\ req'[q] = req[q]
      /\ \A t \in 1..Len(sessions) : HasHeir(t) => HasHeir(t)'
  BY <1>1, <1>3, Issued
<1>6. \A q \in Requests : req[q].at \in RotateSteps => req[q].arg \in 1..Len(sessions)
  BY <1>1 DEF AccountType
<1>7. \A s \in 1..Len(sessions) : sessions[s].login \in 1..Len(sessions)
  BY <1>1 DEF Chains, ChainRows
<1>8. ChainRows'
  BY <1>1, <1>3, <1>4, <1>5, <1>7 DEF Chains, ChainRows
<1>9. Rotations'
  BY <1>1, <1>5, <1>6 DEF Chains, Rotations, RotateSteps
<1>10. \A q \in Requests, s \in 1..n : Has(q, "reissue", s)' => Has(q, "reissue", s) /\ s # n
  BY <1>5, <1>6 DEF Has, RotateSteps
<1>11. OneRotation'
  BY <1>1, <1>5, <1>10 DEF Chains, OneRotation
<1>12. Linear'
  <2> SUFFICES ASSUME NEW s \in 1..n, NEW t \in 1..n, sessions'[s].login = sessions'[t].login,
                      Unraced(s)', Unraced(t)', s < t
               PROVE  HasHeir(s)' /\ \A q \in Requests : ~ Has(q, "reissue", s)'
    BY <1>5 DEF Linear
  <2>1. s \in 1..Len(sessions) /\ t \in 1..Len(sessions)
    BY <1>4, <1>5, <1>7
  <2>2. HasHeir(s) /\ \A q \in Requests : ~ Has(q, "reissue", s)
    BY <1>1, <1>5, <2>1 DEF Chains, Linear, Unraced
  <2> QED BY <1>5, <1>10, <2>1, <2>2
<1>13. EndsHold'
  <2>1. n \notin ended
    BY <1>1, <1>5 DEF Chains, ChainRows
  <2> QED BY <1>1, <1>3, <1>4, <1>5, <1>6, <2>1 DEF EndsHold, Unraced, RotateSteps
<1> QED BY <1>8, <1>9, <1>11, <1>12, <1>13 DEF ChainInv, Chains

\* A rotation that was not overtaken carries on the last session of its chain.
LEMMA ChainGoesOn ==
    ASSUME ChainInv, AccountType', NEW r \in Requests, RotateIssues(r)
    PROVE  ChainInv'
<1> DEFINE s0 == req[r].arg
           row == [user |-> sessions[s0].user, revoked |-> FALSE, from |-> s0, login |-> sessions[s0].login,
                   raced |-> sessions[s0].raced \/ req[r].raced]
           n == Len(sessions) + 1
<1>1. AccountType /\ Chains /\ EndsHold
  BY DEF ChainInv
<1>2. /\ req[r].at = "reissue" /\ s0 \in 1..Len(sessions) /\ s0 \in Nat
      /\ sessions[s0] \in SessionRow /\ req[r] \in ReqRow
  BY <1>1 DEF AccountType, RotateIssues, RotateSteps
<1>3. row \in SessionRow
  BY <1>2 DEF SessionRow, ReqRow
<1>4. sessions' = Append(sessions, row) /\ req' = [req EXCEPT ![r] = Idle] /\ ended' = ended
  BY DEF RotateIssues
<1>5. /\ row.user = sessions[s0].user /\ row.from = s0 /\ row.login = sessions[s0].login
      /\ row.raced <=> sessions[s0].raced \/ req[r].raced
  OBVIOUS
<1> HIDE DEF row
<1>6. /\ Len(sessions) \in Nat /\ Len(sessions') = n
      /\ sessions'[n] = row
      /\ \A t \in 1..Len(sessions) : sessions'[t] = sessions[t]
      /\ \A q \in Requests : req'[q].at \in RotateSteps => q # r /\ req'[q] = req[q]
      /\ \A t \in 1..Len(sessions) : HasHeir(t) => HasHeir(t)'
  BY <1>1, <1>3, <1>4, Issued
<1>7. \A q \in Requests : req[q].at \in RotateSteps => req[q].arg \in 1..Len(sessions)
  BY <1>1 DEF AccountType
<1>8. \A s \in 1..Len(sessions) : sessions[s].login \in 1..Len(sessions)
  BY <1>1 DEF Chains, ChainRows
<1>9. sessions[s0].revoked
  BY <1>1, <1>2 DEF Chains, Rotations
<1>10. ChainRows'
  <2>1. ASSUME NEW s \in 1..n
        PROVE  /\ sessions'[s].login \in 1..n
               /\ sessions'[s].from # 0 =>
                    sessions'[s].from \in 1..n /\ sessions'[sessions'[s].from].revoked
    <3>1. CASE s = n
      BY <1>2, <1>5, <1>6, <1>8, <1>9, <3>1
    <3>2. CASE s # n
      BY <1>1, <1>6, <3>2 DEF Chains, ChainRows
    <3> QED BY <3>1, <3>2
  <2>2. ASSUME NEW s \in 1..n, NEW t \in 1..n, sessions'[s].login = sessions'[t].login
        PROVE  sessions'[s].user = sessions'[t].user
    <3> DEFINE Old(u) == IF u = n THEN s0 ELSE u
    <3>1. \A u \in 1..n : /\ Old(u) \in 1..Len(sessions)
                          /\ sessions'[u].login = sessions[Old(u)].login
                          /\ sessions'[u].user = sessions[Old(u)].user
      BY <1>2, <1>5, <1>6
    <3> HIDE DEF Old
    <3> QED BY <1>1, <2>2, <3>1 DEF Chains, ChainRows
  <2> QED BY <1>1, <1>4, <1>6, <2>1, <2>2 DEF Chains, ChainRows
<1>11. Rotations'
  BY <1>1, <1>6, <1>7 DEF Chains, Rotations, RotateSteps
<1>12. \A q \in Requests, s \in 1..n :
         Has(q, "reissue", s)' => q # r /\ Has(q, "reissue", s) /\ s # n
  BY <1>6, <1>7 DEF Has, RotateSteps
<1>13. OneRotation'
  BY <1>1, <1>6, <1>12 DEF Chains, OneRotation
<1>14. Linear'
  <2> SUFFICES ASSUME NEW s \in 1..n, NEW t \in 1..n, sessions'[s].login = sessions'[t].login,
                      Unraced(s)', Unraced(t)', s < t
               PROVE  HasHeir(s)' /\ \A q \in Requests : ~ Has(q, "reissue", s)'
    BY <1>6 DEF Linear
  <2>1. CASE t # n
    <3>1. s \in 1..Len(sessions) /\ t \in 1..Len(sessions)
      BY <1>6, <2>1
    <3>2. HasHeir(s) /\ \A q \in Requests : ~ Has(q, "reissue", s)
      BY <1>1, <1>6, <3>1 DEF Chains, Linear, Unraced
    <3> QED BY <1>6, <1>12, <3>1, <3>2
  <2>2. CASE t = n
    <3>1. s \in 1..Len(sessions) /\ Unraced(s) /\ Unraced(s0) /\ Has(r, "reissue", s0)
          /\ sessions[s].login = sessions[s0].login
      BY <1>2, <1>5, <1>6, <2>2 DEF Unraced, Has
    <3>2. CASE s = s0
      <4>1. HasHeir(s)'
        BY <1>5, <1>6, <3>2 DEF HasHeir
      <4>2. \A q \in Requests : ~ Has(q, "reissue", s)'
        BY <1>1, <1>2, <1>12, <3>1, <3>2 DEF Chains, OneRotation
      <4> QED BY <4>1, <4>2
    <3>3. CASE s # s0
      <4>1. s < s0
        BY <1>1, <1>2, <3>1, <3>3 DEF Chains, Linear
      <4>2. HasHeir(s) /\ \A q \in Requests : ~ Has(q, "reissue", s)
        BY <1>1, <1>2, <3>1, <4>1 DEF Chains, Linear
      <4> QED BY <1>6, <1>12, <3>1, <4>2
    <3> QED BY <3>2, <3>3
  <2> QED BY <2>1, <2>2
<1>15. EndsHold'
  <2>1. row.login \in ended => row.raced
    BY <1>1, <1>2, <1>5 DEF EndsHold, Unraced
  <2> QED BY <1>1, <1>4, <1>6, <1>7, <2>1 DEF EndsHold, Unraced, RotateSteps
<1> QED BY <1>10, <1>11, <1>13, <1>14, <1>15 DEF ChainInv, Chains

\* A rotation revokes the session that it read, and overtakes those that read it too.
LEMMA ChainRotates ==
    ASSUME ChainInv, AccountType', NEW r \in Requests, RotateRevokes(r)
    PROVE  ChainInv'
<1> DEFINE s == req[r].arg
           base == IF sessions[s].revoked THEN req ELSE Overtaking({s}, {r})
<1>1. AccountType /\ Chains /\ EndsHold
  BY DEF ChainInv
<1>2. req[r].at = "revoke" /\ s \in 1..Len(sessions)
  BY <1>1 DEF AccountType, RotateRevokes, RotateSteps
<1>3. /\ Len(sessions') = Len(sessions)
      /\ \A t \in 1..Len(sessions) :
           /\ sessions'[t].user = sessions[t].user /\ sessions'[t].from = sessions[t].from
           /\ sessions'[t].login = sessions[t].login /\ sessions'[t].raced = sessions[t].raced
           /\ sessions'[t].revoked <=> sessions[t].revoked \/ t \in {s}
  BY <1>1, <1>2, RevokesOne DEF RotateRevokes
<1>4. base \in [Requests -> ReqRow]
      /\ \A q \in Requests :
           /\ base[q].at = req[q].at /\ base[q].arg = req[q].arg
           /\ base[q].raced <=> req[q].raced \/ (~ sessions[s].revoked /\ q # r /\ req[q].at \in RotateSteps
                                                 /\ req[q].arg = s)
  <2>1. CASE sessions[s].revoked
    BY <1>1, <2>1 DEF AccountType
  <2>2. CASE ~ sessions[s].revoked
    BY <1>1, <2>2, Overtakes
  <2> QED BY <2>1, <2>2
<1>5. req' = [base EXCEPT ![r].at = "reissue"] /\ ended' = ended
  BY DEF RotateRevokes
<1> HIDE DEF base
<1>6. \A q \in Requests :
        /\ req'[q].arg = req[q].arg
        /\ q # r => req'[q].at = req[q].at
        /\ req'[q].raced <=> req[q].raced \/ (~ sessions[s].revoked /\ q # r /\ req[q].at \in RotateSteps
                                              /\ req[q].arg = s)
  BY <1>4, <1>5 DEF ReqRow
<1>7. req'[r].at = "reissue"
  BY <1>4, <1>5 DEF ReqRow
<1> HIDE DEF s
<1>8. Chains'
  <2>1. ended' \subseteq 1..Len(sessions)
    BY <1>1, <1>5 DEF Chains, ChainRows
  <2>2. \A q \in Requests : req'[q].at \in RotateSteps =>
          /\ req'[q].arg = req[q].arg /\ (req[q].raced => req'[q].raced)
          /\ q # r => /\ req'[q].at = req[q].at
                      /\ req[q].arg \in {s} /\ ~ sessions[req[q].arg].revoked => req'[q].raced
          /\ q = r => req[q].at = "revoke" /\ req'[q].at = "reissue" /\ req[q].arg \in {s}
    BY <1>2, <1>6, <1>7 DEF s
  <2> QED BY <1>1, <1>3, <2>1, <2>2, ChainRevoked
<1>9. EndsHold'
  <2>1. \A t \in 1..Len(sessions) : ~ sessions'[t].revoked /\ sessions'[t].login \in ended' => ~ Unraced(t)'
    BY <1>1, <1>3, <1>5 DEF EndsHold, Unraced
  <2>2. ASSUME NEW q \in Requests, req'[q].at = "reissue", sessions'[req'[q].arg].login \in ended'
        PROVE  req'[q].raced \/ ~ Unraced(req[q].arg)'
    <3>1. req[q].arg \in 1..Len(sessions) /\ sessions[req[q].arg].login \in ended
      BY <1>1, <1>2, <1>3, <1>5, <1>6, <2>2 DEF AccountType, RotateSteps
    <3>2. CASE q # r
      BY <1>1, <1>3, <1>6, <2>2, <3>1, <3>2 DEF EndsHold, Unraced
    <3>3. CASE q = r
      <4>1. ~ req[q].raced => ~ sessions[req[q].arg].revoked
        BY <1>1, <1>2, <3>3 DEF Chains, Rotations
      <4> QED BY <1>1, <1>3, <1>6, <3>1, <3>3, <4>1 DEF EndsHold, Unraced
    <3> QED BY <3>2, <3>3
  <2>3. \A q \in Requests : req'[q].at = "reissue" /\ sessions'[req'[q].arg].login \in ended' =>
          req'[q].raced \/ ~ Unraced(req[q].arg)'
    BY <2>2
  <2> QED BY <1>3, <2>1, <2>3 DEF EndsHold
<1> QED BY <1>8, <1>9 DEF ChainInv

\* A token that was used before ends all of its user's chains.
LEMMA ChainsSwept ==
    ASSUME ChainInv, AccountType', NEW r \in Requests, RotateSweeps(r)
    PROVE  ChainInv'
<1> DEFINE w == req[r].wallet
           ss == SessionsOf(w)
<1>1. AccountType /\ Chains /\ EndsHold
  BY DEF ChainInv
<1>2. /\ sessions' = [s \in DOMAIN sessions |-> [sessions[s] EXCEPT !.revoked = @ \/ s \in ss]]
      /\ ended' = ended \cup {sessions[s].login : s \in ss}
      /\ req' = [Overtaking(ss, {r}) EXCEPT ![r] = Idle]
  BY DEF RotateSweeps
<1>3. \A s : s \in ss <=> s \in 1..Len(sessions) /\ sessions[s].user = w
  BY <1>1 DEF SessionsOf, AccountType
<1> HIDE DEF ss, w
<1>4. /\ Len(sessions') = Len(sessions)
      /\ \A t \in 1..Len(sessions) :
           /\ sessions'[t].user = sessions[t].user /\ sessions'[t].from = sessions[t].from
           /\ sessions'[t].login = sessions[t].login /\ sessions'[t].raced = sessions[t].raced
           /\ sessions'[t].revoked <=> sessions[t].revoked \/ t \in ss
  BY <1>1, <1>2, RevokesAll
<1>5. req'[r].at = "idle"
  BY <1>1, <1>2, Overtakes DEF Idle
<1>6. \A q \in Requests \ {r} :
        /\ req'[q].at = req[q].at /\ req'[q].arg = req[q].arg
        /\ req'[q].raced <=> req[q].raced \/ (req[q].at \in RotateSteps /\ req[q].arg \in ss)
  BY <1>1, <1>2, Overtakes
<1>7. Chains'
  <2>1. ended' \subseteq 1..Len(sessions)
    BY <1>1, <1>2, <1>3 DEF Chains, ChainRows
  <2>2. PICK m : m \notin Requests
    BY NoSetContainsEverything
  <2>3. \A q \in Requests : req'[q].at \in RotateSteps =>
          /\ req'[q].arg = req[q].arg /\ (req[q].raced => req'[q].raced)
          /\ q # m => /\ req'[q].at = req[q].at
                      /\ req[q].arg \in ss /\ ~ sessions[req[q].arg].revoked => req'[q].raced
          /\ q = m => req[q].at = "revoke" /\ req'[q].at = "reissue" /\ req[q].arg \in ss
    BY <1>5, <1>6, <2>2 DEF RotateSteps
  <2> QED BY <1>1, <1>4, <2>1, <2>3, ChainRevoked
<1>8. \A t \in 1..Len(sessions) : sessions[t].login \in ended' => sessions[t].login \in ended \/ t \in ss
  BY <1>1, <1>2, <1>3 DEF Chains, ChainRows
<1>9. EndsHold'
  <2>1. \A t \in 1..Len(sessions) : ~ sessions'[t].revoked /\ sessions'[t].login \in ended' => ~ Unraced(t)'
    BY <1>1, <1>4, <1>8 DEF EndsHold, Unraced
  <2>2. \A q \in Requests : req'[q].at = "reissue" /\ sessions'[req'[q].arg].login \in ended' =>
          req'[q].raced \/ ~ Unraced(req[q].arg)'
    <3> SUFFICES ASSUME NEW q \in Requests, req'[q].at = "reissue", sessions'[req'[q].arg].login \in ended'
                 PROVE  req'[q].raced \/ ~ Unraced(req[q].arg)'
      OBVIOUS
    <3>1. q # r /\ req[q].at = "reissue" /\ req'[q].arg = req[q].arg /\ req[q].arg \in 1..Len(sessions)
      BY <1>1, <1>5, <1>6 DEF AccountType, RotateSteps
    <3>2. sessions[req[q].arg].login \in ended \/ req[q].arg \in ss
      BY <1>4, <1>8, <3>1
    <3>3. CASE req[q].arg \in ss
      BY <1>6, <3>1, <3>3 DEF RotateSteps
    <3>4. CASE sessions[req[q].arg].login \in ended
      BY <1>1, <1>4, <1>6, <3>1, <3>4 DEF EndsHold, Unraced
    <3> QED BY <3>2, <3>3, <3>4
  <2> QED BY <1>4, <2>1, <2>2 DEF EndsHold
<1> QED BY <1>7, <1>9 DEF ChainInv

\* A logout ends the session it is given, and with its current session a whole chain.
LEMMA ChainEnded ==
    ASSUME ChainInv, AccountType', NEW s \in DOMAIN sessions, LogsOut(s)
    PROVE  ChainInv'
<1>1. AccountType /\ Chains /\ EndsHold /\ s \in 1..Len(sessions) /\ s \in Nat
  BY DEF ChainInv, AccountType
<1>2. /\ Len(sessions') = Len(sessions)
      /\ \A t \in 1..Len(sessions) :
           /\ sessions'[t].user = sessions[t].user /\ sessions'[t].from = sessions[t].from
           /\ sessions'[t].login = sessions[t].login /\ sessions'[t].raced = sessions[t].raced
           /\ sessions'[t].revoked <=> sessions[t].revoked \/ t \in {s}
  BY <1>1, RevokesOne DEF LogsOut
<1>10. IsHead(s) <=> ~ HasHeir(s)
  <2>1. DOMAIN sessions = 1..Len(sessions)
    BY <1>1 DEF AccountType
  <2> QED BY <2>1 DEF IsHead, HasHeir
<1>3. ended' = IF ~ HasHeir(s) /\ Unraced(s) THEN ended \cup {sessions[s].login} ELSE ended
  BY <1>10 DEF LogsOut, Unraced
<1>4. \A q \in Requests :
        /\ req'[q].at = req[q].at /\ req'[q].arg = req[q].arg
        /\ req'[q].raced <=> req[q].raced \/ (~ HasHeir(s) /\ req[q].at \in RotateSteps /\ req[q].arg = s)
  <2>2. CASE IsHead(s)
    <3>1. req' = Overtaking({s}, {})
      BY <2>2 DEF LogsOut
    <3> QED BY <1>10, <1>1, <2>2, <3>1, Overtakes
  <2>3. CASE ~ IsHead(s)
    BY <1>10, <2>3 DEF LogsOut
  <2> QED BY <2>2, <2>3
<1>5. HasHeir(s) => sessions[s].revoked
  BY <1>1 DEF Chains, ChainRows, HasHeir
<1>6. Chains'
  <2>1. ended' \subseteq 1..Len(sessions)
    BY <1>1, <1>3 DEF Chains, ChainRows
  <2>2. PICK m : m \notin Requests
    BY NoSetContainsEverything
  <2>3. \A q \in Requests : req'[q].at \in RotateSteps =>
          /\ req'[q].arg = req[q].arg /\ (req[q].raced => req'[q].raced)
          /\ q # m => /\ req'[q].at = req[q].at
                      /\ req[q].arg \in {s} /\ ~ sessions[req[q].arg].revoked => req'[q].raced
          /\ q = m => req[q].at = "revoke" /\ req'[q].at = "reissue" /\ req[q].arg \in {s}
    BY <1>4, <1>5, <2>2
  <2> QED BY <1>1, <1>2, <2>1, <2>3, ChainRevoked
<1>7. ASSUME NEW t \in 1..Len(sessions), sessions[t].login \in ended', Unraced(t), sessions[t].login \notin ended
      PROVE  t = s \/ (HasHeir(t) /\ \A q \in Requests : ~ Has(q, "reissue", t))
  <2>1. sessions[t].login = sessions[s].login /\ ~ HasHeir(s) /\ Unraced(s)
    BY <1>3, <1>7
  <2>2. CASE s < t
    BY <1>1, <2>1, <2>2, <1>7 DEF Chains, Linear
  <2>3. CASE t < s
    BY <1>1, <2>1, <2>3, <1>7 DEF Chains, Linear
  <2>4. s \in Nat /\ t \in Nat
    BY <1>1 DEF AccountType
  <2> QED BY <2>2, <2>3, <2>4
<1>8. EndsHold'
  <2>1. ASSUME NEW t \in 1..Len(sessions), ~ sessions'[t].revoked, sessions'[t].login \in ended'
        PROVE  ~ Unraced(t)'
    <3>1. t # s /\ ~ sessions[t].revoked /\ sessions[t].login \in ended'
      BY <1>2, <2>1
    <3>2. HasHeir(t) => sessions[t].revoked
      BY <1>1 DEF Chains, ChainRows, HasHeir
    <3>3. ~ Unraced(t)
      BY <1>1, <1>7, <3>1, <3>2 DEF EndsHold
    <3> QED BY <1>2, <3>3 DEF Unraced
  <2>2. ASSUME NEW q \in Requests, req'[q].at = "reissue", sessions'[req'[q].arg].login \in ended'
        PROVE  req'[q].raced \/ ~ Unraced(req[q].arg)'
    <3>1. req[q].at = "reissue" /\ req[q].arg \in 1..Len(sessions) /\ sessions[req[q].arg].login \in ended'
      BY <1>1, <1>2, <1>4, <2>2 DEF AccountType, RotateSteps
    <3>2. CASE sessions[req[q].arg].login \in ended
      BY <1>1, <1>2, <1>4, <3>1, <3>2 DEF EndsHold, Unraced
    <3>3. CASE sessions[req[q].arg].login \notin ended
      <4>1. Unraced(req[q].arg) => req[q].arg = s \/ ~ Has(q, "reissue", req[q].arg)
        BY <1>7, <3>1, <3>3
      <4>2. ~ HasHeir(s)
        BY <1>3, <3>1, <3>3
      <4> QED BY <1>2, <1>4, <3>1, <4>1, <4>2 DEF Unraced, Has, RotateSteps
    <3> QED BY <3>2, <3>3
  <2>3. \A q \in Requests : req'[q].at = "reissue" /\ sessions'[req'[q].arg].login \in ended' =>
          req'[q].raced \/ ~ Unraced(req[q].arg)'
    BY <2>2
  <2> QED BY <1>2, <2>1, <2>3 DEF EndsHold
<1> QED BY <1>6, <1>8 DEF ChainInv

\* The requests of the other kinds, and the passing of time.
LEMMA ChainIgnores ==
    ASSUME ChainInv, AccountType', UNCHANGED <<sessions, ended>>,
           \/ \E q \in Requests : Verify(q) \/ Unlink(q) \/ RequestFails(q)
           \/ UNCHANGED req
    PROVE  ChainInv'
<1>1. AccountType
  BY DEF ChainInv
<1>2. \A r \in Requests : req'[r].at \in RotateSteps =>
        req'[r].at = req[r].at /\ req'[r].arg = req[r].arg /\ (req'[r].raced <=> req[r].raced)
  BY <1>1, OthersRotateNothing
<1> QED BY <1>2, ChainKept

\* A rotation that begins has read a live session; what it read as revoked makes it sweep instead.
LEMMA ChainRead ==
    ASSUME ChainInv, AccountType', NEW r \in Requests, NEW s \in DOMAIN sessions, RotateReads(r, s)
    PROVE  ChainInv'
<1>1. AccountType
  BY DEF ChainInv
<1>2. s \in Nat \cup Addresses /\ sessions[s] \in SessionRow
  BY <1>1 DEF AccountType
<1>3. sessions[s].user \in Wallets /\ UNCHANGED <<sessions, ended>>
  BY <1>2 DEF SessionRow, RotateReads, sessionVars
<1>4. PICK at \in {"sweep", "revoke"} :
        Begins(r, at, sessions[s].user, s) /\ (at = "revoke" => ~ sessions[s].revoked)
  BY DEF RotateReads
<1>5. at \in Steps
  BY DEF Steps, RotateSteps
<1>6. /\ req'[r].at = at /\ req'[r].arg = s
      /\ \A q \in Requests \ {r} : req'[q] = req[q]
  BY <1>1, <1>2, <1>3, <1>4, <1>5, Began
<1>7. \A q \in Requests : req'[q].at \in RotateSteps =>
        \/ req'[q].at = req[q].at /\ req'[q].arg = req[q].arg /\ (req'[q].raced <=> req[q].raced)
        \/ req'[q].at = "revoke" /\ ~ sessions[req'[q].arg].revoked
  BY <1>4, <1>6 DEF RotateSteps
<1> QED BY <1>3, <1>7, ChainKept

\* No step breaks the invariant.
LEMMA ChainStep == ChainInv /\ [Next]_vars => ChainInv'
<1> SUFFICES ASSUME ChainInv, [Next]_vars PROVE ChainInv'
  OBVIOUS
<1>1. AccountType'
  BY TypeStep DEF ChainInv
<1>2. ASSUME UNCHANGED <<sessions, ended>>,
             \/ \E q \in Requests : Verify(q) \/ Unlink(q) \/ RequestFails(q)
             \/ UNCHANGED req
      PROVE  ChainInv'
  BY <1>1, <1>2, ChainIgnores
<1>3. ASSUME NEW r \in Requests, Verify(r) PROVE ChainInv'
  <2>1. CASE VerifyIssues(r)
    BY <1>1, <2>1, ChainBegins
  <2>2. CASE ~ VerifyIssues(r)
    <3>1. UNCHANGED <<sessions, ended>>
      BY <1>3, <2>2 DEF Verify, VerifyReadsNonce, VerifyConsumes, VerifyFindsUser, VerifyUpdatesUser,
         VerifyCreatesUser, sessionVars
    <3> QED BY <1>2, <1>3, <3>1
  <2> QED BY <2>1, <2>2
<1>4. ASSUME NEW r \in Requests, Refresh(r) PROVE ChainInv'
  BY <1>1, <1>4, ChainRead, ChainsSwept, ChainRotates, ChainGoesOn DEF Refresh
<1>5. ASSUME NEW r \in Requests, Unlink(r) \/ RequestFails(r) PROVE ChainInv'
  <2>1. UNCHANGED <<sessions, ended>>
    BY <1>5 DEF Unlink, BindReads, TokenReads, Binds, TokenIssues, RequestFails, sessionVars
  <2> QED BY <1>2, <1>5, <2>1
<1>6. ASSUME NEW s \in DOMAIN sessions, LogsOut(s) PROVE ChainInv'
  BY <1>1, <1>6, ChainEnded
<1>7. CASE MessageExpires \/ SessionExpires \/ (\E w \in Wallets : KeyExpires(w) \/ RequestNonce(w))
           \/ UNCHANGED vars
  BY <1>2, <1>7 DEF MessageExpires, SessionExpires, KeyExpires, RequestNonce, sessionVars, vars
<1> QED BY <1>3, <1>4, <1>5, <1>6, <1>7 DEF Next

\* There is no session at the start.
LEMMA ChainInit == Init => ChainInv
<1> SUFFICES ASSUME Init PROVE ChainInv
  OBVIOUS
<1>1. Len(sessions) = 0 /\ ended = {} /\ \A r \in Requests : req[r].at = "idle"
  BY DEF Init, Idle
<1>2. Chains
  BY <1>1 DEF Chains, ChainRows, Rotations, OneRotation, Linear, Has
<1>3. EndsHold
  BY <1>1 DEF EndsHold
<1> QED BY <1>2, <1>3, TypeInit DEF ChainInv

\* The invariant holds throughout.
LEMMA ChainAlways == Spec => []ChainInv
BY ChainInit, ChainStep, PTL DEF Spec

\* AuthTokensService.rotate: a sign-in has at most one live session that no overtaken rotation minted,
\* for any number of tabs that refresh at once.
THEOREM ChainsHaveOneHeir == Spec => []OneHeir
<1>1. ChainInv => OneHeir
  <2> SUFFICES ASSUME ChainInv, NEW s \in DOMAIN sessions, NEW t \in DOMAIN sessions, Live(s), Live(t),
                      sessions[s].login = sessions[t].login, ~ sessions[s].raced, ~ sessions[t].raced
               PROVE  s = t
    BY DEF OneHeir
  <2>1. /\ s \in 1..Len(sessions) /\ t \in 1..Len(sessions) /\ s \in Nat /\ t \in Nat
        /\ ~ sessions[s].revoked /\ ~ sessions[t].revoked /\ Unraced(s) /\ Unraced(t)
    BY DEF ChainInv, AccountType, Live, Unraced
  <2>2. ~ HasHeir(s) /\ ~ HasHeir(t)
    <3>1. \A u \in 1..Len(sessions) : sessions[u].from # 0 => sessions[sessions[u].from].revoked
      BY DEF ChainInv, Chains, ChainRows
    <3> QED BY <2>1, <3>1 DEF HasHeir
  <2>3. ~ s < t /\ ~ t < s
    BY <2>1, <2>2 DEF ChainInv, Chains, Linear
  <2> QED BY <2>1, <2>3
<1> QED BY <1>1, ChainAlways, PTL

\* rotate's sweep and revoke: what was ended by a reuse or by a logout with the current token stays
\* ended, apart from what a rotation under way at that time mints.
THEOREM EndedChainsStayEnded == Spec => []EndedStaysEnded
<1>1. ChainInv => EndedStaysEnded
  BY DEF ChainInv, AccountType, EndsHold, EndedStaysEnded, Live, Unraced
<1> QED BY <1>1, ChainAlways, PTL
=============================================================================
