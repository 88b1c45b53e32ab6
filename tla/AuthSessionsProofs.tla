------------------------- MODULE AuthSessionsProofs -------------------------
(***************************************************************************)
(* Proofs about AuthSessions for any number of concurrent calls, accounts  *)
(* and tokens, and any lifetime of a token.                                *)
(***************************************************************************)
EXTENDS AuthSessions, TLAPS

\* What the locals of a call that holds no row have to satisfy.
QuietLocals(q) ==
    /\ q \in Call
    /\ q.pc \notin {"rotate", "register"}
    /\ q.pc \in {"open", "revoke"} =>
          /\ q.token \in Tokens /\ session[q.token].state # "none"
          /\ q.user = session[q.token].user
    /\ q.pc = "create" => q.email \in Emails /\ q.user \in Users
    /\ q.pc = "login" => q.user \in Users /\ \E e \in Emails : account[e] = q.user

\* A call that has ended satisfies it.
LEMMA DoneIsQuiet ==
    ASSUME NEW result \in Results
    PROVE  QuietLocals(Done(result)) /\ Done(result) \in Call /\ Done(result).pc = "idle"
  BY DEF QuietLocals, Done, Call, PCs

\* The rows stay as they are and a call that holds none moves on.
LEMMA QuietStep ==
    ASSUME AuthInv, NEW c \in Calls, NEW q, QuietLocals(q), Moves(c, q), NoEffect,
           call[c].pc \notin {"rotate", "register"}
    PROVE  AuthInv'
  <1> USE DEF AuthInv, NoEffect, Moves
  <1>0. call'[c] = q /\ \A d \in Calls : d # c => call'[d] = call[d]
    BY DEF TypeOK
  <1>1. TypeOK'
    BY DEF TypeOK, QuietLocals
  <1>2. RowsOK'
    BY DEF RowsOK
  <1>3. Presented'
    BY <1>0 DEF Presented, QuietLocals
  <1>4. RowLocks'
    BY <1>0 DEF RowLocks
  <1>5. Registering'
    BY <1>0 DEF Registering, QuietLocals
  <1>6. OneLiveTokenPerLogin' /\ NoTokenBurned' /\ SignedOutIsFinal' /\ SessionsHaveAccounts'
    BY DEF OneLiveTokenPerLogin, NoTokenBurned, SignedOutIsFinal, SessionsHaveAccounts
  <1> QED BY <1>1, <1>2, <1>3, <1>4, <1>5, <1>6

\* Initially there are no rows.
LEMMA InitAuth == Init => AuthInv
  <1> SUFFICES ASSUME Init PROVE AuthInv
    OBVIOUS
  <1> USE DEF Init, Done, NoSession
  <1>1. TypeOK
    BY DEF TypeOK, Call, PCs, Results, Session
  <1>2. RowsOK /\ Presented /\ Registering
    BY DEF RowsOK, Presented, Registering
  <1>3. RowLocks
    BY SentinelsAssumption DEF RowLocks
  <1>4. OneLiveTokenPerLogin /\ NoTokenBurned /\ SignedOutIsFinal /\ SessionsHaveAccounts
    BY DEF OneLiveTokenPerLogin, NoTokenBurned, SignedOutIsFinal, SessionsHaveAccounts
  <1> QED BY <1>1, <1>2, <1>3, <1>4 DEF AuthInv

\* Calls that begin.
LEMMA StartSteps ==
    ASSUME AuthInv, NEW c \in Calls, Starts(c)
    PROVE  AuthInv'
  <1>0. call[c] \in Call
    BY DEF AuthInv, TypeOK
  <1>a. CASE Idle(c) /\ NoEffect /\ Returns(c, "refused")
    BY <1>a, DoneIsQuiet, QuietStep DEF Results, Returns, Idle
  <1>1. ASSUME NEW e \in Emails, StartRegister(c, e)
        PROVE  AuthInv'
    <2>1. Idle(c) /\ NoEffect
      BY <1>1 DEF StartRegister
    <2>2. ASSUME NEW u \in Users,
                 Moves(c, [call[c] EXCEPT !.pc = "create", !.kind = "register", !.email = e,
                                          !.user = u, !.result = "none"])
          PROVE  AuthInv'
      <3> DEFINE q == [call[c] EXCEPT !.pc = "create", !.kind = "register", !.email = e,
                                      !.user = u, !.result = "none"]
      <3>1. QuietLocals(q)
        BY <1>0 DEF QuietLocals, Call, PCs, Results
      <3> HIDE DEF q
      <3> QED BY <2>1, <2>2, <3>1, QuietStep DEF Idle, q
    <2> QED BY <1>1, <2>1, <2>2, <1>a DEF StartRegister
  <1>2. ASSUME NEW e \in Emails, StartLogin(c, e)
        PROVE  AuthInv'
    <2>1. Idle(c) /\ NoEffect
      BY <1>2 DEF StartLogin
    <2> DEFINE q == [call[c] EXCEPT !.pc = "login", !.kind = "login", !.email = e,
                                    !.user = account[e], !.result = "none"]
    <2>2. CASE account[e] # NoUser /\ Moves(c, q)
      <3>1. account[e] \in Users
        BY <2>2 DEF AuthInv, TypeOK
      <3>2. q \in Call /\ q.pc = "login" /\ q.user = account[e]
        BY <1>0, <3>1 DEF Call, PCs, Results
      <3> HIDE DEF q
      <3>3. QuietLocals(q)
        BY <3>1, <3>2 DEF QuietLocals
      <3> QED BY <2>1, <2>2, <3>3, QuietStep DEF Idle
    <2> QED BY <1>2, <2>1, <2>2, <1>a DEF StartLogin
  <1>3. ASSUME NEW t \in Tokens, NEW kind \in {"refresh", "logout"}, Present(c, t, kind)
        PROVE  AuthInv'
    <2>1. Idle(c) /\ NoEffect /\ t \in known
      BY <1>3 DEF Present
    <2> DEFINE q == [call[c] EXCEPT !.pc = "open", !.kind = kind, !.token = t,
                                    !.user = session[t].user, !.result = "none"]
    <2>2. CASE Moves(c, q)
      <3>1. session[t].state # "none" /\ session[t].user \in Users
        BY <2>1 DEF AuthInv, RowsOK
      <3>2. q \in Call /\ q.pc = "open" /\ q.token = t /\ q.user = session[t].user
        BY <1>0, <3>1 DEF Call, PCs, Results
      <3> HIDE DEF q
      <3>3. QuietLocals(q)
        BY <3>1, <3>2 DEF QuietLocals
      <3> QED BY <2>1, <2>2, <3>3, QuietStep DEF Idle
    <2> QED BY <1>3, <2>1, <2>2, <1>a DEF Present
  <1> QED BY <1>1, <1>2, <1>3 DEF Starts

\* A transaction that ends without effect on committed rows: a crash.
LEMMA AbortStep ==
    ASSUME AuthInv, NEW c \in Calls, Abort(c)
    PROVE  AuthInv'
  <1> USE DEF AuthInv, Abort
  <1> DEFINE q == Done("none")
  <1>q. q \in Call /\ q.pc = "idle"
    BY DoneIsQuiet DEF Results
  <1> HIDE DEF q
  <1>0. /\ call' = [call EXCEPT ![c] = q]
        /\ call'[c] = q /\ \A d \in Calls : d # c => call'[d] = call[d]
    BY DEF TypeOK, Returns, Moves, q
  <1>a. /\ \A t \in Tokens : revoking[t] = c => revoking'[t] = NoCall
        /\ \A t \in Tokens : revoking[t] # c => revoking'[t] = revoking[t]
        /\ \A e \in Emails : inserting[e] = c => inserting'[e] = NoCall
        /\ \A e \in Emails : inserting[e] # c => inserting'[e] = inserting[e]
    OBVIOUS
  <1>1. TypeOK'
    BY <1>0, <1>q DEF TypeOK
  <1>2. RowsOK'
    BY DEF RowsOK
  <1>3. Presented'
    BY <1>0, <1>a, <1>q DEF Presented
  <1>4. RowLocks'
    BY <1>0, <1>a, SentinelsAssumption DEF RowLocks
  <1>5. Registering'
    BY <1>0, <1>a, <1>q DEF Registering
  <1>6. OneLiveTokenPerLogin' /\ NoTokenBurned' /\ SignedOutIsFinal' /\ SessionsHaveAccounts'
    BY DEF OneLiveTokenPerLogin, NoTokenBurned, SignedOutIsFinal, SessionsHaveAccounts
  <1> QED BY <1>1, <1>2, <1>3, <1>4, <1>5, <1>6

\* An account is created but not committed, or the email turns out to be taken.
LEMMA CreateStep ==
    ASSUME AuthInv, NEW c \in Calls, CreateUser(c)
    PROVE  AuthInv'
  <1> DEFINE e == call[c].email
             q == [call[c] EXCEPT !.pc = "register"]
  <1>0. /\ call[c].pc = "create" /\ inserting[e] = NoCall /\ call[c] \in Call
        /\ e \in Emails /\ call[c].user \in Users
    BY DEF AuthInv, TypeOK, Registering, CreateUser
  <1>1. CASE Returns(c, "refused") /\ NoEffect
    BY <1>0, <1>1, DoneIsQuiet, QuietStep DEF Results, Returns
  <1>2. CASE /\ account[e] = NoUser /\ inserting' = [inserting EXCEPT ![e] = c] /\ Moves(c, q)
             /\ UNCHANGED <<clock, account, session, revoking, known, signedOut>>
    <2> USE DEF AuthInv
    <2>1. q \in Call /\ q.pc = "register" /\ q.email = e /\ q.user = call[c].user
      BY <1>0 DEF Call, PCs
    <2>2. /\ call' = [call EXCEPT ![c] = q]
          /\ call'[c] = q /\ \A d \in Calls : d # c => call'[d] = call[d]
      BY <1>2 DEF TypeOK, Moves
    <2> HIDE DEF q
    <2>3. TypeOK'
      BY <1>0, <1>2, <2>1, <2>2 DEF TypeOK
    <2>4. RowsOK'
      BY <1>2 DEF RowsOK
    <2>5. Presented' /\ RowLocks'
      BY <1>0, <1>2, <2>1, <2>2 DEF Presented, RowLocks
    <2>6. Registering'
      <3>1. \A d \in Calls : d # c /\ call[d].pc = "register" => call[d].email # e
        BY <1>0, SentinelsAssumption DEF Registering
      <3>2. inserting'[e] = c /\ \A x \in Emails : x # e => inserting'[x] = inserting[x]
        BY <1>0, <1>2 DEF TypeOK
      <3> QED BY <1>0, <1>2, <2>1, <2>2, <3>1, <3>2 DEF Registering
    <2>7. OneLiveTokenPerLogin' /\ NoTokenBurned' /\ SignedOutIsFinal' /\ SessionsHaveAccounts'
      BY <1>2 DEF OneLiveTokenPerLogin, NoTokenBurned, SignedOutIsFinal, SessionsHaveAccounts
    <2> QED BY <2>3, <2>4, <2>5, <2>6, <2>7
  <1> QED BY <1>1, <1>2 DEF CreateUser

\* A session row is a session row.
LEMMA IssuedType ==
    ASSUME TypeOK, NEW t \in Tokens, NEW u \in Users, NEW p \in Tokens \cup {NoToken},
           p # NoToken => session[p].login \in Tokens
    PROVE  /\ Issued(t, u, p) \in Session
           /\ Issued(t, u, p).state = "active" /\ Issued(t, u, p).user = u
           /\ Issued(t, u, p).parent = p
           /\ Issued(t, u, p).login = IF p = NoToken THEN t ELSE session[p].login
           /\ Issued(t, u, p).login \in Tokens
  <1>1. clock + TTL \in Nat
    BY TTLAssumption DEF TypeOK
  <1> QED BY <1>1 DEF Issued, Session

\* A login or a registration adds the first session of a new chain.
LEMMA FirstSession ==
    ASSUME AuthInv, NEW t \in Tokens, NEW u \in Users, Fresh(t),
           session' = [session EXCEPT ![t] = Issued(t, u, NoToken)],
           Delivered(t), UNCHANGED signedOut
    PROVE  /\ session' \in [Tokens -> Session] /\ known' \in SUBSET Tokens
           /\ RowsOK' /\ OneLiveTokenPerLogin' /\ NoTokenBurned' /\ SignedOutIsFinal'
           /\ \A s \in Tokens : session[s].state # "none" => session'[s] = session[s]
           /\ \A s \in Tokens : session'[s].state # "none" /\ s # t => session[s].state # "none"
           /\ session'[t].user = u
  <1> DEFINE row == Issued(t, u, NoToken)
  <1> USE DEF AuthInv
  <1>1. /\ row \in Session /\ row.state = "active" /\ row.user = u
        /\ row.parent = NoToken /\ row.login = t
    BY IssuedType
  <1> HIDE DEF row
  <1>2. /\ session' = [session EXCEPT ![t] = row] /\ session' \in [Tokens -> Session]
        /\ session'[t] = row /\ \A s \in Tokens : s # t => session'[s] = session[s]
    BY <1>1 DEF TypeOK, row
  <1>3. known' \in SUBSET Tokens /\ \A s \in Tokens : s # t /\ s \in known' => s \in known
    BY DEF TypeOK, Delivered
  <1>4. RowsOK'
    BY <1>1, <1>2, <1>3 DEF RowsOK, Fresh
  <1>5. OneLiveTokenPerLogin'
    <2>1. \A s \in Tokens : session[s].state = "active" => session[s].login # t
      BY DEF RowsOK, Fresh
    <2> QED BY <1>1, <1>2, <2>1 DEF OneLiveTokenPerLogin
  <1>6. NoTokenBurned'
    <2>1. ASSUME NEW s \in Tokens, session[s].parent # NoToken
          PROVE  session[s].state # "none"
      BY <2>1 DEF RowsOK, NoSession
    <2>2. SUFFICES ASSUME NEW x \in Tokens, session'[x].state = "revoked", x \notin signedOut
                   PROVE  \E s \in Tokens : session'[s].parent = x
      BY DEF NoTokenBurned
    <2>3. PICK s \in Tokens : session[s].parent = x
      BY <1>1, <1>2, <2>2 DEF NoTokenBurned
    <2>4. s # t
      BY <2>1, <2>3, SentinelsAssumption DEF Fresh
    <2> QED BY <1>2, <2>3, <2>4
  <1>7. SignedOutIsFinal'
    BY <1>1, <1>2, SentinelsAssumption DEF SignedOutIsFinal, TypeOK, Fresh
  <1> QED BY <1>1, <1>2, <1>3, <1>4, <1>5, <1>6, <1>7 DEF Fresh

\* The transactions of register and login that insert a first session.
LEMMA FirstSessionSteps ==
    ASSUME AuthInv, NEW c \in Calls, FinishRegister(c) \/ FinishLogin(c)
    PROVE  AuthInv'
  <1> DEFINE q == Done("ok")
             u == call[c].user
  <1> USE DEF AuthInv
  <1>q. q \in Call /\ q.pc = "idle"
    BY DoneIsQuiet DEF Results
  <1> HIDE DEF q
  <1>1. /\ call' = [call EXCEPT ![c] = q]
        /\ call'[c] = q /\ \A d \in Calls : d # c => call'[d] = call[d]
    BY DEF FinishRegister, FinishLogin, TypeOK, Returns, Moves, q
  <1>2. PICK t \in Tokens : /\ Fresh(t) /\ Delivered(t)
                            /\ session' = [session EXCEPT ![t] = Issued(t, u, NoToken)]
    BY DEF FinishRegister, FinishLogin
  <1>3. u \in Users /\ UNCHANGED <<clock, revoking, signedOut>> /\ call[c].pc \in {"register", "login"}
    BY DEF FinishRegister, FinishLogin, Registering
  <1> HIDE DEF u
  <1>4. /\ session' \in [Tokens -> Session] /\ known' \in SUBSET Tokens
        /\ RowsOK' /\ OneLiveTokenPerLogin' /\ NoTokenBurned' /\ SignedOutIsFinal'
        /\ \A s \in Tokens : session[s].state # "none" => session'[s] = session[s]
        /\ \A s \in Tokens : session'[s].state # "none" /\ s # t => session[s].state # "none"
        /\ session'[t].user = u
    BY <1>2, <1>3, FirstSession
  <1>5. Presented' /\ RowLocks'
    BY <1>q, <1>1, <1>3, <1>4 DEF Presented, RowLocks
  <1>6. CASE FinishLogin(c)
    <2>1. UNCHANGED <<account, inserting>> /\ call[c].pc = "login"
      BY <1>6 DEF FinishLogin
    <2>2. TypeOK'
      BY <1>q, <1>1, <1>3, <1>4, <2>1 DEF TypeOK
    <2>3. Registering'
      BY <1>q, <1>1, <2>1 DEF Registering
    <2>4. SessionsHaveAccounts'
      BY <1>4, <2>1 DEF SessionsHaveAccounts, Registering, u
    <2> QED BY <1>4, <1>5, <2>2, <2>3, <2>4
  <1>7. CASE FinishRegister(c)
    <2> DEFINE e == call[c].email
    <2>1. /\ account' = [account EXCEPT ![e] = u] /\ inserting' = [inserting EXCEPT ![e] = NoCall]
          /\ call[c].pc = "register" /\ e \in Emails /\ inserting[e] = c /\ account[e] = NoUser
      BY <1>7 DEF FinishRegister, Registering, u
    <2> HIDE DEF e
    <2>2. /\ account'[e] = u /\ \A x \in Emails : x # e => account'[x] = account[x]
          /\ \A x \in Emails : x # e => inserting'[x] = inserting[x]
      BY <2>1 DEF TypeOK
    <2>3. TypeOK'
      BY <1>q, <1>1, <1>3, <1>4, <2>1 DEF TypeOK
    <2>4. \A x \in Emails : account[x] \in Users => x # e /\ account'[x] = account[x]
      BY <2>1, <2>2, SentinelsAssumption
    <2>5. \A d \in Calls : d # c /\ call[d].pc = "register" => call[d].email # e
      BY <2>1 DEF Registering
    <2>6. Registering'
      BY <1>q, <1>1, <2>2, <2>4, <2>5 DEF Registering
    <2>7. SessionsHaveAccounts'
      <3> SUFFICES ASSUME NEW s \in Tokens, session'[s].state # "none"
                   PROVE  \E x \in Emails : account'[x] = session'[s].user
        BY DEF SessionsHaveAccounts
      <3>1. CASE s = t
        BY <3>1, <1>4, <2>1, <2>2
      <3>2. CASE s # t
        <4>1. session[s].state # "none" /\ session'[s] = session[s] /\ session[s].user \in Users
          BY <3>2, <1>4 DEF RowsOK
        <4> QED BY <4>1, <2>4 DEF SessionsHaveAccounts
      <3> QED BY <3>1, <3>2
    <2> QED BY <1>4, <1>5, <2>3, <2>6, <2>7
  <1> QED BY <1>6, <1>7

\* The transaction of a refresh or a logout begins.
LEMMA OpenStep ==
    ASSUME AuthInv, NEW c \in Calls, OpenTransaction(c)
    PROVE  AuthInv'
  <1> DEFINE q == [call[c] EXCEPT !.pc = "revoke", !.now = clock]
  <1>1. call[c].pc = "open" /\ NoEffect /\ Moves(c, q)
    BY DEF OpenTransaction
  <1>2. /\ q \in Call /\ q.pc = "revoke" /\ q.token = call[c].token /\ q.user = call[c].user
    BY DEF AuthInv, TypeOK, Call, PCs
  <1>3. /\ call[c].token \in Tokens /\ session[call[c].token].state # "none"
        /\ call[c].user = session[call[c].token].user
    BY <1>1 DEF AuthInv, Presented
  <1> HIDE DEF q
  <1>4. QuietLocals(q)
    BY <1>2, <1>3 DEF QuietLocals
  <1> QED BY <1>1, <1>4, QuietStep

\* A refresh revokes the session it was given, or is refused.
LEMMA RevokeStep ==
    ASSUME AuthInv, NEW c \in Calls, RevokeForRefresh(c)
    PROVE  AuthInv'
  <1> DEFINE t == call[c].token
             q == [call[c] EXCEPT !.pc = "rotate"]
  <1> USE DEF AuthInv
  <1>0. /\ call[c].pc = "revoke" /\ call[c] \in Call
        /\ t \in Tokens /\ session[t].state # "none" /\ call[c].user = session[t].user
    BY DEF RevokeForRefresh, TypeOK, Presented
  <1>1. CASE Returns(c, "refused") /\ NoEffect
    BY <1>0, <1>1, DoneIsQuiet, QuietStep DEF Results, Returns
  <1>2. CASE /\ Revocable(t, call[c].now) /\ revoking[t] = NoCall
             /\ revoking' = [revoking EXCEPT ![t] = c] /\ Moves(c, q)
             /\ UNCHANGED <<clock, account, inserting, session, known, signedOut>>
    <2>1. q \in Call /\ q.pc = "rotate" /\ q.token = t /\ q.user = call[c].user
      BY <1>0 DEF Call, PCs
    <2>2. /\ call' = [call EXCEPT ![c] = q]
          /\ call'[c] = q /\ \A d \in Calls : d # c => call'[d] = call[d]
      BY <1>2 DEF TypeOK, Moves
    <2>3. /\ revoking'[t] = c /\ \A x \in Tokens : x # t => revoking'[x] = revoking[x]
          /\ session[t].state = "active"
      BY <1>0, <1>2 DEF TypeOK, Revocable
    <2>4. \A d \in Calls : d # c /\ call[d].pc = "rotate" => call[d].token # t
      BY <1>2, SentinelsAssumption DEF Presented
    <2> HIDE DEF q, t
    <2>5. TypeOK'
      BY <1>0, <1>2, <2>1, <2>2 DEF TypeOK
    <2>6. RowsOK'
      BY <1>2 DEF RowsOK
    <2>7. Presented'
      BY <1>0, <1>2, <2>1, <2>2, <2>3, <2>4 DEF Presented
    <2>8. RowLocks'
      BY <1>0, <2>1, <2>2, <2>3 DEF RowLocks
    <2>9. Registering'
      BY <1>0, <1>2, <2>1, <2>2 DEF Registering
    <2>10. OneLiveTokenPerLogin' /\ NoTokenBurned' /\ SignedOutIsFinal' /\ SessionsHaveAccounts'
      BY <1>2 DEF OneLiveTokenPerLogin, NoTokenBurned, SignedOutIsFinal, SessionsHaveAccounts
    <2> QED BY <2>5, <2>6, <2>7, <2>8, <2>9, <2>10
  <1> QED BY <1>1, <1>2 DEF RevokeForRefresh

\* A logout revokes the session it was given, or finds nothing to revoke.
LEMMA LogoutStep ==
    ASSUME AuthInv, NEW c \in Calls, Logout(c)
    PROVE  AuthInv'
  <1> DEFINE t == call[c].token
             q == Done("ok")
  <1> USE DEF AuthInv
  <1>0. call[c].pc = "revoke" /\ t \in Tokens
    BY DEF Logout, Presented
  <1>1. CASE Returns(c, "ok") /\ NoEffect
    BY <1>0, <1>1, DoneIsQuiet, QuietStep DEF Results, Returns
  <1>2. CASE /\ Revocable(t, call[c].now) /\ revoking[t] = NoCall
             /\ session' = [session EXCEPT ![t].state = "revoked"]
             /\ signedOut' = signedOut \cup {t} /\ Returns(c, "ok")
             /\ UNCHANGED <<clock, account, inserting, revoking, known>>
    <2>1. q \in Call /\ q.pc = "idle"
      BY DoneIsQuiet DEF Results
    <2> HIDE DEF q, t
    <2>2. /\ call' = [call EXCEPT ![c] = q]
          /\ call'[c] = q /\ \A d \in Calls : d # c => call'[d] = call[d]
      BY <1>2 DEF TypeOK, Moves, Returns, q
    <2>3. session[t].state = "active"
      BY <1>2 DEF Revocable
    <2>4. /\ session' \in [Tokens -> Session] /\ session'[t].state = "revoked"
          /\ \A x \in Tokens : x # t => session'[x] = session[x]
          /\ \A x \in Tokens : /\ session'[x].user = session[x].user
                               /\ session'[x].parent = session[x].parent
                               /\ session'[x].login = session[x].login
      BY <1>0, <1>2 DEF TypeOK, Session
    <2>5. TypeOK'
      BY <1>0, <1>2, <2>1, <2>2, <2>4 DEF TypeOK
    <2>6. RowsOK'
      BY <1>0, <1>2, <2>3, <2>4 DEF RowsOK, TypeOK, Session
    <2>7. Presented'
      <3>1. \A d \in Calls : call[d].pc = "rotate" => call[d].token # t
        BY <1>2, SentinelsAssumption DEF Presented
      <3> QED BY <1>0, <1>2, <2>1, <2>2, <2>4, <3>1 DEF Presented
    <2>8. RowLocks' /\ Registering'
      BY <1>0, <1>2, <2>1, <2>2 DEF RowLocks, Registering
    <2>9. OneLiveTokenPerLogin' /\ SessionsHaveAccounts'
      BY <1>0, <1>2, <2>3, <2>4 DEF OneLiveTokenPerLogin, SessionsHaveAccounts
    <2>10. NoTokenBurned'
      BY <1>2, <2>4 DEF NoTokenBurned
    <2>11. SignedOutIsFinal'
      <3>1. \A x \in Tokens : session[x].parent # t
        BY <1>0, <2>3, SentinelsAssumption DEF RowsOK, NoSession
      <3> QED BY <1>2, <2>3, <2>4, <3>1 DEF SignedOutIsFinal, TypeOK
    <2> QED BY <2>5, <2>6, <2>7, <2>8, <2>9, <2>10, <2>11
  <1> QED BY <1>1, <1>2 DEF Logout

\* A refresh commits: the old row is revoked and the new one inserted together.
LEMMA RotateStep ==
    ASSUME AuthInv, NEW c \in Calls, Rotate(c)
    PROVE  AuthInv'
  <1> DEFINE t == call[c].token
             u == call[c].user
             q == Done("ok")
  <1> USE DEF AuthInv
  <1>0. /\ t \in Tokens /\ session[t].state = "active" /\ revoking[t] = c
        /\ u = session[t].user /\ u \in Users
        /\ session[t].login \in Tokens /\ session[session[t].login].state # "none"
    BY DEF Rotate, Presented, RowsOK
  <1>1. PICK n \in Tokens :
           /\ Fresh(n) /\ Delivered(n)
           /\ session' = [session EXCEPT ![t].state = "revoked", ![n] = Issued(n, u, t)]
    BY DEF Rotate
  <1>2. /\ revoking' = [revoking EXCEPT ![t] = NoCall] /\ Returns(c, "ok")
        /\ UNCHANGED <<clock, account, inserting, signedOut>>
    BY DEF Rotate
  <1> DEFINE row == Issued(n, u, t)
  <1>3. /\ row \in Session /\ row.state = "active" /\ row.user = u
        /\ row.parent = t /\ row.login = session[t].login
    BY <1>0, IssuedType, SentinelsAssumption
  <1>q. q \in Call /\ q.pc = "idle"
    BY DoneIsQuiet DEF Results
  <1>4. n # t /\ session[n] = NoSession
    BY <1>0, <1>1 DEF Fresh, RowsOK
  <1> HIDE DEF q, t, u, row
  <1>5. /\ call' = [call EXCEPT ![c] = q]
        /\ call'[c] = q /\ \A d \in Calls : d # c => call'[d] = call[d]
    BY <1>2 DEF TypeOK, Moves, Returns, q
  <1>6. session' = [session EXCEPT ![t].state = "revoked", ![n] = row]
    BY <1>1 DEF row
  <1>7. /\ session' \in [Tokens -> Session] /\ session'[t].state = "revoked" /\ session'[n] = row
        /\ \A x \in Tokens \ {t, n} : session'[x] = session[x]
        /\ \A x \in Tokens \ {n} : /\ session'[x].user = session[x].user
                                   /\ session'[x].parent = session[x].parent
                                   /\ session'[x].login = session[x].login
    BY <1>0, <1>3, <1>4, <1>6 DEF TypeOK, Session
  <1>8. known' \in SUBSET Tokens /\ \A x \in Tokens : x # n /\ x \in known' => x \in known
    BY <1>1 DEF TypeOK, Delivered
  <1>9. \A x \in Tokens : session[x].parent # t
    BY <1>0, SentinelsAssumption DEF RowsOK, NoSession
  <1>10. \A x \in Tokens : session[x].parent # n
    <2>1. \A x \in Tokens : session[x].parent # NoToken => session[session[x].parent].state # "none"
      BY DEF RowsOK, NoSession
    <2> QED BY <1>4, <2>1, SentinelsAssumption DEF NoSession
  <1>11. TypeOK'
    BY <1>0, <1>2, <1>q, <1>5, <1>7, <1>8 DEF TypeOK
  <1>12. RowsOK'
    <2>1. /\ \A x \in Tokens : session[x].state # "none" => session'[x].state # "none"
          /\ session'[n].state = "active"
      BY <1>3, <1>4, <1>7 DEF NoSession
    <2>2. \A x \in Tokens : session[x].state = "revoked" => session'[x].state = "revoked"
      BY <1>0, <1>4, <1>7 DEF NoSession
    <2> SUFFICES ASSUME NEW x \in Tokens
                 PROVE  /\ session'[x].state = "none" => session'[x] = NoSession /\ x \notin known'
                        /\ session'[x].state # "none" =>
                             /\ session'[x].user \in Users
                             /\ session'[x].login \in Tokens
                             /\ session'[session'[x].login].state # "none"
                             /\ session'[x].parent # NoToken
                                   => session'[session'[x].parent].state = "revoked"
      BY DEF RowsOK
    <2>3. CASE x = n
      BY <2>1, <2>3, <1>0, <1>3, <1>7
    <2>4. CASE x = t
      <3>1. session[t].parent # NoToken => session[session[t].parent].state = "revoked"
        BY <1>0 DEF RowsOK
      <3>2. session[t].parent \in Tokens \cup {NoToken}
        BY <1>0 DEF TypeOK, Session
      <3> QED BY <2>1, <2>2, <2>4, <1>0, <1>4, <1>7, <3>1, <3>2
    <2>5. CASE x \notin {n, t}
      <3>1. /\ session'[x] = session[x] /\ (x \in known' => x \in known)
            /\ session[x].parent \in Tokens \cup {NoToken}
        BY <2>5, <1>7, <1>8 DEF TypeOK, Session
      <3> QED BY <2>1, <2>2, <3>1 DEF RowsOK
    <2> QED BY <2>3, <2>4, <2>5
  <1>13. \A d \in Calls : d # c /\ call[d].pc = "rotate" => call[d].token # t
    BY <1>0 DEF Presented
  <1>14. \A d \in Calls : call[d].pc \in {"open", "revoke", "rotate"} => call[d].token # n
    BY <1>4 DEF Presented, NoSession
  <1>15. Presented'
    <2>1. \A x \in Tokens : x # t => revoking'[x] = revoking[x]
      BY <1>2 DEF TypeOK
    <2>2. \A x \in Tokens : session[x].state # "none" => session'[x].state # "none"
      BY <1>3, <1>4, <1>7 DEF NoSession
    <2> QED BY <1>q, <1>5, <1>7, <1>13, <1>14, <2>1, <2>2 DEF Presented
  <1>16. RowLocks'
    BY <1>0, <1>2, <1>5, SentinelsAssumption DEF RowLocks, TypeOK, t
  <1>17. Registering'
    BY <1>2, <1>q, <1>5 DEF Registering
  <1>18. OneLiveTokenPerLogin'
    <2>1. \A x \in Tokens : session[x].state = "active" /\ session[x].login = session[t].login
                              => x = t
      BY <1>0 DEF OneLiveTokenPerLogin
    <2> QED BY <1>3, <1>7, <2>1 DEF OneLiveTokenPerLogin
  <1>19. NoTokenBurned'
    <2> SUFFICES ASSUME NEW x \in Tokens, session'[x].state = "revoked", x \notin signedOut
                 PROVE  \E s \in Tokens : session'[s].parent = x
      BY <1>2 DEF NoTokenBurned
    <2>1. CASE x = t
      BY <2>1, <1>3, <1>7
    <2>2. CASE x # t
      <3>1. PICK s \in Tokens : session[s].parent = x
        BY <2>2, <1>3, <1>7 DEF NoTokenBurned
      <3>2. s # n
        BY <3>1, <1>4, SentinelsAssumption DEF NoSession
      <3> QED BY <3>1, <3>2, <1>7
    <2> QED BY <2>1, <2>2
  <1>20. SignedOutIsFinal'
    <2>1. \A x \in signedOut : x \in Tokens /\ x # t /\ x # n
      BY <1>0, <1>4 DEF SignedOutIsFinal, TypeOK, NoSession
    <2> QED BY <1>2, <1>3, <1>7, <2>1 DEF SignedOutIsFinal
  <1>21. SessionsHaveAccounts'
    BY <1>0, <1>2, <1>3, <1>7 DEF SessionsHaveAccounts
  <1> QED BY <1>11, <1>12, <1>15, <1>16, <1>17, <1>18, <1>19, <1>20, <1>21

----------------------------------------------------------------------------
\* AuthInv is inductive.
THEOREM AuthInvariance == Spec => []AuthInv
  <1>1. ASSUME AuthInv, [Next]_vars
        PROVE  AuthInv'
    <2>1. CASE Tick \/ UNCHANGED vars
      BY <1>1, <2>1, TTLAssumption DEF Tick, vars, AuthInv, TypeOK, RowsOK, Presented, RowLocks,
         Registering, OneLiveTokenPerLogin, NoTokenBurned, SignedOutIsFinal, SessionsHaveAccounts
    <2>2. ASSUME NEW c \in Calls, Starts(c) \/ Step(c) \/ Abort(c)
          PROVE  AuthInv'
      BY <1>1, <2>2, StartSteps, CreateStep, FirstSessionSteps, OpenStep, RevokeStep,
         RotateStep, LogoutStep, AbortStep DEF Step
    <2> QED BY <1>1, <2>1, <2>2 DEF Next
  <1> QED BY <1>1, InitAuth, PTL DEF Spec

\* The rows and the locals of every call have their types.
THEOREM AuthTypes == Spec => []TypeOK
  <1>1. AuthInv => TypeOK
    BY DEF AuthInv
  <1> QED BY <1>1, AuthInvariance, PTL

\* One login never has two usable refresh tokens.
THEOREM TokensRotateOnce == Spec => []OneLiveTokenPerLogin
  <1>1. AuthInv => OneLiveTokenPerLogin
    BY DEF AuthInv
  <1> QED BY <1>1, AuthInvariance, PTL

\* A failed refresh leaves its token usable.
THEOREM RefreshIsAtomic == Spec => []NoTokenBurned
  <1>1. AuthInv => NoTokenBurned
    BY DEF AuthInv
  <1> QED BY <1>1, AuthInvariance, PTL

\* What a logout revoked is never revived.
THEOREM LogoutIsFinal == Spec => []SignedOutIsFinal
  <1>1. AuthInv => SignedOutIsFinal
    BY DEF AuthInv
  <1> QED BY <1>1, AuthInvariance, PTL

\* Sessions belong to accounts that were really created.
THEOREM AccountsOwnSessions == Spec => []SessionsHaveAccounts
  <1>1. AuthInv => SessionsHaveAccounts
    BY DEF AuthInv
  <1> QED BY <1>1, AuthInvariance, PTL
(***************************************************************************)
(* The refinement: four steps change a session row, and each is a move of  *)
(* the abstract store; everything else leaves what it maps to alone.       *)
(***************************************************************************)
\* The first session of a chain opens a session of the store.
LEMMA FirstSessionOpens ==
    ASSUME AuthInv, NEW t \in Tokens, NEW u \in Users, Fresh(t),
           session' = [session EXCEPT ![t] = Issued(t, u, NoToken)]
    PROVE  Sessions!Open(t, u)
  <1> DEFINE row == Issued(t, u, NoToken)
  <1>1. row \in Session /\ row.state = "active" /\ row.user = u /\ row.login = t
    BY IssuedType DEF AuthInv
  <1>2. session[t] = NoSession
    BY DEF AuthInv, RowsOK, Fresh
  <1> HIDE DEF row
  <1>3. session'[t] = row /\ \A s \in Tokens : s # t => session'[s] = session[s]
    BY DEF AuthInv, TypeOK, row
  <1>4. \A s \in Tokens : session[s].state = "active" => session[s].login # t
    BY <1>2 DEF AuthInv, RowsOK, NoSession
  <1>5. UsableTokens(t)' = {t}
    BY <1>1, <1>3, <1>4 DEF UsableTokens
  <1>6. \A l \in Tokens : l # t => UsableTokens(l)' = UsableTokens(l)
    BY <1>1, <1>2, <1>3 DEF UsableTokens, NoSession
  <1>7. \A s \in Tokens : session'[s].user = IF s = t THEN u ELSE session[s].user
    BY <1>1, <1>3
  <1>8. [l \in Tokens |-> UsableTokens(l)']
           = [[l \in Tokens |-> UsableTokens(l)] EXCEPT ![t] = {t}]
    BY <1>5, <1>6
  <1>9. [s \in Tokens |-> session'[s].user]
           = [[s \in Tokens |-> session[s].user] EXCEPT ![t] = u]
    BY <1>7
  <1> QED BY <1>2, <1>8, <1>9 DEF Sessions!Open, NoSession

\* The one usable token of the session that an active row belongs to.
LEMMA OneUsable ==
    ASSUME AuthInv, NEW t \in Tokens, session[t].state = "active"
    PROVE  session[t].login \in Tokens /\ UsableTokens(session[t].login) = {t}
  BY DEF AuthInv, RowsOK, OneLiveTokenPerLogin, UsableTokens

\* A refresh exchanges it.
LEMMA RotateExchanges ==
    ASSUME AuthInv, NEW c \in Calls, Rotate(c)
    PROVE  \E l, t, n \in Tokens : Sessions!Rotate(l, t, n)
  <1>1. PICK t \in Tokens : /\ t = call[c].token /\ session[t].state = "active"
                            /\ call[c].user = session[t].user /\ session[t].user \in Users
    BY DEF AuthInv, Rotate, Presented, RowsOK
  <1>2. PICK l \in Tokens : l = session[t].login /\ UsableTokens(l) = {t}
    BY <1>1, OneUsable
  <1> DEFINE u == session[t].user
  <1>3. PICK n \in Tokens :
           Fresh(n) /\ session' = [session EXCEPT ![t].state = "revoked", ![n] = Issued(n, u, t)]
    BY <1>1 DEF Rotate
  <1> DEFINE row == Issued(n, u, t)
  <1>4. row \in Session /\ row.state = "active" /\ row.user = u /\ row.login = l
    BY <1>1, <1>2, IssuedType, SentinelsAssumption DEF AuthInv
  <1>5. n # t /\ session[n] = NoSession
    BY <1>1, <1>3 DEF AuthInv, RowsOK, Fresh
  <1>6. session' = [session EXCEPT ![t].state = "revoked", ![n] = row]
    BY <1>3
  <1> HIDE DEF row
  <1>7. /\ session'[t].state = "revoked" /\ session'[t].user = session[t].user /\ session'[n] = row
        /\ \A x \in Tokens \ {t, n} : session'[x] = session[x]
    BY <1>1, <1>4, <1>5, <1>6 DEF AuthInv, TypeOK, Session
  <1>8. UsableTokens(l)' = {n}
    BY <1>2, <1>4, <1>5, <1>7 DEF UsableTokens
  <1>9. \A k \in Tokens : k # l => UsableTokens(k)' = UsableTokens(k)
    BY <1>2, <1>4, <1>5, <1>7 DEF UsableTokens, NoSession
  <1>10. \A s \in Tokens : session'[s].user = IF s = n THEN session[t].user ELSE session[s].user
    BY <1>1, <1>4, <1>5, <1>7
  <1>11. [k \in Tokens |-> UsableTokens(k)']
            = [[k \in Tokens |-> UsableTokens(k)] EXCEPT ![l] = {n}]
    BY <1>8, <1>9
  <1>12. [s \in Tokens |-> session'[s].user]
            = [[s \in Tokens |-> session[s].user] EXCEPT ![n] = session[t].user]
    BY <1>10
  <1>13. Sessions!Rotate(l, t, n)
    BY <1>2, <1>5, <1>11, <1>12 DEF Sessions!Rotate, NoSession
  <1> QED BY <1>13

\* A logout that finds an active row ends the session.
LEMMA LogoutEnds ==
    ASSUME AuthInv, NEW c \in Calls, Logout(c), session' # session
    PROVE  \E l, t \in Tokens : Sessions!End(l, t)
  <1>1. PICK t \in Tokens : /\ session[t].state = "active"
                            /\ session' = [session EXCEPT ![t].state = "revoked"]
    BY DEF AuthInv, Logout, Presented, Revocable, NoEffect
  <1>2. PICK l \in Tokens : l = session[t].login /\ UsableTokens(l) = {t}
    BY <1>1, OneUsable
  <1>3. /\ session'[t].state = "revoked" /\ session'[t].user = session[t].user
        /\ \A x \in Tokens \ {t} : session'[x] = session[x]
    BY <1>1 DEF AuthInv, TypeOK, Session
  <1>4. UsableTokens(l)' = {} /\ \A k \in Tokens : k # l => UsableTokens(k)' = UsableTokens(k)
    BY <1>2, <1>3 DEF UsableTokens
  <1>5. \A s \in Tokens : session'[s].user = session[s].user
    BY <1>3
  <1>6. [k \in Tokens |-> UsableTokens(k)'] = [[k \in Tokens |-> UsableTokens(k)] EXCEPT ![l] = {}]
    BY <1>4
  <1>7. [s \in Tokens |-> session'[s].user] = [s \in Tokens |-> session[s].user]
    BY <1>5
  <1> QED BY <1>2, <1>6, <1>7 DEF Sessions!End

\* The committed rows of auth_sessions behave as a session store.
THEOREM SessionsImplementStore == Spec => ImplementsSessionStore
  <1>1. Init => Sessions!Init
    BY DEF Init, NoSession, UsableTokens, Sessions!Init
  <1>2. ASSUME AuthInv, [Next]_vars
        PROVE  [Sessions!Next]_(Sessions!vars)
    <2>1. CASE session' = session
      BY <2>1 DEF UsableTokens, Sessions!vars
    <2>2. ASSUME NEW c \in Calls, FinishRegister(c) \/ FinishLogin(c)
          PROVE  Sessions!Next
      <3>1. PICK u \in Users : u = call[c].user
        BY <1>2, <2>2 DEF AuthInv, Registering, FinishRegister, FinishLogin
      <3>2. PICK t \in Tokens :
               Fresh(t) /\ session' = [session EXCEPT ![t] = Issued(t, u, NoToken)]
        BY <2>2, <3>1 DEF FinishRegister, FinishLogin
      <3> QED BY <1>2, <3>1, <3>2, FirstSessionOpens DEF Sessions!Next
    <2>3. ASSUME NEW c \in Calls, Rotate(c)
          PROVE  Sessions!Next
      BY <1>2, <2>3, RotateExchanges DEF Sessions!Next
    <2>4. ASSUME NEW c \in Calls, Logout(c), session' # session
          PROVE  Sessions!Next
      BY <1>2, <2>4, LogoutEnds DEF Sessions!Next
    <2>5. ASSUME session' # session
          PROVE  \E c \in Calls : FinishRegister(c) \/ FinishLogin(c) \/ Rotate(c) \/ Logout(c)
      BY <1>2, <2>5 DEF Next, vars, Tick, Starts, StartRegister, StartLogin, Present, Step, CreateUser,
         OpenTransaction, RevokeForRefresh, Abort, NoEffect
    <2> QED BY <2>1, <2>2, <2>3, <2>4, <2>5
  <1> QED BY <1>1, <1>2, AuthInvariance, PTL DEF Spec, ImplementsSessionStore, Sessions!Spec
=============================================================================
