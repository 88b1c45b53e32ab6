---------------------------- MODULE AuthSessions ----------------------------
(***************************************************************************)
(* Accounts and refresh-token sessions: register, login, refresh and       *)
(* logout of backend/app/auth/service.py over the users and auth_sessions  *)
(* rows of backend/app/db/repositories/auth_repository.py.                 *)
(*                                                                         *)
(* A call runs one transaction (login: a lookup, then one transaction).    *)
(* PostgreSQL is READ COMMITTED: an UPDATE of a row that a peer has        *)
(* revoked but not committed waits and evaluates its WHERE again, and an   *)
(* INSERT of an email that a peer has inserted but not committed waits for *)
(* the peer.  NOW() is the time at which the transaction began.            *)
(*                                                                         *)
(* The checks that come before any effect (email, name, password policy)   *)
(* are left out, and so is "user no longer exists": no operation removes a *)
(* user (delete_user_account of migration 020 always raises, README).      *)
(***************************************************************************)
EXTENDS Integers

CONSTANTS
    Calls,     \* concurrent calls of the service, one connection each
    NoCall,    \* "no transaction holds this row"
    Emails, NoEmail,
    Users,     \* the ids register may generate
    NoUser,    \* "no account has this email"
    Tokens,    \* the jti's create_refresh_token may generate
    NoToken,
    TTL,       \* REFRESH_TTL
    MaxClock   \* bound: how far the clock runs

ASSUME SentinelsAssumption == 
    /\ NoCall \notin Calls /\ NoUser \notin Users
    /\ NoToken \notin Tokens /\ NoEmail \notin Emails
ASSUME TTLAssumption == TTL \in Nat \ {0} /\ MaxClock \in Nat

VARIABLES
    clock,
    account,   \* users: the id registered under each email, as committed
    inserting, \* which call has inserted an uncommitted users row with this email
    session,   \* auth_sessions, as committed, by the token of each row
    revoking,  \* which call has revoked this row but not committed
    known,     \* the tokens a client has received and may present
    signedOut, \* history: tokens whose session a logout found active and revoked
    call       \* the locals and the result of every call

vars == <<clock, account, inserting, session, revoking, known, signedOut, call>>

(***************************************************************************)
(* parent and login are history: the token this one was rotated from, and  *)
(* the token of the login or registration that started the chain.          *)
(***************************************************************************)
Session == [state : {"none", "active", "revoked"}, user : Users \cup {NoUser}, expires : Nat,
            parent : Tokens \cup {NoToken}, login : Tokens \cup {NoToken}]
NoSession == [state |-> "none", user |-> NoUser, expires |-> 0,
              parent |-> NoToken, login |-> NoToken]

PCs == {"idle", "create", "register", "login", "open", "revoke", "rotate"}
Results == {"none", "ok", "refused"}   \* "refused": the call raised, whichever error

Call == [pc : PCs, kind : {"none", "register", "login", "refresh", "logout"},
         email : Emails \cup {NoEmail}, user : Users \cup {NoUser}, token : Tokens \cup {NoToken},
         now : Nat, result : Results]

\* A call that has returned (or was never made, or has died): its locals are gone.
Done(result) == [pc |-> "idle", kind |-> "none", email |-> NoEmail, user |-> NoUser,
                 token |-> NoToken, now |-> 0, result |-> result]

TypeOK ==
    /\ clock \in Nat
    /\ account \in [Emails -> Users \cup {NoUser}]
    /\ inserting \in [Emails -> Calls \cup {NoCall}]
    /\ session \in [Tokens -> Session]
    /\ revoking \in [Tokens -> Calls \cup {NoCall}]
    /\ known \in SUBSET Tokens
    /\ signedOut \in SUBSET Tokens
    /\ call \in [Calls -> Call]

Init ==
    /\ clock = 0
    /\ account = [e \in Emails |-> NoUser]
    /\ inserting = [e \in Emails |-> NoCall]
    /\ session = [t \in Tokens |-> NoSession]
    /\ revoking = [t \in Tokens |-> NoCall]
    /\ known = {}
    /\ signedOut = {}
    /\ call = [c \in Calls |-> Done("none")]

Idle(c) == call[c].pc = "idle"

Moves(c, q) == call' = [call EXCEPT ![c] = q]

Returns(c, result) == Moves(c, Done(result))

NoEffect == UNCHANGED <<clock, account, inserting, session, revoking, known, signedOut>>

\* Mutant: the expiry lies in the past.
IssuedBackwards(t, user, parent) ==
    [state |-> "active", user |-> user, expires |-> clock - TTL, parent |-> parent,
     login |-> IF parent = NoToken THEN t ELSE session[parent].login]

\* A new session row for token t.
Issued(t, user, parent) ==
    [state |-> "active", user |-> user, expires |-> clock + TTL, parent |-> parent,
     login |-> IF parent = NoToken THEN t ELSE session[parent].login]

Fresh(t) == session[t].state = "none"

\* The client learns t, unless the response is lost.
Delivered(t) == known' \in {known, known \cup {t}}

(***************************************************************************)
(* register: find_by_email, create_user, then the rest of the transaction. *)
(***************************************************************************)
FreshUser(u) ==
    /\ \A e \in Emails : account[e] # u
    /\ \A c \in Calls : Idle(c) \/ call[c].user # u

StartRegister(c, e) ==
    /\ Idle(c)
    /\ \/ /\ account[e] # NoUser
          /\ Returns(c, "refused")
       \/ /\ account[e] = NoUser
          /\ \E u \in Users :
                /\ FreshUser(u)
                /\ Moves(c, [call[c] EXCEPT !.pc = "create", !.kind = "register", !.email = e,
                                            !.user = u, !.result = "none"])
    /\ NoEffect

\* Mutant: users.email without its UNIQUE constraint.
CreateWithoutUnique(c) ==
    /\ call[c].pc = "create"
    /\ Moves(c, [call[c] EXCEPT !.pc = "register"])
    /\ NoEffect

\* create_user under users.email UNIQUE; a lost race raises UniqueViolation
CreateUser(c) ==
    LET e == call[c].email IN
    /\ call[c].pc = "create"
    /\ inserting[e] = NoCall
    /\ \/ /\ account[e] # NoUser
          /\ Returns(c, "refused")
          /\ NoEffect
       \/ /\ account[e] = NoUser
          /\ inserting' = [inserting EXCEPT ![e] = c]
          /\ Moves(c, [call[c] EXCEPT !.pc = "register"])
          /\ UNCHANGED <<clock, account, session, revoking, known, signedOut>>

\* seed_default_settings, insert_audit, insert_session, commit
FinishRegister(c) ==
    LET e == call[c].email IN
    /\ call[c].pc = "register"
    /\ account' = [account EXCEPT ![e] = call[c].user]
    /\ inserting' = [inserting EXCEPT ![e] = NoCall]
    /\ \E t \in Tokens :
          /\ Fresh(t)
          /\ session' = [session EXCEPT ![t] = Issued(t, call[c].user, NoToken)]
          /\ Delivered(t)
    /\ Returns(c, "ok")
    /\ UNCHANGED <<clock, revoking, signedOut>>

(***************************************************************************)
(* login: an anonymous lookup, the password check, then the session.       *)
(***************************************************************************)
StartLogin(c, e) ==
    /\ Idle(c)
    /\ \/ /\ account[e] # NoUser
          /\ Moves(c, [call[c] EXCEPT !.pc = "login", !.kind = "login", !.email = e,
                                      !.user = account[e], !.result = "none"])
       \/ \* no such email, or a wrong password
          Returns(c, "refused")
    /\ NoEffect

FinishLogin(c) ==
    /\ call[c].pc = "login"
    /\ \E t \in Tokens :
          /\ Fresh(t)
          /\ session' = [session EXCEPT ![t] = Issued(t, call[c].user, NoToken)]
          /\ Delivered(t)
    /\ Returns(c, "ok")
    /\ UNCHANGED <<clock, account, inserting, revoking, signedOut>>

(***************************************************************************)
(* refresh and logout: decode_token, begin, revoke_active_session.         *)
(***************************************************************************)
Present(c, t, kind) ==
    /\ Idle(c)
    /\ t \in known
    /\ \/ /\ clock < session[t].expires
          /\ Moves(c, [call[c] EXCEPT !.pc = "open", !.kind = kind, !.token = t,
                                      !.user = session[t].user, !.result = "none"])
       \/ /\ clock >= session[t].expires
          /\ Returns(c, "refused")
    /\ NoEffect

OpenTransaction(c) ==
    /\ call[c].pc = "open"
    /\ Moves(c, [call[c] EXCEPT !.pc = "revoke", !.now = clock])
    /\ NoEffect

\* Mutant: the UPDATE asks only for the token, not for revoked_at IS NULL.
RevocableWhateverItsState(t, now) == session[t].state # "none" /\ session[t].expires > now

\* revoke_active_session's WHERE, on the committed row
Revocable(t, now) == session[t].state = "active" /\ session[t].expires > now

\* The new session is inserted only after the row of the old one is revoked and locked.
RevokeForRefresh(c) ==
    LET t == call[c].token IN
    /\ call[c].pc = "revoke" /\ call[c].kind = "refresh"
    /\ \/ /\ Revocable(t, call[c].now)
          /\ revoking[t] = NoCall
          /\ revoking' = [revoking EXCEPT ![t] = c]
          /\ Moves(c, [call[c] EXCEPT !.pc = "rotate"])
          /\ UNCHANGED <<clock, account, inserting, session, known, signedOut>>
       \/ /\ ~Revocable(t, call[c].now)
          /\ Returns(c, "refused")
          /\ NoEffect

\* Mutant: the presented session is left as it was.
RotateWithoutRevoking(c) ==
    LET t == call[c].token IN
    /\ call[c].pc = "rotate"
    /\ \E n \in Tokens :
          /\ Fresh(n)
          /\ session' = [session EXCEPT ![n] = Issued(n, call[c].user, t)]
          /\ Delivered(n)
    /\ revoking' = [revoking EXCEPT ![t] = NoCall]
    /\ Returns(c, "ok")
    /\ UNCHANGED <<clock, account, inserting, signedOut>>

\* get_user_by_id, insert_session, commit
Rotate(c) ==
    LET t == call[c].token IN
    /\ call[c].pc = "rotate"
    /\ \E n \in Tokens :
          /\ Fresh(n)
          /\ session' = [session EXCEPT ![t].state = "revoked", ![n] = Issued(n, call[c].user, t)]
          /\ Delivered(n)
    /\ revoking' = [revoking EXCEPT ![t] = NoCall]
    /\ Returns(c, "ok")
    /\ UNCHANGED <<clock, account, inserting, signedOut>>

\* A logout that finds no active row is a success too.
Logout(c) ==
    LET t == call[c].token IN
    /\ call[c].pc = "revoke" /\ call[c].kind = "logout"
    /\ \/ /\ Revocable(t, call[c].now)
          /\ revoking[t] = NoCall
          /\ session' = [session EXCEPT ![t].state = "revoked"]
          /\ signedOut' = signedOut \cup {t}
          /\ UNCHANGED <<clock, account, inserting, revoking, known>>
       \/ /\ ~Revocable(t, call[c].now)
          /\ NoEffect
    /\ Returns(c, "ok")

(***************************************************************************)
(* A crash, a cancelled task or a lost connection rolls a call back.       *)
(***************************************************************************)
\* Mutant: the revocation commits on its own, before the new session exists.
AbortKeepsRevocation(c) ==
    /\ ~Idle(c)
    /\ inserting' = [e \in Emails |-> IF inserting[e] = c THEN NoCall ELSE inserting[e]]
    /\ revoking' = [t \in Tokens |-> IF revoking[t] = c THEN NoCall ELSE revoking[t]]
    /\ session' = [t \in Tokens |-> IF revoking[t] = c
                                    THEN [session[t] EXCEPT !.state = "revoked"] ELSE session[t]]
    /\ Returns(c, "none")
    /\ UNCHANGED <<clock, account, known, signedOut>>

Abort(c) ==
    /\ ~Idle(c)
    /\ inserting' = [e \in Emails |-> IF inserting[e] = c THEN NoCall ELSE inserting[e]]
    /\ revoking' = [t \in Tokens |-> IF revoking[t] = c THEN NoCall ELSE revoking[t]]
    /\ Returns(c, "none")
    /\ UNCHANGED <<clock, account, session, known, signedOut>>

Tick ==
    /\ clock < MaxClock
    /\ clock' = clock + 1
    /\ UNCHANGED <<account, inserting, session, revoking, known, signedOut, call>>

Step(c) ==
    \/ CreateUser(c) \/ FinishRegister(c) \/ FinishLogin(c)
    \/ OpenTransaction(c) \/ RevokeForRefresh(c) \/ Rotate(c) \/ Logout(c)

Starts(c) ==
    \/ \E e \in Emails : StartRegister(c, e) \/ StartLogin(c, e)
    \/ \E t \in Tokens : Present(c, t, "refresh") \/ Present(c, t, "logout")

Next == Tick \/ \E c \in Calls : Starts(c) \/ Step(c) \/ Abort(c)

Spec == Init /\ [][Next]_vars

----------------------------------------------------------------------------
\* However its refreshes, logouts, crashes and lost answers interleave, one login has at
\* most one usable refresh token: presenting a token twice never forks the session.
OneLiveTokenPerLogin ==
    \A s, t \in Tokens :
        /\ session[s].state = "active" /\ session[t].state = "active"
        /\ session[s].login = session[t].login
        => s = t

\* A refresh that fails or is cut off leaves the token it was given usable: a session is
\* revoked only together with its replacement, or by a logout.
NoTokenBurned ==
    \A t \in Tokens : session[t].state = "revoked" =>
        t \in signedOut \/ \E s \in Tokens : session[s].parent = t

\* Once a logout has revoked a session no refresh that was already under way revives it.
SignedOutIsFinal ==
    \A t \in signedOut : /\ session[t].state = "revoked"
                         /\ \A s \in Tokens : session[s].parent # t

\* A session belongs to the account that its email leads to: of two registrations of one
\* email only one is told it succeeded and can use what it was given.
SessionsHaveAccounts ==
    \A t \in Tokens : session[t].state # "none" => \E e \in Emails : account[e] = session[t].user

\* Whatever the interleaving of refreshes, logouts, crashes and lost answers, the committed
\* rows are a session store: one usable token per login, exchanged for one new token of the
\* same user or ended for good, and no token issued twice.
UsableTokens(l) == {t \in Tokens : session[t].state = "active" /\ session[t].login = l}

Sessions == INSTANCE SessionStore WITH
    current <- [l \in Tokens |-> UsableTokens(l)],
    owner <- [t \in Tokens |-> session[t].user]

ImplementsSessionStore == Sessions!Spec
----------------------------------------------------------------------------
(***************************************************************************)
(* The inductive invariant behind the theorems of AuthSessionsProofs.      *)
(***************************************************************************)
\* A row that exists has an owner and belongs to a chain that starts with a row.
RowsOK ==
    \A t \in Tokens :
        LET row == session[t] IN
        /\ row.state = "none" => row = NoSession /\ t \notin known
        /\ row.state # "none" =>
              /\ row.user \in Users
              /\ row.login \in Tokens /\ session[row.login].state # "none"
              /\ row.parent # NoToken => session[row.parent].state = "revoked"

\* The token a call works on has a row, and the row's lock is the call's while it rotates.
Presented ==
    \A c \in Calls :
        /\ call[c].pc \in {"open", "revoke", "rotate"} =>
              /\ call[c].token \in Tokens /\ session[call[c].token].state # "none"
              /\ call[c].user = session[call[c].token].user
        /\ call[c].pc = "rotate" => /\ revoking[call[c].token] = c
                                    /\ session[call[c].token].state = "active"

RowLocks == \A t \in Tokens, c \in Calls :
               revoking[t] = c => call[c].pc = "rotate" /\ call[c].token = t

\* A registration holds its email until it ends; a login has found its account.
Registering ==
    \A c \in Calls :
        /\ call[c].pc \in {"create", "register"} => call[c].email \in Emails /\ call[c].user \in Users
        /\ call[c].pc = "register" => /\ inserting[call[c].email] = c
                                      /\ account[call[c].email] = NoUser
        /\ call[c].pc = "login" => /\ call[c].user \in Users
                                   /\ \E e \in Emails : account[e] = call[c].user

AuthInv ==
    /\ TypeOK /\ RowsOK /\ Presented /\ RowLocks /\ Registering
    /\ OneLiveTokenPerLogin /\ NoTokenBurned /\ SignedOutIsFinal /\ SessionsHaveAccounts
=============================================================================
