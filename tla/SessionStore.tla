---------------------------- MODULE SessionStore ----------------------------
(***************************************************************************)
(* What auth_sessions promises the users: a login opens a session with one *)
(* usable token; the token is exchanged for a new one of the same user and *)
(* is then worth nothing, or the session ends and stays ended.  No token   *)
(* is issued twice.                                                        *)
(***************************************************************************)
CONSTANTS Tokens, Users, NoUser

VARIABLES
    current, \* by the token a login was answered with: the usable tokens of that session
    owner    \* whose each token is; NoUser: not issued

vars == <<current, owner>>

Init ==
    /\ current = [l \in Tokens |-> {}]
    /\ owner = [t \in Tokens |-> NoUser]

Open(l, u) ==
    /\ owner[l] = NoUser
    /\ current' = [current EXCEPT ![l] = {l}]
    /\ owner' = [owner EXCEPT ![l] = u]

Rotate(l, t, n) ==
    /\ current[l] = {t}
    /\ owner[n] = NoUser
    /\ current' = [current EXCEPT ![l] = {n}]
    /\ owner' = [owner EXCEPT ![n] = owner[t]]

End(l, t) ==
    /\ current[l] = {t}
    /\ current' = [current EXCEPT ![l] = {}]
    /\ UNCHANGED owner

Next == \E l, t \in Tokens :
           \/ \E u \in Users : Open(l, u)
           \/ \E n \in Tokens : Rotate(l, t, n)
           \/ End(l, t)

Spec == Init /\ [][Next]_vars
=============================================================================
