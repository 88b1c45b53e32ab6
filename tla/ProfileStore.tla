---------------------------- MODULE ProfileStore ----------------------------
(***************************************************************************)
(* What the profiles table promises a user: of every PDF there is one      *)
(* profile at most, it stays, and an edit of it is never undone.           *)
(***************************************************************************)
CONSTANTS
    Keys,  \* a user and the sha256 of a PDF
    Ids

VARIABLE profile  \* by key: none, or one <<id, what its json_resume is>>

Init == profile = [k \in Keys |-> {}]

Create(k, i) ==
    /\ profile[k] = {}
    /\ \A l \in Keys : \A p \in profile[l] : p[1] # i
    /\ profile' = [profile EXCEPT ![k] = {<<i, "extracted">>}]

Edit(k, i) ==
    /\ \E p \in profile[k] : p[1] = i
    /\ profile' = [profile EXCEPT ![k] = {<<i, "edited">>}]

Next == \E k \in Keys, i \in Ids : Create(k, i) \/ Edit(k, i)

Spec == Init /\ [][Next]_profile
=============================================================================
