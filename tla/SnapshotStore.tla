--------------------------- MODULE SnapshotStore ---------------------------
(***************************************************************************)
(* What job_snapshots promises to all users: a snapshot is stored whole    *)
(* under its content hash, once, and never changes or goes away.           *)
(***************************************************************************)
CONSTANTS Hashes, NoSnapshot

VARIABLE snapshot

Init == snapshot = [h \in Hashes |-> NoSnapshot]

Store(h) ==
    /\ snapshot[h] = NoSnapshot
    /\ snapshot' = [snapshot EXCEPT ![h] = snapshot'[h]]

Next == \E h \in Hashes : Store(h)

Spec == Init /\ [][Next]_snapshot
=============================================================================
