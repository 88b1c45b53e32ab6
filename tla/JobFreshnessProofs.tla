------------------------- MODULE JobFreshnessProofs -------------------------
(***************************************************************************)
(* Proofs about JobFreshness for any number of concurrent calls, users and *)
(* rows, any engines, and any bounds on the clock and the page.            *)
(***************************************************************************)
EXTENDS JobFreshness, TLAPS

(***************************************************************************)
(* The inductive invariant.                                                *)
(***************************************************************************)
Extracts(q) == q.kind \in {"extract", "refresh"}
Binds(q) == q.pc \in {"find", "write"} /\ Extracts(q)

\* What a call has in hand at each of its steps.
Shape(q) ==
    /\ q.pc # "idle" => q.now <= clock
    /\ q.pc \in {"lookup", "fetch", "upsert"} => Extracts(q)
    /\ q.pc \in {"find", "write"} => Extracts(q) \/ q.kind = "create"
    /\ q.pc \in {"refetch", "stale", "touch"} => q.kind = "refresh"
    /\ q.pc \in {"refetch", "stale", "touch", "delete"} => q.id \in JobIds
    /\ q.pc = "upsert" => q.hash \in Hashes /\ q.read \in Nat
    /\ Binds(q) => q.hash \in Hashes
    /\ q.pc = "touch" => q.old # NoHash
    /\ q.pc = "lookup" => cache
    /\ q.id # NoId => q.id \in spent

\* An uncommitted snapshot belongs to the call that is about to commit it, and
\* what a call is about to bind is stored or its own.
Owns(w, q) ==
    /\ \A h \in Hashes : upserting[h] = w =>
          h \notin Stored /\ q.hash = h /\ Binds(q) /\ q.read \in Nat
    /\ Binds(q) => q.hash \in Stored \/ upserting[q.hash] = w

\* With the cache off, what a call read it read after it began.
ReadSince(q) == ~cache /\ (q.pc \in {"upsert", "touch"} \/ Binds(q)) => q.now <= q.read

\* A row of which a refresh knows a snapshot still has one.
KnownStaysBound(q) ==
    q.pc \in {"refetch", "touch"} /\ q.old # NoHash /\ job[q.user].id = q.id
        => job[q.user].bound # NoHash

Good(w, q) == Shape(q) /\ Owns(w, q) /\ ReadSince(q) /\ KnownStaysBound(q)
LocalsOK == \A w \in Workers : Good(w, call[w])

\* A row that was ever fetched has a snapshot.
FetchedIsBound == \A u \in Users : job[u] # NoJob =>
    job[u].id \in spent /\ (job[u].fetched # Never => job[u].bound # NoHash)

IInv ==
    /\ TypeOK /\ LocalsOK /\ FetchedIsBound
    /\ BoundSnapshotStored /\ FetchedIsRead /\ StaleMarkIsOwn
-----------------------------------------------------------------------------
Idle(result) == Blank(Anyone, "none", "idle", result)

LEMMA BlankIsCall ==
    ASSUME NEW u \in Users, NEW kind \in {"none", "extract", "refresh", "create", "delete"},
           NEW pc \in PCs, NEW result \in {"none", "changed"}
    PROVE  /\ Blank(u, kind, pc, result) \in Call
           /\ Blank(u, kind, pc, result).pc = pc
           /\ Blank(u, kind, pc, result).id = NoId
  BY DEF Blank, Call, Never

LEMMA AnyoneIsUser == Anyone \in Users
  BY UserAssumption DEF Anyone

\* A call that is over, and has no uncommitted snapshot, is as it should be.
LEMMA IdleIsGood ==
    ASSUME NEW w \in Workers, NEW q \in Call, q.pc = "idle", q.id = NoId,
           \A h \in Hashes : upserting[h] # w
    PROVE  Good(w, q)
  BY DEF Good, Shape, Owns, Binds, ReadSince, KnownStaysBound

\* Only the locals of one call change.
LEMMA CallStep ==
    ASSUME IInv, NEW w \in Workers, NEW q \in Call, Good(w, q), Moves(w, q),
           UNCHANGED <<world, snapshot, upserting, job, spent>>
    PROVE  IInv'
  <1>1. call' \in [Workers -> Call] /\ \A v \in Workers : call'[v] = IF v = w THEN q ELSE call[v]
    BY DEF IInv, TypeOK, Moves
  <1>2. TypeOK'
    BY <1>1 DEF IInv, TypeOK, world
  <1>3. ASSUME NEW v \in Workers, NEW r, Good(v, r)
        PROVE  Good(v, r)'
    BY <1>3 DEF Good, Shape, Owns, Binds, Extracts, ReadSince, KnownStaysBound, Stored, world
  <1>4. LocalsOK'
    BY <1>1, <1>3 DEF IInv, LocalsOK
  <1>5. FetchedIsBound' /\ BoundSnapshotStored' /\ FetchedIsRead' /\ StaleMarkIsOwn'
    BY DEF IInv, FetchedIsBound, BoundSnapshotStored, FetchedIsRead, StaleMarkIsOwn, Stored, world
  <1> QED BY <1>2, <1>4, <1>5 DEF IInv

LEMMA InitJob == Init => IInv
  <1> SUFFICES ASSUME Init PROVE IInv
    OBVIOUS
  <1>1. Idle("none") \in Call /\ Idle("none").pc = "idle" /\ Idle("none").id = NoId
    <2>1. "none" \in {"none", "extract", "refresh", "create", "delete"} /\ "idle" \in PCs
          /\ "none" \in {"none", "changed"}
      BY DEF PCs
    <2> QED BY <2>1, BlankIsCall, AnyoneIsUser DEF Idle
  <1>2. TypeOK
    BY <1>1, BoundAssumption, EngineAssumption DEF Init, TypeOK, Idle
  <1>3. LocalsOK
    <2> SUFFICES ASSUME NEW w \in Workers PROVE Good(w, call[w])
      BY DEF LocalsOK
    <2>1. call[w] = Idle("none") /\ \A h \in Hashes : upserting[h] # w
      BY SentinelAssumption DEF Init, Idle
    <2> QED BY <1>1, <2>1, IdleIsGood
  <1>4. FetchedIsBound /\ BoundSnapshotStored /\ FetchedIsRead /\ StaleMarkIsOwn
    BY DEF Init, FetchedIsBound, BoundSnapshotStored, FetchedIsRead, StaleMarkIsOwn
  <1> QED BY <1>2, <1>3, <1>4 DEF IInv
-----------------------------------------------------------------------------
LEMMA BeginSteps ==
    ASSUME IInv, NEW w \in Workers, NEW u \in Users,
           ExtractJob(w, u) \/ GetOrCreateJob(w, u) \/ RefreshJob(w, u) \/ DeleteJob(w, u)
    PROVE  IInv'
  <1>1. PICK kind \in {"extract", "create", "refresh", "delete"},
             pc \in {"lookup", "fetch", "find", "refetch", "delete"} :
          /\ Begin(w, u, kind, pc)
          /\ pc \in {"lookup", "fetch"} => kind = "extract"
          /\ pc = "lookup" => cache
          /\ pc = "find" => kind = "create"
          /\ pc = "refetch" <=> kind = "refresh"
          /\ pc = "delete" <=> kind = "delete"
          /\ kind \in {"refresh", "delete"} => job[u] # NoJob
    BY DEF ExtractJob, GetOrCreateJob, RefreshJob, DeleteJob
  <1> DEFINE q == [Blank(u, kind, pc, "none") EXCEPT !.now = clock,
                      !.id = IF kind \in {"refresh", "delete"} THEN job[u].id ELSE NoId,
                      !.old = IF kind = "refresh" THEN job[u].bound ELSE NoHash]
  <1>2. kind \in {"refresh", "delete"} =>
          job[u].id \in JobIds /\ job[u].bound \in Hashes \cup {NoHash} /\ job[u].id \in spent
    BY <1>1 DEF IInv, TypeOK, Job, FetchedIsBound
  <1>3. clock \in Nat /\ pc \in PCs
    BY DEF IInv, TypeOK, PCs
  <1>4. q \in Call
    BY <1>2, <1>3 DEF Blank, Call, Never
  <1>5. /\ q.pc = pc /\ q.kind = kind /\ q.now = clock /\ q.user = u
        /\ q.id = (IF kind \in {"refresh", "delete"} THEN job[u].id ELSE NoId)
        /\ q.old = (IF kind = "refresh" THEN job[u].bound ELSE NoHash)
    BY DEF Blank
  <1>6. Shape(q)
    BY <1>1, <1>2, <1>3, <1>5 DEF Shape, Extracts, Binds
  <1>7. call[w].pc = "idle" /\ Moves(w, q) /\ UNCHANGED <<world, snapshot, upserting, job, spent>>
    BY <1>1 DEF Begin, At
  <1>8. Owns(w, q)
    BY <1>1, <1>5, <1>7 DEF IInv, LocalsOK, Good, Owns, Binds, Extracts
  <1>9. ReadSince(q) /\ KnownStaysBound(q)
    BY <1>1, <1>5 DEF ReadSince, KnownStaysBound, Binds, Extracts
  <1> HIDE DEF q
  <1> QED BY <1>4, <1>6, <1>7, <1>8, <1>9, CallStep DEF Good
-----------------------------------------------------------------------------
LEMMA CallOK ==
    ASSUME IInv, NEW w \in Workers
    PROVE  /\ call[w] \in Call /\ Good(w, call[w]) /\ clock \in Nat
           /\ ~Binds(call[w]) => \A h \in Hashes : upserting[h] # w
  BY DEF IInv, TypeOK, LocalsOK, Good, Owns

LEMMA HashIsSome == NoHash \notin Hashes /\ \A e \in Engines : <<e, page>> # NoHash
  BY DEF NoHash, Hashes

LEMMA RefetchStep ==
    ASSUME IInv, NEW w \in Workers, Refetch(w)
    PROVE  IInv'
  <1> USE DEF At
  <1>1. call[w] \in Call /\ Good(w, call[w]) /\ clock \in Nat /\ call[w].pc = "refetch"
        /\ UNCHANGED <<world, snapshot, upserting, job, spent>>
    BY CallOK DEF Refetch
  <1>2. \A h \in Hashes : upserting[h] # w
    BY <1>1, CallOK DEF Binds
  <1>3. CASE Moves(w, [call[w] EXCEPT !.pc = "stale"])
    <2> DEFINE q == [call[w] EXCEPT !.pc = "stale"]
    <2>1. q \in Call
      BY <1>1 DEF Call, PCs
    <2>2. Good(w, q)
      BY <1>1, <1>2 DEF Good, Shape, Owns, Binds, Extracts, ReadSince, KnownStaysBound, Call
    <2> HIDE DEF q
    <2> QED BY <1>1, <1>3, <2>1, <2>2, CallStep DEF q
  <1>4. ASSUME NEW pc \in {"touch", "lookup", "fetch"}, pc = "touch" => call[w].old = <<"httpx", page>>,
               pc = "lookup" => cache,
               Moves(w, [call[w] EXCEPT !.read = clock, !.pc = pc])
        PROVE  IInv'
    <2> DEFINE q == [call[w] EXCEPT !.read = clock, !.pc = pc]
    <2>1. q \in Call
      BY <1>1 DEF Call, PCs
    <2>2. Shape(q) /\ Owns(w, q) /\ ReadSince(q)
      BY <1>1, <1>2, <1>4, HashIsSome, EngineAssumption
         DEF Good, Shape, Owns, Binds, Extracts, ReadSince, Call
    <2>3. KnownStaysBound(q)
      BY <1>1 DEF Good, KnownStaysBound, Call
    <2> HIDE DEF q
    <2> QED BY <1>1, <1>4, <2>1, <2>2, <2>3, CallStep DEF q, Good
  <1> QED BY <1>3, <1>4 DEF Refetch

LEMMA LookupStep ==
    ASSUME IInv, NEW w \in Workers, Lookup(w)
    PROVE  IInv'
  <1> USE DEF At
  <1>1. call[w] \in Call /\ Good(w, call[w]) /\ call[w].pc = "lookup"
        /\ UNCHANGED <<world, snapshot, upserting, job, spent>>
    BY CallOK DEF Lookup
  <1>2. \A h \in Hashes : upserting[h] # w
    BY <1>1, CallOK DEF Binds
  <1>3. CASE Moves(w, [call[w] EXCEPT !.pc = "fetch"])
    <2> DEFINE q == [call[w] EXCEPT !.pc = "fetch"]
    <2>1. q \in Call
      BY <1>1 DEF Call, PCs
    <2>2. Good(w, q)
      BY <1>1, <1>2 DEF Good, Shape, Owns, Binds, Extracts, ReadSince, KnownStaysBound, Call
    <2> HIDE DEF q
    <2> QED BY <1>1, <1>3, <2>1, <2>2, CallStep DEF q
  <1>4. ASSUME NEW h \in Newest,
               Moves(w, [call[w] EXCEPT !.pc = "find", !.hash = h, !.hit = TRUE, !.read = snapshot[h].read])
        PROVE  IInv'
    <2> DEFINE q == [call[w] EXCEPT !.pc = "find", !.hash = h, !.hit = TRUE, !.read = snapshot[h].read]
    <2>1. h \in Hashes /\ h \in Stored /\ snapshot[h].read \in Nat
      BY DEF Newest, Stored, IInv, TypeOK, Snapshot
    <2>2. q \in Call
      BY <1>1, <2>1 DEF Call, PCs
    <2>3. cache
      BY <1>1 DEF Good, Shape
    <2>4. Good(w, q)
      BY <1>1, <1>2, <2>1, <2>3
         DEF Good, Shape, Owns, Binds, Extracts, ReadSince, KnownStaysBound, Call
    <2> HIDE DEF q
    <2> QED BY <1>1, <1>4, <2>2, <2>4, CallStep DEF q
  <1> QED BY <1>3, <1>4 DEF Lookup

LEMMA FetchStep ==
    ASSUME IInv, NEW w \in Workers, Fetch(w)
    PROVE  IInv'
  <1> DEFINE q == [call[w] EXCEPT !.pc = "upsert", !.hash = <<engine, page>>, !.read = clock]
  <1>1. call[w] \in Call /\ Good(w, call[w]) /\ clock \in Nat /\ call[w].pc = "fetch" /\ Moves(w, q)
        /\ UNCHANGED <<world, snapshot, upserting, job, spent>>
    BY CallOK DEF Fetch, At
  <1>2. \A h \in Hashes : upserting[h] # w
    BY <1>1, CallOK DEF Binds
  <1>3. <<engine, page>> \in Hashes
    BY DEF IInv, TypeOK, Hashes
  <1>4. q \in Call
    BY <1>1, <1>3 DEF Call, PCs
  <1>5. Good(w, q)
    BY <1>1, <1>2, <1>3 DEF Good, Shape, Owns, Binds, Extracts, ReadSince, KnownStaysBound, Call
  <1> HIDE DEF q
  <1> QED BY <1>1, <1>4, <1>5, CallStep

LEMMA FindStep ==
    ASSUME IInv, NEW w \in Workers, Find(w)
    PROVE  IInv'
  <1> DEFINE q == [call[w] EXCEPT !.pc = "write", !.id = Row(w).id,
                      !.hit = @ /\ Row(w) # NoJob /\ Row(w).bound = call[w].hash]
  <1>1. call[w] \in Call /\ Good(w, call[w]) /\ call[w].pc = "find" /\ Moves(w, q)
        /\ UNCHANGED <<world, snapshot, upserting, job, spent>>
    BY CallOK DEF Find, At
  <1>2. Row(w).id \in JobIds \cup {NoId} /\ (Row(w).id # NoId => Row(w).id \in spent)
    BY <1>1 DEF Row, IInv, TypeOK, Job, NoJob, FetchedIsBound, Call
  <1>3. q \in Call
    BY <1>1, <1>2 DEF Call, PCs
  <1>4. Good(w, q)
    BY <1>1, <1>2 DEF Good, Shape, Owns, Binds, Extracts, ReadSince, KnownStaysBound, Call
  <1> HIDE DEF q
  <1> QED BY <1>1, <1>3, <1>4, CallStep
-----------------------------------------------------------------------------
\* A peer inserts a snapshot, and goes on to find the job.
LEMMA UpsertStep ==
    ASSUME IInv, NEW w \in Workers, Upsert(w)
    PROVE  IInv'
  <1> DEFINE q == [call[w] EXCEPT !.pc = "find"]
             k == call[w].hash
  <1>1. call[w] \in Call /\ Good(w, call[w]) /\ call[w].pc = "upsert" /\ Moves(w, q)
        /\ UNCHANGED <<world, snapshot, job, spent>> /\ upserting[k] = NoWorker
        /\ upserting' = IF k \in Stored THEN upserting ELSE [upserting EXCEPT ![k] = w]
    BY CallOK DEF Upsert, At
  <1>2. k \in Hashes /\ call[w].read \in Nat /\ Extracts(call[w])
    BY <1>1 DEF Good, Shape
  <1>3. q \in Call
    BY <1>1 DEF Call, PCs
  <1>4. call' \in [Workers -> Call] /\ \A v \in Workers : call'[v] = IF v = w THEN q ELSE call[v]
    BY <1>1, <1>3 DEF IInv, TypeOK, Moves
  <1>5. /\ upserting' \in [Hashes -> Workers \cup {NoWorker}]
        /\ \A h \in Hashes : upserting'[h] = IF h = k /\ k \notin Stored THEN w ELSE upserting[h]
    BY <1>1, <1>2 DEF IInv, TypeOK
  <1>6. TypeOK'
    BY <1>1, <1>4, <1>5 DEF IInv, TypeOK, world
  <1>7. Stored' = Stored
    BY <1>1 DEF Stored
  <1>8. Good(w, call[w])'
    <2>1. call'[w] = q /\ \A h \in Hashes : upserting[h] # w
      BY <1>1, <1>4, CallOK DEF Binds
    <2>2. /\ q.pc = "find" /\ q.hash = k /\ q.read = call[w].read /\ q.kind = call[w].kind
          /\ q.id = call[w].id /\ q.now = call[w].now
      BY <1>1 DEF Call
    <2> HIDE DEF q
    <2>3. Owns(w, call[w])'
      BY <1>1, <1>2, <1>5, <1>7, <2>1, <2>2 DEF Owns, Binds, Extracts
    <2>4. Shape(call[w])' /\ ReadSince(call[w])' /\ KnownStaysBound(call[w])'
      BY <1>1, <1>2, <2>1, <2>2 DEF Good, Shape, ReadSince, KnownStaysBound, Binds, Extracts, world
    <2> QED BY <2>3, <2>4 DEF Good
  <1>9. ASSUME NEW v \in Workers, v # w PROVE Good(v, call[v])'
    <2>1. Good(v, call[v]) /\ call'[v] = call[v] /\ v # NoWorker
      BY <1>4, <1>9, SentinelAssumption, CallOK
    <2>2. Owns(v, call[v])'
      BY <1>1, <1>5, <1>7, <1>9, <2>1 DEF Good, Shape, Owns, Binds, Extracts
    <2>3. Shape(call[v])' /\ ReadSince(call[v])' /\ KnownStaysBound(call[v])'
      BY <1>1, <2>1 DEF Good, Shape, ReadSince, KnownStaysBound, Binds, Extracts, world
    <2> QED BY <2>2, <2>3 DEF Good
  <1>10. LocalsOK'
    BY <1>4, <1>8, <1>9 DEF LocalsOK
  <1>11. FetchedIsBound' /\ BoundSnapshotStored' /\ FetchedIsRead' /\ StaleMarkIsOwn'
    BY <1>1, <1>7 DEF IInv, FetchedIsBound, BoundSnapshotStored, FetchedIsRead, StaleMarkIsOwn, world
  <1> QED BY <1>6, <1>10, <1>11 DEF IInv

\* How a call's uncommitted snapshots become rows, if it has any.
Commits(w) ==
    /\ snapshot' = [h \in Hashes |-> IF upserting[h] = w
                                     THEN [captured |-> call[w].now, read |-> call[w].read]
                                     ELSE snapshot[h]]
    /\ upserting' = [h \in Hashes |-> IF upserting[h] = w THEN NoWorker ELSE upserting[h]]

\* What the row r of a user has to satisfy after a call that had none, or the row o.
Follows(o, r) ==
    r # NoJob =>
        /\ r.id \in spent' /\ (r.id \notin spent \/ (o # NoJob /\ r.id = o.id))
        /\ o # NoJob /\ o.bound # NoHash => r.bound # NoHash
        /\ r.fetched # Never => r.bound # NoHash
        /\ r.bound # NoHash => r.bound \in Stored'
        /\ ~cache => r.fetched <= r.read
        /\ r.freshness = "stale" => r.failed = r.id

LEMMA CommitStores ==
    ASSUME IInv, NEW w \in Workers, Commits(w)
    PROVE  /\ snapshot' \in [Hashes -> Snapshot \cup {NoSnapshot}]
           /\ upserting' \in [Hashes -> Workers \cup {NoWorker}]
           /\ Stored' = Stored \cup {h \in Hashes : upserting[h] = w}
           /\ \A h \in Hashes : upserting'[h] = IF upserting[h] = w THEN NoWorker ELSE upserting[h]
           /\ \A h \in Hashes : upserting'[h] # w
  <1>1. call[w] \in Call /\ \A h \in Hashes : upserting[h] = w => call[w].read \in Nat
    BY CallOK DEF Good, Owns
  <1>2. ASSUME NEW h \in Hashes, upserting[h] = w
        PROVE  /\ snapshot'[h] \in Snapshot /\ snapshot'[h] # NoSnapshot
    BY <1>1, <1>2 DEF Commits, Snapshot, NoSnapshot, Call, Never
  <1>3. \A h \in Hashes : upserting[h] # w => snapshot'[h] = snapshot[h]
    BY DEF Commits
  <1>4. snapshot' \in [Hashes -> Snapshot \cup {NoSnapshot}]
    <2>1. \A h \in Hashes : snapshot'[h] \in Snapshot \cup {NoSnapshot}
      BY <1>2, <1>3 DEF IInv, TypeOK
    <2> QED BY <2>1 DEF Commits
  <1>5. Stored' = Stored \cup {h \in Hashes : upserting[h] = w}
    BY <1>2, <1>3 DEF Stored
  <1> QED BY <1>4, <1>5, SentinelAssumption DEF Commits, IInv, TypeOK

\* A call ends: it commits, and leaves its user the row r.
LEMMA RowStep ==
    ASSUME IInv, NEW w \in Workers, NEW r \in Job \cup {NoJob}, NEW q \in Call,
           job' = [job EXCEPT ![call[w].user] = r], Follows(Row(w), r),
           spent \subseteq spent', spent' \subseteq JobIds,
           Commits(w), Moves(w, q), q.pc = "idle", q.id = NoId, UNCHANGED world
    PROVE  IInv'
  <1>1. /\ call' \in [Workers -> Call] /\ call[w].user \in Users
        /\ \A v \in Workers : call'[v] = IF v = w THEN q ELSE call[v]
    BY CallOK DEF IInv, TypeOK, Moves, Call
  <1>2. /\ job' \in [Users -> Job \cup {NoJob}]
        /\ \A u \in Users : job'[u] = IF u = call[w].user THEN r ELSE job[u]
    BY <1>1 DEF IInv, TypeOK
  <1>3. TypeOK'
    BY <1>1, <1>2, CommitStores DEF IInv, TypeOK, world
  <1>4. Good(w, call[w])'
    BY <1>1, CommitStores DEF Good, Shape, Owns, Binds, ReadSince, KnownStaysBound
  <1>5. ASSUME NEW v \in Workers, v # w PROVE Good(v, call[v])'
    <2>1. Good(v, call[v]) /\ call'[v] = call[v] /\ v # NoWorker /\ call[v] \in Call
      BY <1>1, <1>5, SentinelAssumption, CallOK
    <2>2. Shape(call[v])' /\ ReadSince(call[v])'
      BY <2>1 DEF Good, Shape, ReadSince, Binds, Extracts, world
    <2>3. Owns(v, call[v])'
      BY <1>5, <2>1, CommitStores DEF Good, Shape, Owns, Binds, Extracts
    <2>4. KnownStaysBound(call[v])'
      <3> SUFFICES ASSUME call[v].pc \in {"refetch", "touch"}, call[v].old # NoHash,
                          job'[call[v].user].id = call[v].id
                   PROVE  job'[call[v].user].bound # NoHash
        BY <2>1 DEF KnownStaysBound
      <3>1. call[v].id \in spent /\ call[v].id \in JobIds /\ call[v].id # NoId /\ call[v].user \in Users
        BY <2>1, SentinelAssumption DEF Good, Shape, Call
      <3>2. CASE call[v].user # call[w].user
        BY <1>2, <2>1, <3>1, <3>2 DEF Good, KnownStaysBound
      <3>3. CASE call[v].user = call[w].user
        <4>1. job'[call[v].user] = r /\ r # NoJob
          BY <1>2, <3>1, <3>3 DEF NoJob
        <4>2. Row(w) # NoJob /\ r.id = Row(w).id /\ Row(w) = job[call[v].user]
          BY <3>1, <3>3, <4>1 DEF Follows, Row
        <4>3. Row(w).bound # NoHash
          BY <2>1, <4>1, <4>2 DEF Good, KnownStaysBound
        <4> QED BY <4>1, <4>2, <4>3 DEF Follows
      <3> QED BY <3>2, <3>3
    <2> QED BY <2>2, <2>3, <2>4 DEF Good
  <1>6. LocalsOK'
    BY <1>4, <1>5 DEF LocalsOK
  <1>7. ASSUME NEW u \in Users, job'[u] # NoJob
        PROVE  /\ job'[u].id \in spent' /\ (job'[u].fetched # Never => job'[u].bound # NoHash)
               /\ job'[u].bound # NoHash => job'[u].bound \in Stored'
               /\ ~cache => job'[u].fetched <= job'[u].read
               /\ job'[u].freshness = "stale" => job'[u].failed = job'[u].id
    <2>1. CASE u = call[w].user
      BY <1>2, <1>7, <2>1 DEF Follows
    <2>2. CASE u # call[w].user
      BY <1>2, <1>7, <2>2, CommitStores
         DEF IInv, FetchedIsBound, BoundSnapshotStored, FetchedIsRead, StaleMarkIsOwn
    <2> QED BY <2>1, <2>2
  <1>8. FetchedIsBound' /\ BoundSnapshotStored' /\ FetchedIsRead' /\ StaleMarkIsOwn'
    BY <1>7 DEF FetchedIsBound, BoundSnapshotStored, FetchedIsRead, StaleMarkIsOwn, world
  <1> QED BY <1>3, <1>6, <1>8 DEF IInv
-----------------------------------------------------------------------------
\* The calls that end here leave no uncommitted snapshot.
LEMMA NothingToCommit ==
    ASSUME IInv, NEW w \in Workers, ~Binds(call[w]), UNCHANGED <<snapshot, upserting>>
    PROVE  Commits(w)
  BY CallOK DEF Commits, IInv, TypeOK

LEMMA RowOK ==
    ASSUME IInv, NEW w \in Workers, Stored \subseteq Stored', spent' = spent
    PROVE  Row(w) \in Job \cup {NoJob} /\ Follows(Row(w), Row(w))
  <1>1. call[w].user \in Users
    BY CallOK DEF Call
  <1> QED
    BY <1>1 DEF Row, Follows, IInv, TypeOK, FetchedIsBound, BoundSnapshotStored, FetchedIsRead, StaleMarkIsOwn

LEMMA ReturnsIdle ==
    ASSUME NEW w, Returns(w)
    PROVE  /\ Moves(w, Idle("none"))
           /\ Idle("none") \in Call /\ Idle("none").pc = "idle" /\ Idle("none").id = NoId
  <1>1. "none" \in {"none", "extract", "refresh", "create", "delete"} /\ "idle" \in PCs
        /\ "none" \in {"none", "changed"}
    BY DEF PCs
  <1> QED BY <1>1, BlankIsCall, AnyoneIsUser DEF Idle, Returns

LEMMA RefreshEndSteps ==
    ASSUME IInv, NEW w \in Workers, MarkStale(w) \/ Touch(w) \/ Delete(w)
    PROVE  IInv'
  <1>1. /\ call[w] \in Call /\ Good(w, call[w]) /\ ~Binds(call[w])
        /\ call[w].pc \in {"stale", "touch", "delete"} /\ call[w].id \in JobIds
        /\ Returns(w) /\ UNCHANGED <<world, snapshot, upserting, spent>>
    BY CallOK DEF MarkStale, Touch, Delete, At, Binds, Good, Shape
  <1>2. Commits(w) /\ spent \subseteq spent' /\ spent' \subseteq JobIds /\ Stored' = Stored
    BY <1>1, NothingToCommit DEF IInv, TypeOK, Stored
  <1>3. Row(w) \in Job \cup {NoJob} /\ Follows(Row(w), Row(w))
    BY <1>1, <1>2, RowOK
  <1>4. ASSUME NEW r \in Job \cup {NoJob}, job' = [job EXCEPT ![call[w].user] = r], Follows(Row(w), r)
        PROVE  IInv'
    BY <1>1, <1>2, <1>4, ReturnsIdle, RowStep
  <1>5. Row(w).id = call[w].id => Row(w) \in Job /\ Row(w) # NoJob
    BY <1>1, <1>3, SentinelAssumption DEF NoJob
  <1>6. call[w].user \in Users /\ job \in [Users -> Job \cup {NoJob}] /\ job[call[w].user] = Row(w)
    BY <1>1 DEF Call, IInv, TypeOK, Row
  <1>7. CASE Row(w).id # call[w].id
    <2>1. job' = [job EXCEPT ![call[w].user] = Row(w)]
      BY <1>6, <1>7 DEF MarkStale, Touch, Delete
    <2> QED BY <1>3, <1>4, <2>1
  <1>8. CASE Row(w).id = call[w].id /\ MarkStale(w)
    <2> DEFINE r == [Row(w) EXCEPT !.freshness = "stale", !.failed = call[w].id]
    <2>1. r \in Job /\ Follows(Row(w), r)
      BY <1>1, <1>3, <1>5, <1>8 DEF Job, Follows
    <2>2. job' = [job EXCEPT ![call[w].user] = r]
      BY <1>6, <1>8 DEF MarkStale
    <2> HIDE DEF r
    <2> QED BY <1>4, <2>1, <2>2
  <1>9. CASE Row(w).id = call[w].id /\ Touch(w)
    <2> DEFINE r == [Row(w) EXCEPT !.fetched = call[w].now, !.read = call[w].read]
    <2>1. call[w].pc = "touch" /\ call[w].old # NoHash /\ call[w].now \in Nat
      BY <1>1, <1>9 DEF Touch, At, Good, Shape, Call
    <2>2. Row(w).bound # NoHash
      BY <1>1, <1>6, <1>9, <2>1 DEF Good, KnownStaysBound
    <2>3. ~cache => call[w].now <= call[w].read
      BY <1>1, <2>1 DEF Good, ReadSince
    <2>4. r \in Job /\ Follows(Row(w), r)
      BY <1>1, <1>3, <1>5, <1>9, <2>1, <2>2, <2>3 DEF Job, Follows, Call
    <2>5. job' = [job EXCEPT ![call[w].user] = r]
      BY <1>6, <1>9 DEF Touch
    <2> HIDE DEF r
    <2> QED BY <1>4, <2>4, <2>5
  <1>10. CASE Row(w).id = call[w].id /\ Delete(w)
    <2>1. job' = [job EXCEPT ![call[w].user] = NoJob]
      BY <1>6, <1>10 DEF Delete
    <2> QED BY <1>4, <2>1 DEF Follows
  <1> QED BY <1>7, <1>8, <1>9, <1>10

\* The row of a call that is about to write it.
LEMMA BoundOK ==
    ASSUME IInv, NEW w \in Workers, Commits(w), Binds(call[w]), NEW r \in Job,
           r.id \in spent', r.id \notin spent \/ (Row(w) # NoJob /\ r.id = Row(w).id)
    PROVE  Bound(w, r) \in Job /\ Follows(Row(w), Bound(w, r))
  <1>1. /\ call[w] \in Call /\ call[w].hash \in Hashes /\ call[w].now \in Nat
        /\ call[w].hash \in Stored \/ upserting[call[w].hash] = w
        /\ ~cache => call[w].now <= call[w].read
    BY CallOK DEF Good, Shape, Owns, ReadSince, Call
  <1>2. call[w].hash \in Stored' /\ call[w].hash # NoHash
    BY <1>1, CommitStores, HashIsSome
  <1>3. Bound(w, r) \in Job
    BY <1>1 DEF Bound, Job, Call
  <1>4. /\ Bound(w, r).id = r.id /\ Bound(w, r).bound = call[w].hash
        /\ Bound(w, r).fetched = call[w].now /\ Bound(w, r).read = call[w].read
        /\ Bound(w, r).freshness = "fresh"
    BY DEF Bound, Job
  <1> QED BY <1>1, <1>2, <1>3, <1>4 DEF Follows

LEMMA WriteStep ==
    ASSUME IInv, NEW w \in Workers, Write(w)
    PROVE  IInv'
  <1>1. /\ call[w] \in Call /\ Good(w, call[w]) /\ call[w].pc = "write"
        /\ Commits(w) /\ UNCHANGED world /\ call[w].user \in Users
    BY CallOK DEF Write, At, Commits, Call
  <1>2. Stored \subseteq Stored'
    BY <1>1, CommitStores
  <1>3. PICK q \in Call : Moves(w, q) /\ q.pc = "idle" /\ q.id = NoId
    <2>1. CASE Returns(w)
      BY <2>1, ReturnsIdle
    <2>2. CASE Moves(w, [Blank(Anyone, "none", "idle", "changed")
                            EXCEPT !.old = call[w].old, !.hash = call[w].hash])
      <3> DEFINE q == [Blank(Anyone, "none", "idle", "changed")
                          EXCEPT !.old = call[w].old, !.hash = call[w].hash]
      <3>1. q \in Call /\ q.pc = "idle" /\ q.id = NoId
        BY <1>1, AnyoneIsUser DEF Blank, Call, PCs, Never
      <3> HIDE DEF q
      <3> QED BY <2>2, <3>1 DEF q
    <2> QED BY <2>1, <2>2 DEF Write
  <1>4. ASSUME NEW r \in Job \cup {NoJob}, job' = [job EXCEPT ![call[w].user] = r], Follows(Row(w), r),
               spent \subseteq spent', spent' \subseteq JobIds
        PROVE  IInv'
    BY <1>1, <1>3, <1>4, RowStep
  <1>5. job \in [Users -> Job \cup {NoJob}] /\ Row(w) = job[call[w].user] /\ spent \subseteq JobIds
        /\ (call[w].kind # "create" => Binds(call[w]))
    BY <1>1 DEF IInv, TypeOK, Row, Good, Shape, Binds
  <1>6. CASE Insert(w)
    <2>1. PICK i \in JobIds \ spent :
            /\ job' = [job EXCEPT ![call[w].user] =
                          IF call[w].kind = "create" THEN Unbound(i) ELSE Bound(w, Unbound(i))]
            /\ spent' = spent \cup {i}
      BY <1>6 DEF Insert
    <2>2. Unbound(i) \in Job /\ Unbound(i).id = i /\ Row(w) = NoJob
      BY <1>6 DEF Unbound, Job, Never, Insert
    <2>3. Unbound(i).id \in spent' /\ Unbound(i).id \notin spent
      BY <2>1, <2>2
    <2>6. Follows(Row(w), Unbound(i))
      <3>1. /\ Unbound(i).bound = NoHash /\ Unbound(i).fetched = Never
            /\ Unbound(i).fetched <= Unbound(i).read /\ Unbound(i).freshness # "stale"
        BY DEF Unbound, Never
      <3> QED BY <2>2, <2>3, <3>1 DEF Follows
    <2>4. CASE call[w].kind = "create"
      BY <1>4, <1>5, <2>1, <2>2, <2>6, <2>4
    <2>5. CASE call[w].kind # "create"
      <3>1. Bound(w, Unbound(i)) \in Job /\ Follows(Row(w), Bound(w, Unbound(i)))
        BY <1>1, <1>5, <2>2, <2>3, <2>5, BoundOK
      <3> QED BY <1>4, <1>5, <2>1, <2>5, <3>1
    <2> QED BY <2>4, <2>5
  <1>7. CASE Update(w)
    <2>1. spent' = spent /\ Row(w) \in Job \cup {NoJob} /\ Follows(Row(w), Row(w))
      BY <1>2, <1>7, RowOK DEF Update
    <2>2. CASE job' = [job EXCEPT ![call[w].user] = Row(w)]
      BY <1>4, <1>5, <2>1, <2>2
    <2>3. CASE call[w].kind # "create" /\ Row(w).id = call[w].id
               /\ job' = [job EXCEPT ![call[w].user] = Bound(w, Row(w))]
      <3>1. Row(w) \in Job /\ Row(w).id \in spent /\ Row(w) # NoJob
        BY <1>1, <1>7, <2>1, <2>3 DEF NoJob, Update, Follows
      <3>2. Bound(w, Row(w)) \in Job /\ Follows(Row(w), Bound(w, Row(w)))
        BY <1>1, <1>5, <2>1, <2>3, <3>1, BoundOK
      <3> QED BY <1>4, <1>5, <2>1, <2>3, <3>2
    <2> QED BY <1>5, <1>7, <2>2, <2>3 DEF Update
  <1> QED BY <1>6, <1>7 DEF Write
-----------------------------------------------------------------------------
\* A rollback drops what the call had not committed.
LEMMA AbortStep ==
    ASSUME IInv, NEW w \in Workers, Abort(w)
    PROVE  IInv'
  <1>1. /\ UNCHANGED <<world, snapshot, job, spent>>
        /\ upserting' = [h \in Hashes |-> IF upserting[h] = w THEN NoWorker ELSE upserting[h]]
        /\ Moves(w, Idle("none"))
        /\ Idle("none") \in Call /\ Idle("none").pc = "idle" /\ Idle("none").id = NoId
    BY ReturnsIdle DEF Abort
  <1>2. call' \in [Workers -> Call] /\ \A v \in Workers : call'[v] = IF v = w THEN Idle("none") ELSE call[v]
    BY <1>1 DEF IInv, TypeOK, Moves
  <1>3. /\ upserting' \in [Hashes -> Workers \cup {NoWorker}]
        /\ \A h \in Hashes : upserting'[h] = IF upserting[h] = w THEN NoWorker ELSE upserting[h]
    BY <1>1 DEF IInv, TypeOK
  <1>4. TypeOK' /\ Stored' = Stored
    BY <1>1, <1>2, <1>3 DEF IInv, TypeOK, Stored, world
  <1>5. Good(w, call[w])'
    BY <1>1, <1>2, <1>3, SentinelAssumption DEF Good, Shape, Owns, Binds, ReadSince, KnownStaysBound
  <1>6. ASSUME NEW v \in Workers, v # w PROVE Good(v, call[v])'
    <2>1. Good(v, call[v]) /\ call'[v] = call[v] /\ v # NoWorker
      BY <1>2, <1>6, SentinelAssumption, CallOK
    <2>2. Owns(v, call[v])'
      BY <1>3, <1>4, <1>6, <2>1 DEF Good, Shape, Owns, Binds, Extracts
    <2>3. Shape(call[v])' /\ ReadSince(call[v])' /\ KnownStaysBound(call[v])'
      BY <1>1, <2>1 DEF Good, Shape, ReadSince, KnownStaysBound, Binds, Extracts, world
    <2> QED BY <2>2, <2>3 DEF Good
  <1>7. FetchedIsBound' /\ BoundSnapshotStored' /\ FetchedIsRead' /\ StaleMarkIsOwn'
    BY <1>1, <1>4 DEF IInv, FetchedIsBound, BoundSnapshotStored, FetchedIsRead, StaleMarkIsOwn, world
  <1> QED BY <1>4, <1>5, <1>6, <1>7 DEF IInv, LocalsOK

\* Time passes and the page changes, or nothing does.
LEMMA WorldStep ==
    ASSUME IInv, Tick \/ PageChanges \/ UNCHANGED vars
    PROVE  IInv'
  <1>1. /\ UNCHANGED <<cache, engine, snapshot, upserting, job, spent, call>>
        /\ clock' \in Nat /\ clock <= clock' /\ page' \in 0..MaxVersion
    BY BoundAssumption DEF Tick, PageChanges, vars, IInv, TypeOK
  <1>2. TypeOK' /\ Stored' = Stored
    BY <1>1 DEF IInv, TypeOK, Stored
  <1>3. ASSUME NEW w \in Workers PROVE Good(w, call[w])'
    <2>1. Good(w, call[w]) /\ call[w].now \in Nat /\ clock \in Nat
      BY CallOK DEF Call
    <2>2. Shape(call[w])'
      BY <1>1, <2>1 DEF Good, Shape, Binds, Extracts
    <2>3. Owns(w, call[w])' /\ ReadSince(call[w])' /\ KnownStaysBound(call[w])'
      BY <1>1, <1>2, <2>1 DEF Good, Owns, ReadSince, KnownStaysBound, Binds, Extracts
    <2> QED BY <2>2, <2>3 DEF Good
  <1>4. FetchedIsBound' /\ BoundSnapshotStored' /\ FetchedIsRead' /\ StaleMarkIsOwn'
    BY <1>1, <1>2 DEF IInv, FetchedIsBound, BoundSnapshotStored, FetchedIsRead, StaleMarkIsOwn
  <1> QED BY <1>2, <1>3, <1>4 DEF IInv, LocalsOK

LEMMA NextJob ==
    ASSUME IInv, [Next]_vars
    PROVE  IInv'
  <1>1. ASSUME NEW w \in Workers, NEW u \in Users,
               ExtractJob(w, u) \/ GetOrCreateJob(w, u) \/ RefreshJob(w, u) \/ DeleteJob(w, u)
        PROVE  IInv'
    BY <1>1, BeginSteps
  <1>2. ASSUME NEW w \in Workers, Refetch(w) \/ Lookup(w) \/ Fetch(w) \/ Upsert(w) \/ Find(w)
        PROVE  IInv'
    BY <1>2, RefetchStep, LookupStep, FetchStep, UpsertStep, FindStep
  <1>3. ASSUME NEW w \in Workers, MarkStale(w) \/ Touch(w) \/ Write(w) \/ Delete(w) \/ Abort(w)
        PROVE  IInv'
    BY <1>3, RefreshEndSteps, WriteStep, AbortStep
  <1>4. CASE Tick \/ PageChanges \/ UNCHANGED vars
    BY <1>4, WorldStep
  <1> QED BY <1>1, <1>2, <1>3, <1>4 DEF Next

LEMMA Invariance == Spec => []IInv
  <1>1. IInv /\ [Next]_vars => IInv'
    BY NextJob
  <1> QED BY <1>1, InitJob, PTL DEF Spec

-----------------------------------------------------------------------------
(***************************************************************************)
(* Type correctness of the tables and of every call.                       *)
(***************************************************************************)
THEOREM JobTypes == Spec => []TypeOK
  <1>1. IInv => TypeOK
    BY DEF IInv
  <1> QED BY <1>1, Invariance, PTL

(***************************************************************************)
(* The snapshot of a job is committed (upsert_snapshot, apply_snapshot).   *)
(***************************************************************************)
THEOREM BoundSnapshotsExist == Spec => []BoundSnapshotStored
  <1>1. IInv => BoundSnapshotStored
    BY DEF IInv
  <1> QED BY <1>1, Invariance, PTL

(***************************************************************************)
(* The gate of freshness_for_package lets no unextracted job through.      *)
(***************************************************************************)
THEOREM GateNeedsExtraction == Spec => []UnblockedIsExtracted
  <1>1. IInv => UnblockedIsExtracted
    BY DEF IInv, FetchedIsBound, UnblockedIsExtracted, Unblocked
  <1> QED BY <1>1, Invariance, PTL

(***************************************************************************)
(* Without the cache last_fetched_at is no later than the fetch.           *)
(***************************************************************************)
THEOREM FetchTimesAreReal == Spec => []FetchedIsRead
  <1>1. IInv => FetchedIsRead
    BY DEF IInv
  <1> QED BY <1>1, Invariance, PTL

(***************************************************************************)
(* A stale row was made stale by a refresh of its own (mark_freshness).    *)
(***************************************************************************)
THEOREM StaleMarksAreOwn == Spec => []StaleMarkIsOwn
  <1>1. IInv => StaleMarkIsOwn
    BY DEF IInv
  <1> QED BY <1>1, Invariance, PTL

\* The step that JobKeepsItsRow asks for.
KeepsRow == [\A u \in Users : job[u] # NoJob /\ job'[u] # NoJob => job'[u].id = job[u].id]_job

(***************************************************************************)
(* No step gives a user's job another id (UNIQUE (user_id, url)).          *)
(***************************************************************************)
THEOREM JobsKeepTheirRows == Spec => JobKeepsItsRow
  <1>1. ASSUME IInv, [Next]_vars
        PROVE  KeepsRow
    <2>1. ASSUME NEW w \in Workers, NEW r, job' = [job EXCEPT ![call[w].user] = r],
                 r # NoJob /\ Row(w) # NoJob => r.id = Row(w).id
          PROVE  KeepsRow
      <3>1. call[w].user \in Users /\ job \in [Users -> Job \cup {NoJob}]
        BY <1>1, CallOK DEF Call, IInv, TypeOK
      <3> QED BY <2>1, <3>1 DEF KeepsRow, Row
    <2>2. ASSUME NEW w \in Workers, MarkStale(w) \/ Touch(w) \/ Update(w) \/ Delete(w)
          PROVE  KeepsRow
      <3>1. call[w].user \in Users /\ job \in [Users -> Job \cup {NoJob}] /\ Row(w) = job[call[w].user]
        BY <1>1, CallOK DEF Call, IInv, TypeOK, Row
      <3>2. Row(w) \in Job \cup {NoJob}
        BY <3>1
      <3>3. PICK r : /\ job' = [job EXCEPT ![call[w].user] = r]
                     /\ \/ r = NoJob \/ r = Row(w)
                        \/ r = [Row(w) EXCEPT !.freshness = "stale", !.failed = call[w].id]
                        \/ r = [Row(w) EXCEPT !.fetched = call[w].now, !.read = call[w].read]
                        \/ r = Bound(w, Row(w))
        BY <2>2, <3>1 DEF MarkStale, Touch, Update, Delete
      <3>4. r # NoJob /\ Row(w) # NoJob => r.id = Row(w).id
        BY <3>2, <3>3 DEF Bound, Job
      <3> QED BY <2>1, <3>3, <3>4
    <2>3. ASSUME NEW w \in Workers, Insert(w)
          PROVE  KeepsRow
      <3>1. Row(w) = NoJob
        BY <2>3 DEF Insert
      <3> QED BY <2>1, <2>3, <3>1 DEF Insert
    <2>4. CASE job' = job
      BY <2>4 DEF KeepsRow
    <2> QED
      BY <1>1, <2>2, <2>3, <2>4
         DEF Next, vars, ExtractJob, GetOrCreateJob, RefreshJob, DeleteJob, Begin, Refetch, Lookup,
             Fetch, Upsert, Find, Write, Abort, Tick, PageChanges
  <1> QED BY <1>1, Invariance, PTL DEF Spec, JobKeepsItsRow, KeepsRow

(***************************************************************************)
(* The table job_snapshots implements the store of immutable snapshots: of *)
(* racing inserts of one content a single one is committed, and nothing    *)
(* changes it afterwards (INSERT ... ON CONFLICT DO NOTHING).              *)
(***************************************************************************)
THEOREM SnapshotsAreImmutable == Spec => ImplementsStore
  <1>1. Init => Store!Init
    BY DEF Init, Store!Init
  <1>2. ASSUME IInv, [Next]_vars
        PROVE  [Store!Next]_snapshot
    <2>1. ASSUME NEW w \in Workers, Write(w)
          PROVE  [Store!Next]_snapshot
      <3> DEFINE k == call[w].hash
      <3>1. Good(w, call[w]) /\ snapshot \in [Hashes -> Snapshot \cup {NoSnapshot}]
        BY <1>2, CallOK DEF IInv, TypeOK
      <3>2. snapshot' = [h \in Hashes |-> IF upserting[h] = w
                                          THEN [captured |-> call[w].now, read |-> call[w].read]
                                          ELSE snapshot[h]]
        BY <2>1 DEF Write
      <3>3. \A h \in Hashes : upserting[h] = w => h = k /\ snapshot[k] = NoSnapshot
        BY <3>1 DEF Good, Owns, Stored
      <3>4. CASE \E h \in Hashes : upserting[h] = w
        <4>1. k \in Hashes /\ upserting[k] = w /\ snapshot[k] = NoSnapshot
          BY <3>3, <3>4
        <4>2. snapshot' = [snapshot EXCEPT ![k] = snapshot'[k]]
          BY <3>1, <3>2, <3>3, <4>1
        <4> QED BY <4>1, <4>2 DEF Store!Next, Store!Store
      <3>5. CASE \A h \in Hashes : upserting[h] # w
        BY <3>1, <3>2, <3>5
      <3> QED BY <3>4, <3>5
    <2> QED
      BY <1>2, <2>1
         DEF Next, vars, ExtractJob, GetOrCreateJob, RefreshJob, DeleteJob, Begin, Refetch, MarkStale,
             Touch, Lookup, Fetch, Upsert, Find, Delete, Abort, Tick, PageChanges
  <1> QED BY <1>1, <1>2, Invariance, PTL DEF Spec, ImplementsStore, Store!Spec

-----------------------------------------------------------------------------
(***************************************************************************)
(* Two claims of the documents that TLC refutes hold where the cache by    *)
(* url is off.                                                             *)
(***************************************************************************)
(***************************************************************************)
(* What the gate lets through was fetched within its budget: refresh_job   *)
(* and extract_job without the cache set last_fetched_at to the beginning  *)
(* of the transaction that fetched.                                        *)
(***************************************************************************)
THEOREM UncachedGateIsExact == Spec => [](~cache => UnblockedWasFetched)
  <1>1. ASSUME IInv, ~cache, NEW u \in Users, Unblocked(u)
        PROVE  clock - job[u].read <= Budget
    <2>1. job[u] \in Job /\ clock \in Nat
      BY <1>1 DEF IInv, TypeOK, Unblocked
    <2>2. job[u].fetched \in Nat /\ job[u].read \in Nat \cup {Never} /\ job[u].fetched <= job[u].read
      BY <1>1, <2>1 DEF IInv, FetchedIsRead, Unblocked, Job
    <2> QED BY <1>1, <2>1, <2>2, BoundAssumption DEF Unblocked, Never
  <1>2. IInv => (~cache => UnblockedWasFetched)
    BY <1>1 DEF UnblockedWasFetched
  <1> QED BY <1>2, Invariance, PTL

\* The page only ever shows new contents, which it numbers.
PageMovesOn == page' > page \/ page' = page

\* The plain fetch of a content the page has shown by now, or nothing.
Seen(h) == h = NoHash \/ (h \in Hashes /\ h[1] = "httpx" /\ h[2] <= page)

\* Since a refresh saw that the page differs from its job's snapshot, that snapshot is of
\* an earlier content, and what the call has read instead is not it.
MovedOn(q) ==
    /\ Seen(q.old) /\ Seen(q.hash)
    /\ q.kind = "refresh" /\ q.pc = "fetch" /\ q.old # NoHash => q.old[2] < page
    /\ q.kind = "refresh" /\ q.pc \in {"upsert", "find", "write"} => q.hash # q.old
    /\ q.result = "changed" => q.pc = "idle" /\ q.hash # q.old

Plain == ~cache /\ engine = "httpx"
ForwardInv == Plain => /\ \A u \in Users : job[u] # NoJob => Seen(job[u].bound)
                       /\ \A w \in Workers : MovedOn(call[w])

LEMMA StillMovedOn ==
    ASSUME TypeOK, TypeOK', PageMovesOn
    PROVE  /\ \A h \in Hashes \cup {NoHash} : Seen(h) => Seen(h)'
           /\ \A q \in Call : MovedOn(q) => MovedOn(q)'
  <1>1. page \in Nat /\ page' \in Nat /\ page <= page'
    BY BoundAssumption DEF TypeOK, PageMovesOn
  <1>2. ASSUME NEW h, Seen(h)
        PROVE  Seen(h)'
    <2>1. h # NoHash => h[2] \in Nat
      BY <1>2, BoundAssumption DEF Seen, Hashes
    <2> QED BY <1>1, <1>2, <2>1 DEF Seen
  <1>3. ASSUME NEW q \in Call, MovedOn(q)
        PROVE  MovedOn(q)'
    <2>1. q.old # NoHash => q.old[2] \in Nat
      BY <1>3, BoundAssumption DEF MovedOn, Seen, Hashes
    <2> QED BY <1>1, <1>2, <1>3, <2>1 DEF MovedOn
  <1> QED BY <1>2, <1>3

\* A call that has read nothing.
LEMMA IdleMovedOn == MovedOn(Idle("none"))
  BY DEF MovedOn, Idle, Blank, Seen

LEMMA ForwardLocalStep ==
    ASSUME IInv, ForwardInv, NEW w \in Workers, NEW q, Moves(w, q), Plain => MovedOn(q),
           UNCHANGED <<world, job>>
    PROVE  ForwardInv'
  <1>1. \A v \in Workers : call'[v] = IF v = w THEN q ELSE call[v]
    BY DEF IInv, TypeOK, Moves
  <1> QED BY <1>1 DEF ForwardInv, Plain, MovedOn, Seen, world

LEMMA ForwardRowStep ==
    ASSUME IInv, ForwardInv, NEW w \in Workers, NEW q, Moves(w, q), Plain => MovedOn(q), NEW r,
           job' = [job EXCEPT ![call[w].user] = r], Plain /\ r # NoJob => Seen(r.bound), UNCHANGED world
    PROVE  ForwardInv'
  <1>1. \A v \in Workers : call'[v] = IF v = w THEN q ELSE call[v]
    BY DEF IInv, TypeOK, Moves
  <1>2. \A u \in Users : job'[u] = IF u = call[w].user THEN r ELSE job[u]
    BY DEF IInv, TypeOK
  <1> QED BY <1>1, <1>2 DEF ForwardInv, Plain, MovedOn, Seen, world

LEMMA ForwardBegins ==
    ASSUME IInv, ForwardInv, NEW w \in Workers, NEW u \in Users,
           ExtractJob(w, u) \/ GetOrCreateJob(w, u) \/ RefreshJob(w, u) \/ DeleteJob(w, u)
    PROVE  ForwardInv'
  <1>1. PICK kind \in {"extract", "create", "refresh", "delete"},
             pc \in {"lookup", "fetch", "find", "refetch", "delete"} :
          /\ Begin(w, u, kind, pc)
          /\ kind = "refresh" => job[u] # NoJob /\ pc = "refetch"
    BY DEF ExtractJob, GetOrCreateJob, RefreshJob, DeleteJob
  <1> DEFINE q == [Blank(u, kind, pc, "none") EXCEPT !.now = clock,
                      !.id = IF kind \in {"refresh", "delete"} THEN job[u].id ELSE NoId,
                      !.old = IF kind = "refresh" THEN job[u].bound ELSE NoHash]
  <1>2. /\ q.pc = pc /\ q.kind = kind /\ q.hash = NoHash /\ q.result = "none"
        /\ q.old = (IF kind = "refresh" THEN job[u].bound ELSE NoHash)
    BY DEF Blank
  <1>3. Moves(w, q) /\ UNCHANGED <<world, job>>
    BY <1>1 DEF Begin
  <1> HIDE DEF q
  <1>4. Plain => MovedOn(q)
    BY <1>1, <1>2 DEF ForwardInv, MovedOn, Seen
  <1> QED BY <1>3, <1>4, ForwardLocalStep

LEMMA ForwardReads ==
    ASSUME IInv, ForwardInv, NEW w \in Workers,
           Refetch(w) \/ Lookup(w) \/ Fetch(w) \/ Upsert(w) \/ Find(w)
    PROVE  ForwardInv'
  <1>1. /\ call[w] \in Call /\ Good(w, call[w]) /\ UNCHANGED <<world, job>>
        /\ Plain => MovedOn(call[w])
    BY CallOK DEF ForwardInv, Refetch, Lookup, Fetch, Upsert, Find
  <1>2. page \in Nat /\ page \in 0..MaxVersion /\ engine \in Engines
    BY BoundAssumption DEF IInv, TypeOK
  <1>3. ASSUME NEW q, Moves(w, q), Plain => MovedOn(q)
        PROVE  ForwardInv'
    BY <1>1, <1>3, ForwardLocalStep
  <1>4. CASE Refetch(w)
    <2>1. CASE Moves(w, [call[w] EXCEPT !.pc = "stale"])
      <3> DEFINE q == [call[w] EXCEPT !.pc = "stale"]
      <3>2. Plain => MovedOn(q)
        BY <1>1, <1>4 DEF MovedOn, Call, Refetch, At
      <3> HIDE DEF q
      <3> QED BY <1>3, <2>1, <3>2 DEF q
    <2>2. ASSUME NEW pc \in {"touch", "lookup", "fetch"},
                 pc # "touch" => call[w].old # <<"httpx", page>>,
                 Moves(w, [call[w] EXCEPT !.read = clock, !.pc = pc])
          PROVE  ForwardInv'
      <3> DEFINE q == [call[w] EXCEPT !.read = clock, !.pc = pc]
      <3>3. /\ q.pc = pc /\ q.kind = call[w].kind /\ q.old = call[w].old /\ q.hash = call[w].hash
            /\ q.result = call[w].result /\ call[w].pc = "refetch"
        BY <1>1, <1>4 DEF Call, Refetch, At
      <3>4. Plain /\ pc = "fetch" /\ q.old # NoHash => q.old[2] < page
        <4> SUFFICES ASSUME Plain, pc = "fetch", q.old # NoHash
                     PROVE  q.old[2] < page
          OBVIOUS
        <4>1. q.old \in Hashes /\ q.old[1] = "httpx" /\ q.old[2] <= page
          BY <1>1, <3>3 DEF MovedOn, Seen
        <4>2. PICK e \in Engines, v \in 0..MaxVersion : q.old = <<e, v>>
          BY <4>1 DEF Hashes
        <4>3. v # page /\ v <= page /\ q.old[2] = v /\ v \in Nat
          BY <2>2, <3>3, <4>1, <4>2, BoundAssumption
        <4> QED BY <1>2, <4>3
      <3> HIDE DEF q
      <3>5. Plain => MovedOn(q)
        BY <1>1, <2>2, <3>3, <3>4 DEF MovedOn
      <3> QED BY <1>3, <2>2, <3>5 DEF q
    <2> QED BY <1>4, <2>1, <2>2 DEF Refetch
  <1>5. CASE Fetch(w)
    <2> DEFINE h == <<engine, page>>
               q == [call[w] EXCEPT !.pc = "upsert", !.hash = h, !.read = clock]
    <2>1. h \in Hashes /\ h[1] = engine /\ h[2] = page
      BY <1>2 DEF Hashes
    <2> HIDE DEF h
    <2>3. /\ q.pc = "upsert" /\ q.kind = call[w].kind /\ q.old = call[w].old /\ q.hash = h
          /\ q.result = call[w].result /\ call[w].pc = "fetch"
      BY <1>1, <1>5 DEF Call, Fetch, At
    <2>4. Plain => Seen(h)
      BY <1>2, <2>1 DEF Seen, Plain
    <2>5. Plain /\ call[w].kind = "refresh" => h # call[w].old
      BY <1>1, <1>2, <2>1, <2>3, HashIsSome DEF MovedOn
    <2>7. Moves(w, q)
      BY <1>5 DEF Fetch, h
    <2> HIDE DEF q
    <2>8. Plain => MovedOn(q)
      BY <1>1, <2>3, <2>4, <2>5 DEF MovedOn
    <2> QED BY <1>3, <2>7, <2>8
  <1>6. CASE Lookup(w)
    <2>1. ~Plain
      BY <1>1, <1>6 DEF Lookup, At, Good, Shape, Plain
    <2>2. PICK q : Moves(w, q)
      BY <1>6 DEF Lookup
    <2> QED BY <1>3, <2>1, <2>2
  <1>7. CASE Upsert(w) \/ Find(w)
    <2>1. PICK q : /\ Moves(w, q) /\ q.kind = call[w].kind /\ q.old = call[w].old
                   /\ q.hash = call[w].hash /\ q.result = call[w].result
                   /\ q.pc \in {"find", "write"}
                   /\ call[w].pc \in {"upsert", "find"}
      <3>1. CASE Upsert(w)
        <4> DEFINE q == [call[w] EXCEPT !.pc = "find"]
        <4>1. /\ Moves(w, q) /\ call[w].pc = "upsert" /\ q.kind = call[w].kind /\ q.old = call[w].old
              /\ q.hash = call[w].hash /\ q.result = call[w].result /\ q.pc = "find"
          BY <1>1, <3>1 DEF Upsert, At, Call
        <4> QED BY <4>1
      <3>2. CASE Find(w)
        <4> DEFINE q == [call[w] EXCEPT !.pc = "write", !.id = Row(w).id,
                            !.hit = @ /\ Row(w) # NoJob /\ Row(w).bound = call[w].hash]
        <4>1. /\ Moves(w, q) /\ call[w].pc = "find" /\ q.kind = call[w].kind /\ q.old = call[w].old
              /\ q.hash = call[w].hash /\ q.result = call[w].result /\ q.pc = "write"
          BY <1>1, <3>2 DEF Find, At, Call
        <4> QED BY <4>1
      <3> QED BY <1>7, <3>1, <3>2
    <2>2. Plain => MovedOn(q)
      BY <1>1, <2>1 DEF MovedOn
    <2> QED BY <1>3, <2>1, <2>2
  <1> QED BY <1>4, <1>5, <1>6, <1>7

\* The steps with which a call ends.
LEMMA ForwardEnds ==
    ASSUME IInv, ForwardInv, NEW w \in Workers,
           MarkStale(w) \/ Touch(w) \/ Write(w) \/ Delete(w) \/ Abort(w)
    PROVE  ForwardInv'
  <1>1. /\ call[w] \in Call /\ Good(w, call[w]) /\ UNCHANGED world /\ call[w].user \in Users
        /\ Plain => MovedOn(call[w]) /\ (Row(w) # NoJob => Seen(Row(w).bound))
        /\ job \in [Users -> Job \cup {NoJob}] /\ Row(w) = job[call[w].user]
    BY CallOK DEF ForwardInv, MarkStale, Touch, Write, Delete, Abort, Row, IInv, TypeOK, Call
  <1>2. Returns(w) => Moves(w, Idle("none")) /\ (Plain => MovedOn(Idle("none")))
    BY IdleMovedOn DEF Returns, Idle
  <1>3. CASE Abort(w)
    BY <1>1, <1>2, <1>3, ForwardLocalStep DEF Abort
  <1>4. CASE MarkStale(w) \/ Touch(w) \/ Delete(w)
    <2>1. PICK r : /\ job' = [job EXCEPT ![call[w].user] = r]
                   /\ \/ r = NoJob \/ r = Row(w)
                      \/ r = [Row(w) EXCEPT !.freshness = "stale", !.failed = call[w].id]
                      \/ r = [Row(w) EXCEPT !.fetched = call[w].now, !.read = call[w].read]
                   /\ r # NoJob => Row(w) # NoJob
      <3>1. Row(w).id = call[w].id => Row(w) # NoJob
        BY <1>1, <1>4, SentinelAssumption DEF MarkStale, Touch, Delete, At, Good, Shape, NoJob
      <3> QED BY <1>1, <1>4, <3>1 DEF MarkStale, Touch, Delete
    <2>2. Row(w) \in Job \cup {NoJob}
      BY <1>1
    <2>3. r # NoJob => r.bound = Row(w).bound
      BY <2>1, <2>2 DEF Job
    <2>4. Plain /\ r # NoJob => Seen(r.bound)
      BY <1>1, <2>1, <2>3
    <2>5. Returns(w)
      BY <1>4 DEF MarkStale, Touch, Delete
    <2> QED BY <1>1, <1>2, <2>1, <2>4, <2>5, ForwardRowStep
  <1>5. CASE Write(w)
    <2>1. PICK q : Moves(w, q) /\ (Plain => MovedOn(q))
      <3>1. CASE call[w].kind = "refresh"
        <4> DEFINE q == [Blank(Anyone, "none", "idle", "changed")
                            EXCEPT !.old = call[w].old, !.hash = call[w].hash]
        <4>1. /\ q.pc = "idle" /\ q.kind = "none" /\ q.old = call[w].old /\ q.hash = call[w].hash
              /\ Moves(w, q) /\ call[w].pc = "write"
          BY <1>5, <3>1 DEF Blank, Write, At
        <4> HIDE DEF q
        <4>2. Plain => MovedOn(q)
          BY <1>1, <3>1, <4>1 DEF MovedOn
        <4> QED BY <4>1, <4>2
      <3>2. CASE call[w].kind # "refresh"
        BY <1>2, <1>5, <3>2 DEF Write
      <3> QED BY <3>1, <3>2
    <2>2. PICK r : /\ job' = [job EXCEPT ![call[w].user] = r]
                   /\ \/ r = Row(w) \/ \E i \in JobIds : r = Unbound(i)
                      \/ \E o \in Job : r = Bound(w, o)
      <3>1. CASE Insert(w)
        <4>1. \A i \in JobIds : Unbound(i) \in Job
          BY DEF Unbound, Job, Never
        <4> QED BY <3>1, <4>1 DEF Insert
      <3>2. CASE Update(w)
        <4>1. Row(w).id = call[w].id /\ call[w].id # NoId => Row(w) \in Job
          BY <1>1 DEF NoJob
        <4> QED BY <1>1, <3>2, <4>1 DEF Update
      <3> QED BY <1>5, <3>1, <3>2 DEF Write
    <2>3. Plain /\ r # NoJob => Seen(r.bound)
      <3>1. \A i \in JobIds : Unbound(i).bound = NoHash
        BY DEF Unbound
      <3>2. \A o \in Job : Bound(w, o).bound = call[w].hash
        BY DEF Bound, Job
      <3> QED BY <1>1, <2>2, <3>1, <3>2 DEF MovedOn, Seen
    <2> QED BY <1>1, <2>1, <2>2, <2>3, ForwardRowStep
  <1> QED BY <1>3, <1>4, <1>5

LEMMA ForwardNext ==
    ASSUME IInv, IInv', ForwardInv, [Next]_vars, PageMovesOn
    PROVE  ForwardInv'
  <1>1. ASSUME NEW w \in Workers, NEW u \in Users,
               ExtractJob(w, u) \/ GetOrCreateJob(w, u) \/ RefreshJob(w, u) \/ DeleteJob(w, u)
        PROVE  ForwardInv'
    BY <1>1, ForwardBegins
  <1>2. ASSUME NEW w \in Workers, Refetch(w) \/ Lookup(w) \/ Fetch(w) \/ Upsert(w) \/ Find(w)
        PROVE  ForwardInv'
    BY <1>2, ForwardReads
  <1>3. ASSUME NEW w \in Workers, MarkStale(w) \/ Touch(w) \/ Write(w) \/ Delete(w) \/ Abort(w)
        PROVE  ForwardInv'
    BY <1>3, ForwardEnds
  <1>4. CASE Tick \/ PageChanges \/ UNCHANGED vars
    <2>1. UNCHANGED <<cache, engine, job, call>>
      BY <1>4 DEF Tick, PageChanges, vars
    <2>2. /\ \A h \in Hashes \cup {NoHash} : Seen(h) => Seen(h)'
          /\ \A q \in Call : MovedOn(q) => MovedOn(q)'
      BY StillMovedOn DEF IInv
    <2>3. /\ \A w \in Workers : call[w] \in Call
          /\ \A u \in Users : job[u] # NoJob => job[u].bound \in Hashes \cup {NoHash}
      BY DEF IInv, TypeOK, Job
    <2>4. ASSUME Plain, ForwardInv
          PROVE  /\ \A u \in Users : job[u] # NoJob => Seen(job[u].bound)'
                 /\ \A w \in Workers : MovedOn(call[w])'
      <3>1. ASSUME NEW u \in Users, job[u] # NoJob
            PROVE  Seen(job[u].bound)'
        <4>1. PICK h \in Hashes \cup {NoHash} : h = job[u].bound
          BY <2>3, <3>1
        <4>2. Seen(h)'
          BY <2>2, <2>4, <3>1, <4>1 DEF ForwardInv
        <4> QED BY <2>1, <4>1, <4>2
      <3>2. ASSUME NEW w \in Workers
            PROVE  MovedOn(call[w])'
        <4>1. PICK q \in Call : q = call[w]
          BY <2>3
        <4>2. MovedOn(q)'
          BY <2>2, <2>4, <4>1 DEF ForwardInv
        <4> QED BY <2>1, <4>1, <4>2
      <3> QED BY <3>1, <3>2
    <2>5. Plain' <=> Plain
      BY <2>1 DEF Plain
    <2> QED BY <2>1, <2>4, <2>5 DEF ForwardInv
  <1> QED BY <1>1, <1>2, <1>3, <1>4 DEF Next

(***************************************************************************)
(* jd_extractor.md line 73 holds where the cache is off, the posting needs *)
(* no browser, and the page never returns to an earlier content: a refresh *)
(* that reports a change has read another snapshot than the job had.       *)
(***************************************************************************)
THEOREM UncachedChangesAreReal ==
    Spec /\ [][page' > page]_page => [](~cache /\ engine = "httpx" => ChangeIsReal)
  <1>1. Init => ForwardInv
    <2>1. Init => \A w \in Workers : call[w] = Idle("none")
      BY DEF Init, Idle
    <2> QED BY <2>1, IdleMovedOn DEF Init, ForwardInv
  <1>2. IInv /\ IInv' /\ ForwardInv /\ [Next]_vars /\ [page' > page]_page => ForwardInv'
    BY ForwardNext DEF PageMovesOn
  <1>3. ForwardInv => (~cache /\ engine = "httpx" => ChangeIsReal)
    BY DEF ForwardInv, Plain, MovedOn, ChangeIsReal
  <1> QED BY <1>1, <1>2, <1>3, Invariance, PTL DEF Spec
=============================================================================
