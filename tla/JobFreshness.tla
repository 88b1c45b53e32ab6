---------------------------- MODULE JobFreshness ----------------------------
(***************************************************************************)
(* A posting's life in the job tables: extract_job, refresh_job,           *)
(* get_or_create_job, delete_job and the freshness gate of                 *)
(* core_engine/jd_extractor.py over the jobs and job_snapshots rows of     *)
(* core_engine_repository.py.                                              *)
(*                                                                         *)
(* One posting (url) is modelled: jobs are unique per (user, url), and     *)
(* snapshots are shared by all users.  A call is one transaction, held     *)
(* open across its fetches and LLM calls; NOW() is the time at which it    *)
(* began.  Every write of a jobs row is the last step of its transaction,  *)
(* so it is one action with the commit; PostgreSQL finds the row by its    *)
(* WHERE when the write runs.  Redirects are left out: a posting's final   *)
(* url is its url.                                                         *)
(***************************************************************************)
EXTENDS Integers

CONSTANTS
    Workers,      \* concurrent calls of the service
    NoWorker,     \* "no transaction has inserted this snapshot"
    Users,
    JobIds, NoId, \* the ids of jobs rows; each is used once
    Engines,      \* where extract_job may take the hashed body from
    MaxVersion,   \* bound: how many contents the page may have
    Moving,       \* bound: with which engines the page changes at all
    Budget,       \* the 6 hours of freshness_for_package
    MaxClock      \* bound: how far the clock runs

ASSUME SentinelAssumption == NoWorker \notin Workers /\ NoId \notin JobIds
ASSUME UserAssumption == Users # {}
ASSUME EngineAssumption == "httpx" \in Engines /\ Engines \subseteq {"httpx", "browser"} /\ Moving \subseteq Engines
ASSUME BoundAssumption == MaxVersion \in Nat /\ MaxClock \in Nat /\ Budget \in Nat

(***************************************************************************)
(* content_hash: what was hashed, and which content of the page it showed. *)
(* refresh_job hashes the fetched page; extract_job hashes the rendered    *)
(* page instead when it needed one.                                        *)
(***************************************************************************)
Hashes == Engines \X (0..MaxVersion)
NoHash == <<>>
Never == -1

VARIABLES
    clock,
    page,      \* the version of the page on the web
    cache,     \* JD_CACHE_ENABLED
    engine,    \* what extract_job hashes of this posting
    snapshot,  \* job_snapshots, as committed, by content_hash
    upserting, \* which call has inserted an uncommitted snapshot
    job,       \* the jobs row of every user, as committed
    spent,     \* the job ids already generated
    call       \* the locals and the result of every call

vars == <<clock, page, cache, engine, snapshot, upserting, job, spent, call>>
world == <<clock, page, cache, engine>>

\* captured is captured_at; read is history, when the hashed body was read.
Snapshot == [captured : Nat, read : Nat]
NoSnapshot == [captured |-> Never]

\* read and failed are history: when the page was last read for this row,
\* and whether the refresh that made it stale was of this row.  The CHECK of jobs allows
\* "expired", which the gate blocks, but no statement writes it.
Job == [id : JobIds, freshness : {"fresh", "stale", "expired"}, bound : Hashes \cup {NoHash},
        fetched : Nat \cup {Never}, read : Nat \cup {Never}, failed : JobIds \cup {NoId}]
NoJob == [id |-> NoId]

PCs == {"idle", "lookup", "fetch", "upsert", "find", "write", "refetch", "stale", "touch", "delete"}

Call == [pc : PCs, kind : {"none", "extract", "refresh", "create", "delete"}, user : Users,
         id : JobIds \cup {NoId}, old : Hashes \cup {NoHash}, hash : Hashes \cup {NoHash},
         hit : BOOLEAN, now : Nat, read : Nat \cup {Never}, result : {"none", "changed"}]

TypeOK ==
    /\ clock \in Nat /\ page \in 0..MaxVersion /\ cache \in BOOLEAN /\ engine \in Engines
    /\ snapshot \in [Hashes -> Snapshot \cup {NoSnapshot}]
    /\ upserting \in [Hashes -> Workers \cup {NoWorker}]
    /\ job \in [Users -> Job \cup {NoJob}]
    /\ spent \in SUBSET JobIds
    /\ call \in [Workers -> Call]

\* A call of user u with nothing read yet.
Blank(u, kind, pc, result) ==
    [pc |-> pc, kind |-> kind, user |-> u, id |-> NoId, old |-> NoHash, hash |-> NoHash,
     hit |-> FALSE, now |-> 0, read |-> Never, result |-> result]

\* The user of a call that is over does not matter.
Anyone == CHOOSE u \in Users : TRUE

Init ==
    /\ clock = 0 /\ page = 0 /\ cache \in BOOLEAN /\ engine \in Engines
    /\ snapshot = [h \in Hashes |-> NoSnapshot]
    /\ upserting = [h \in Hashes |-> NoWorker]
    /\ job = [u \in Users |-> NoJob]
    /\ spent = {}
    /\ call = [w \in Workers |-> Blank(Anyone, "none", "idle", "none")]

At(w, pc) == call[w].pc = pc
Row(w) == job[call[w].user]
Moves(w, locals) == call' = [call EXCEPT ![w] = locals]
Returns(w) == Moves(w, Blank(Anyone, "none", "idle", "none"))
Stored == {h \in Hashes : snapshot[h] # NoSnapshot}

(***************************************************************************)
(* The beginnings of the four operations.                                  *)
(***************************************************************************)
Begin(w, u, kind, pc) ==
    /\ At(w, "idle")
    /\ Moves(w, [Blank(u, kind, pc, "none") EXCEPT !.now = clock,
                    !.id = IF kind \in {"refresh", "delete"} THEN job[u].id ELSE NoId,
                    !.old = IF kind = "refresh" THEN job[u].bound ELSE NoHash])
    /\ UNCHANGED <<world, snapshot, upserting, job, spent>>

ExtractJob(w, u) == Begin(w, u, "extract", IF cache THEN "lookup" ELSE "fetch")
GetOrCreateJob(w, u) == Begin(w, u, "create", "find")
RefreshJob(w, u) == job[u] # NoJob /\ Begin(w, u, "refresh", "refetch")
DeleteJob(w, u) == job[u] # NoJob /\ Begin(w, u, "delete", "delete")

(***************************************************************************)
(* refresh_job: fetch, then one of three ways on.                          *)
(***************************************************************************)
\* Mutant: a job that was never extracted counts as unchanged.
RefetchTakesUnextracted(w) ==
    /\ At(w, "refetch")
    /\ \/ Moves(w, [call[w] EXCEPT !.pc = "stale"])
       \/ LET h == <<"httpx", page>> IN
          Moves(w, [call[w] EXCEPT !.read = clock,
                       !.pc = IF call[w].old \in {h, NoHash} THEN "touch"
                              ELSE IF cache THEN "lookup" ELSE "fetch"])
    /\ UNCHANGED <<world, snapshot, upserting, job, spent>>

Refetch(w) ==
    /\ At(w, "refetch")
    /\ \/ Moves(w, [call[w] EXCEPT !.pc = "stale"])
       \/ LET h == <<"httpx", page>> IN
          Moves(w, [call[w] EXCEPT !.read = clock,
                       !.pc = IF h = call[w].old THEN "touch"
                              ELSE IF cache THEN "lookup" ELSE "fetch"])
    /\ UNCHANGED <<world, snapshot, upserting, job, spent>>

\* Mutant: the UPDATE names the user and the url instead of the row's id.
MarkStaleByUrl(w) ==
    /\ At(w, "stale")
    /\ job' = [job EXCEPT ![call[w].user] =
                  IF @ # NoJob THEN [@ EXCEPT !.freshness = "stale", !.failed = call[w].id] ELSE @]
    /\ Returns(w)
    /\ UNCHANGED <<world, snapshot, upserting, spent>>

\* A row that is gone by now is not missed.
MarkStale(w) ==
    /\ At(w, "stale")
    /\ job' = [job EXCEPT ![call[w].user] =
                  IF @.id = call[w].id THEN [@ EXCEPT !.freshness = "stale", !.failed = call[w].id] ELSE @]
    /\ Returns(w)
    /\ UNCHANGED <<world, snapshot, upserting, spent>>

Touch(w) ==
    /\ At(w, "touch")
    /\ job' = [job EXCEPT ![call[w].user] =
                  IF @.id = call[w].id THEN [@ EXCEPT !.fetched = call[w].now, !.read = call[w].read] ELSE @]
    /\ Returns(w)
    /\ UNCHANGED <<world, snapshot, upserting, spent>>

(***************************************************************************)
(* extract_job, also as called by refresh_job: the cache by url, else a    *)
(* fetch and the doors; then snapshot, job and binding.                    *)
(***************************************************************************)
Newest == {h \in Stored : \A g \in Stored : snapshot[g].captured <= snapshot[h].captured}

Lookup(w) ==
    /\ At(w, "lookup")
    /\ \/ /\ Stored = {}
          /\ Moves(w, [call[w] EXCEPT !.pc = "fetch"])
       \/ \E h \in Newest :
             Moves(w, [call[w] EXCEPT !.pc = "find", !.hash = h, !.hit = TRUE, !.read = snapshot[h].read])
    /\ UNCHANGED <<world, snapshot, upserting, job, spent>>

Fetch(w) ==
    /\ At(w, "fetch")
    /\ Moves(w, [call[w] EXCEPT !.pc = "upsert", !.hash = <<engine, page>>, !.read = clock])
    /\ UNCHANGED <<world, snapshot, upserting, job, spent>>

\* Mutant: the conflict with a row that is not committed does not wait.
UpsertWithoutWaiting(w) ==
    LET h == call[w].hash IN
    /\ At(w, "upsert")
    /\ upserting' = IF h \in Stored \/ upserting[h] # NoWorker THEN upserting
                    ELSE [upserting EXCEPT ![h] = w]
    /\ Moves(w, [call[w] EXCEPT !.pc = "find"])
    /\ UNCHANGED <<world, snapshot, job, spent>>

\* Mutant: ON CONFLICT DO UPDATE.
UpsertOver(w) ==
    LET h == call[w].hash IN
    /\ At(w, "upsert") /\ upserting[h] = NoWorker
    /\ upserting' = [upserting EXCEPT ![h] = w]
    /\ Moves(w, [call[w] EXCEPT !.pc = "find"])
    /\ UNCHANGED <<world, snapshot, job, spent>>

\* INSERT ... ON CONFLICT (content_hash) DO NOTHING, after the LLM calls.
Upsert(w) ==
    LET h == call[w].hash IN
    /\ At(w, "upsert") /\ upserting[h] = NoWorker
    /\ upserting' = IF h \in Stored THEN upserting ELSE [upserting EXCEPT ![h] = w]
    /\ Moves(w, [call[w] EXCEPT !.pc = "find"])
    /\ UNCHANGED <<world, snapshot, job, spent>>

\* find_job_by_url.  After a cache hit a job already bound to it is left alone.
Find(w) ==
    /\ At(w, "find")
    /\ Moves(w, [call[w] EXCEPT !.pc = "write", !.id = Row(w).id,
                    !.hit = @ /\ Row(w) # NoJob /\ Row(w).bound = call[w].hash])
    /\ UNCHANGED <<world, snapshot, upserting, job, spent>>

\* Mutant: last_fetched_at is the time of the UPDATE.
BoundAtCommit(w, r) ==
    [r EXCEPT !.freshness = "fresh", !.bound = call[w].hash, !.fetched = clock,
              !.read = call[w].read, !.failed = NoId]

\* Mutant: the gate's own word for a fresh job is written back, which the CHECK rejects.
BoundAsOk(w, r) ==
    [r EXCEPT !.freshness = "ok(<6h)", !.bound = call[w].hash, !.fetched = call[w].now,
              !.read = call[w].read, !.failed = NoId]

\* apply_snapshot.
Bound(w, r) ==
    [r EXCEPT !.freshness = "fresh", !.bound = call[w].hash, !.fetched = call[w].now,
              !.read = call[w].read, !.failed = NoId]

Unbound(i) == [id |-> i, freshness |-> "fresh", bound |-> NoHash, fetched |-> Never,
               read |-> Never, failed |-> NoId]

\* Mutant: INSERT ... ON CONFLICT DO UPDATE with the new row's id.
InsertOrReplace(w) ==
    /\ call[w].id = NoId
    /\ \E i \in JobIds \ spent :
          /\ job' = [job EXCEPT ![call[w].user] =
                        IF call[w].kind = "create" THEN Unbound(i) ELSE Bound(w, Unbound(i))]
          /\ spent' = spent \cup {i}

Insert(w) ==
    /\ call[w].id = NoId /\ Row(w) = NoJob
    /\ \E i \in JobIds \ spent :
          /\ job' = [job EXCEPT ![call[w].user] =
                        IF call[w].kind = "create" THEN Unbound(i) ELSE Bound(w, Unbound(i))]
          /\ spent' = spent \cup {i}

Update(w) ==
    /\ call[w].id # NoId
    /\ job' = [job EXCEPT ![call[w].user] =
                  IF call[w].kind # "create" /\ ~call[w].hit /\ @.id = call[w].id
                  THEN Bound(w, @) ELSE @]
    /\ UNCHANGED spent

\* The write of the job, its audits, and the commit.
Write(w) ==
    /\ At(w, "write")
    /\ Insert(w) \/ Update(w)
    /\ snapshot' = [h \in Hashes |-> IF upserting[h] = w
                                     THEN [captured |-> call[w].now, read |-> call[w].read]
                                     ELSE snapshot[h]]
    /\ upserting' = [h \in Hashes |-> IF upserting[h] = w THEN NoWorker ELSE upserting[h]]
    /\ IF call[w].kind = "refresh"
       THEN Moves(w, [Blank(Anyone, "none", "idle", "changed")
                         EXCEPT !.old = call[w].old, !.hash = call[w].hash])
       ELSE Returns(w)
    /\ UNCHANGED world

Delete(w) ==
    /\ At(w, "delete")
    /\ job' = [job EXCEPT ![call[w].user] = IF @.id = call[w].id THEN NoJob ELSE @]
    /\ Returns(w)
    /\ UNCHANGED <<world, snapshot, upserting, spent>>

(***************************************************************************)
(* Anything raised rolls the whole transaction back: a 404 or an error of  *)
(* extract_job's fetch, a budget or validation error, a unique violation   *)
(* of the job's INSERT, the death of the server.                           *)
(***************************************************************************)
Abort(w) ==
    /\ ~At(w, "idle")
    /\ upserting' = [h \in Hashes |-> IF upserting[h] = w THEN NoWorker ELSE upserting[h]]
    /\ Returns(w)
    /\ UNCHANGED <<world, snapshot, job, spent>>

Tick ==
    /\ clock < MaxClock
    /\ clock' = clock + 1
    /\ UNCHANGED <<page, cache, engine, snapshot, upserting, job, spent, call>>

\* The page may also return to what it was before.
PageChanges ==
    /\ engine \in Moving
    /\ page' \in (0..MaxVersion) \ {page}
    /\ UNCHANGED <<clock, cache, engine, snapshot, upserting, job, spent, call>>

Next ==
    \/ \E w \in Workers, u \in Users :
          ExtractJob(w, u) \/ GetOrCreateJob(w, u) \/ RefreshJob(w, u) \/ DeleteJob(w, u)
    \/ \E w \in Workers :
          \/ Refetch(w) \/ MarkStale(w) \/ Touch(w)
          \/ Lookup(w) \/ Fetch(w) \/ Upsert(w) \/ Find(w) \/ Write(w)
          \/ Delete(w) \/ Abort(w)
    \/ Tick \/ PageChanges

Spec == Init /\ [][Next]_vars

\* freshness_for_package: what it returns as "blocked", negated.
Unblocked(u) ==
    /\ job[u] # NoJob /\ job[u].freshness = "fresh"
    /\ job[u].fetched # Never /\ clock - job[u].fetched <= Budget
-----------------------------------------------------------------------------
(***************************************************************************)
(* current_snapshot_id names a committed snapshot, also when several calls *)
(* upsert the same content and some of them roll back (upsert_snapshot).   *)
(***************************************************************************)
BoundSnapshotStored == \A u \in Users :
    job[u] # NoJob /\ job[u].bound # NoHash => job[u].bound \in Stored

(***************************************************************************)
(* The gate never lets a job through that has no extracted posting.        *)
(***************************************************************************)
UnblockedIsExtracted == \A u \in Users : Unblocked(u) => job[u].bound # NoHash

(***************************************************************************)
(* With the cache off, last_fetched_at is never later than the fetch it    *)
(* stands for: the gate's 6 hours count from a real fetch, however long    *)
(* the extraction held its transaction open.                               *)
(***************************************************************************)
FetchedIsRead == ~cache => \A u \in Users : job[u] # NoJob => job[u].fetched <= job[u].read

(***************************************************************************)
(* Only a refresh of this very row makes it stale, never one that began    *)
(* with a row since deleted and created again (mark_freshness by id).      *)
(***************************************************************************)
StaleMarkIsOwn == \A u \in Users :
    job[u] # NoJob /\ job[u].freshness = "stale" => job[u].failed = job[u].id

(***************************************************************************)
(* A user's job of a url keeps its row: calls that all found none do not   *)
(* replace one another's (UNIQUE (user_id, url)).                          *)
(***************************************************************************)
JobKeepsItsRow == [][\A u \in Users :
    job[u] # NoJob /\ job'[u] # NoJob => job'[u].id = job[u].id]_job

(***************************************************************************)
(* jd_extractor.md line 67: an extraction's result is immutable.  What one *)
(* call stores stays as it is, whoever extracts the same content later.    *)
(***************************************************************************)
Store == INSTANCE SnapshotStore
ImplementsStore == Store!Spec

\* A change that was reported is one of the bound snapshot.
ChangeIsReal == \A w \in Workers :
    call[w].result = "changed" => call[w].hash # call[w].old

(***************************************************************************)
(* docs/components/core_engine/architecture/jd_extractor.md line 73: when  *)
(* the hash changes, "a new snapshot row is inserted and current_snapshot_ *)
(* id advances".  Violated with the cache on, as it is by default:         *)
(* refresh_job has fetched the changed page, but the extract_job it calls  *)
(* answers from the cache by url, and the old snapshot is reported as the  *)
(* change.                                                                 *)
(***************************************************************************)
ChangeBindsNewSnapshot == cache => ChangeIsReal

(***************************************************************************)
(* jd_extractor.md line 81: the package tier is a re-check within 6 hours. *)
(* Violated: a hit in the cache by url sets last_fetched_at without any    *)
(* fetch, whatever the age of the snapshot.                                *)
(***************************************************************************)
UnblockedWasFetched == \A u \in Users : Unblocked(u) => clock - job[u].read <= Budget
=============================================================================
