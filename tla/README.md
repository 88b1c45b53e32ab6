# AutoApply: TLA+ models, model checking and proofs

AutoApply is a single Python backend over PostgreSQL. It registers users, keeps
their LLM providers, extracts a JSON resume from an uploaded PDF, and extracts job
postings from the web. These modules model the parts of it that keep state, check
them with TLC on small instances, and prove their central properties with TLAPS for
every value of the constants. Paths below are relative to the repository.

Two facts about the code decide the shape of every model.

- **A call is a transaction, and it is often a long one.** `DbContext.transaction`
  (`backend/app/db/context.py`) commits on success, rolls back on any exception, and
  becomes a savepoint when one is already open. `route_llm_request` holds its
  transaction across up to one 20 s network call per provider, `extract_job` across
  fetches and up to five LLM calls. PostgreSQL runs READ COMMITTED: a `SELECT` sees
  what is committed, a guarded `UPDATE` waits for the row's lock and evaluates its
  `WHERE` again, an `INSERT` waits for a peer's uncommitted row under a unique index,
  and `NOW()` is the time the transaction *began*.
- **Nothing else serialises the calls.** Several requests of one user, in one or more
  server processes, are normal. Correctness rests on guards in `WHERE` clauses, unique
  indexes and `ON CONFLICT`.

So an action is one statement, or several that no peer can tell apart; a call has a
program counter and locals; a crash or a raised exception is a rollback.

## 1. Inventory

| Component | State | Operations | What is hard | What makes it correct |
|---|---|---|---|---|
| LLM router (`llm/router.py`, `llm_router_repository.py`) | `rate_limit_state`: a circuit-breaker row per user and provider | `route_llm_request`, `generate_structured` | one transaction across network calls; row locks held while the next provider is tried; stale counts; deadlocks; rollback of a trial | one trial at a time; an open row moves only through an expired cooldown; counts not ahead of failures; a commit publishes what the ended calls made of the rows; requests end |
| Provider administration (`llm/service.py`) | `llm_providers` | add, list, test, delete | count-then-insert races; deletion while a request uses the provider; breaker rows left behind | no breaker without its provider, names unique, but for two known races; a recorded provider stays; only known deadlocks |
| Adapters, JSON helpers (`llm/adapters`, `llm/json_utils.py`, `llm/schema_dialects.py`) | none | one HTTP call; parsing | mapping of statuses and headers | total, and only the statuses the router knows |
| Accounts and sessions (`auth/service.py`, `security.py`, `auth_repository.py`) | `users`, `auth_sessions` | register, login, refresh, logout, me | a token presented twice; refresh racing logout; lost answers; crash between revoke and insert | one live token per login; no token burned; logout final; sessions owned |
| Settings, user profile (`auth/settings_service.py`, `user_profile_service.py`) | `settings`, `user_profiles` | get, patch, put | key order of row locks; select-then-insert | one profile per user; deadlocks only from crossed orders, and every call ends |
| Profile upload (`core_engine/profiles.py`, `storage.py`, `extraction.py`, `section_transforms.py`) | `profiles` rows, files under `STORAGE_ROOT` | upload, update, list, current | files are not transactional; cleanup by one upload under another; answers that overwrite sections; retries | row implies PDF; one profile per PDF; what is left behind has a known cause; nothing partial stored; edits kept |
| Jobs and freshness (`core_engine/jd_extractor.py`, `core_engine_repository.py`) | `jobs`, `job_snapshots` | extract, refresh, get-or-create, delete, status, list, freshness gate | cache against re-fetch; `NOW()` of a long transaction; marks on rows since replaced; shared snapshots rolled back | a job is bound to a committed snapshot; the gate lets only read postings through; marks hit their own row |
| Fetching and doors (`jd_fetch*.py`, `jd_doors.py`, `jd_schema.py`, ...) | robots cache; the accumulator and the token budget of an extraction | ATS lookup, fetch, render, JSON-LD, section calls, gap-fill | five doors write one accumulator; two bodies of one page; redirects; a budget over calls that may fail | the strongest door's value stays; no call is begun that the budget does not cover; the text sent is the text scanned; the text stored is of the body hashed or a rendering of it |
| Transactions, repositories (`db/`) | connection | transaction, guarded insert/update | savepoints, row-level security | commit or nothing |
| Migrations (`db/run_migrations.py`) | the schema | migrate, verify | one transaction per file, no ledger | a second run is harmless or refused |
| FastAPI application, dashboard, extension, chat, MCP, Discord, discovery | none yet | - | - | placeholders; only documents exist |

The components meet in three places: the resume and job extraction call the router (in
`extract_job` inside its own transaction, so the router's commit is a savepoint; in
`upload_profile` outside any, so it is a commit); every call enters through
`DbContext.transaction`; jobs of all users share `job_snapshots`. `PROJECT.json` lists
each component with its status, and under `hazards` every place we know of where
something can go wrong that a test would hardly reach, with the properties that watch it.

## 2. Plan

Written, in this order: `CircuitBreaker` and `LlmRouter` with `LlmRouterProofs`;
`AuthSessions` and `SessionStore` with `AuthSessionsProofs`; `ProfileUpload`,
`ResumeSections` and `ProfileStore` with `ProfileUploadProofs`; `JobFreshness` and
`SnapshotStore` with `JobFreshnessProofs`; `JdDoors` and `JdExtraction` with
`JdExtractionProofs`; `AccountData` with `AccountDataProofs`.

Left, most important first:

1. The composition of `JdExtraction` with `JobFreshness`: today the first has the
   contents of one extraction, the second the interleavings of several, and they meet in
   what a snapshot is.
2. `jd_fetch.py`'s robots and address checks, as a decision over what DNS and
   `robots.txt` may answer.
3. `parse_date_range` of `section_transforms.py` against a reference definition.

To prove next: that the composition of point 1 implements both `SnapshotStore` and the
abstract gate; and what `merge_over` and the gap filling have in common, as laws of
operators on all accumulators (`MergesKeep` is the first).

A new module shares a run with the component it composes with; the number of runs is
kept at twelve.

## 3. The modules

### `LlmRouter` and the abstract `CircuitBreaker`

Constants give the providers (`Names`, `Registered`), the chains `_resolve_chain` may
return, the lanes, the thresholds and windows (`TripThreshold`, `CooldownFloor`,
`TrialWindow`), the `Retry-After` values and the jitter in percent. A request of the
model is one database transaction. In the lanes `"route"` and `"structured"` it is one
call; in the lane `"nested"` it is an extraction, which makes up to `MaxCalls` calls in
the transaction it has open, each a savepoint (`db/context.py:43`). `breaker` is
`rate_limit_state` as committed, `lock` says which transaction has a row, `draft` is what
it has written, `kept` what its ended calls left, to which a savepoint rolls back, and
`firm` whether an ended call holds the lock already, which a rollback to a savepoint
does not give up. `req` holds the locals of every request. `fails` is history: the
failures that committed transactions counted since the row's last reset.

| Action | Code |
|---|---|
| `Begin` | call of `route_llm_request` / `generate_structured`; `now` is read once |
| `NextCall` | the next section call or the gap-fill of an extraction, with its own `now` |
| `SkipUnregistered`, `HandleBreakers` | top of the loop: `is_registered`, `_handle_breakers` |
| `ClaimTrial` | `claim_trial`, with its rowcount |
| `KeyRejected`, `Succeed`, `Unavailable`, `ShapeFailure`, `RateLimited`, `CountedFailure` | the outcomes of the call |
| `EnsureBreaker`, `IncrementFailure`, `TripCircuit` | the guarded statements after a failure |
| `Exhaust` | `_exhaust`: the end of the call, and only then the exception |
| `Commit` | COMMIT of the transaction, after its last call |
| `UndoCall` | a call that raises in an extraction: `ROLLBACK TO SAVEPOINT`, and `extract_job` goes on (`jd_extractor.py:469`, `:849`) |
| `Abort`, `DeadlockVictim` | rollback |

`CircuitBreaker` says what the rows promise, and knows neither requests nor locks. Its
`own` is the rows as the ended calls of the open transactions left them (`kept`): every
call moves them as a breaker moves, and a commit publishes rows of `own` and nothing
else. Between two commits a row may so make several moves, because the calls of an
extraction commit as one: OPEN to CLOSED by one section's trial and a failure counted by
the next. `BreakerContract == Contract!Spec` is checked as a PROPERTY and proved.

### `AuthSessions` and the abstract `SessionStore`

`session` holds `auth_sessions` by token, `account` maps emails to users, `inserting` and
`revoking` are the uncommitted unique entry and the uncommitted revocation, `known` are
the tokens a client has received (`Delivered` may lose the answer). Calls run
`StartRegister`, `CreateUser`, `FinishRegister`, `StartLogin`, `FinishLogin`, `Present`
(`decode_token`), `OpenTransaction`, `RevokeForRefresh`, `Rotate`, `Logout`, `Abort`.
`parent`, `login` and `signedOut` are history. What precedes any effect (password
policy, email syntax) is left out. "User no longer exists" cannot occur: nothing deletes
a user; the function `delete_user_account` of migration 020 raises on every call.

`SessionStore` is what the rows promise a user: a login opens a session with one usable
token; that token is exchanged for a new one of the same user and is then worth nothing,
or the session ends for good; no token is issued twice. The refinement mapping takes the
active rows of a login for its usable tokens (`UsableTokens`), so that there is never more
than one is part of `ImplementsSessionStore` and no assumption of it.

### `ProfileUpload`, `ResumeSections` and the abstract `ProfileStore`

`row` is the `profiles` table, `inserting` the uncommitted entries of the unique index
on (user, sha256), and `home`, `staged`, `pdf` are the user directories, the profile
directories and the PDFs on disk. Several server processes may run, so the system calls
interleave: `MakeDir`, `MakeUserDir` (`mkdir(parents=True)` is three calls when the
parent is missing), `WritePdf`, `RemoveTree`, `Prune`. `Section` is one turn of the
section loop with its one retry. `RemoveTree` is `shutil.rmtree(..., ignore_errors=True)`: it may
leave the directory, or the PDF in it too, and nobody is told. `Assemble`, `Insert`, `Finish` end an upload;
`UpdateProfile` is the `PUT`; `Crash` leaves files and rolls back rows.

`ResumeSections` says what an answer does to the resume: an answer is a function from raw
keys to the kind of their values; `Transform` is `transform_parsed_data` with its two
shapes (an answer with `basics` and another key is expanded to every section, any other
goes through the per-key branches, the aliases in the order the code tries them);
`Updated` is `complete_resume.update`, `Assembled` and `Rejected` the final resume and its
schema. `SectionOrder` and `RawAnswers` are constants, so the theorems hold of any answer.

`ProfileStore` is what a user may rely on: of a PDF there is one profile at most, it
stays, and an edit is never undone. `ImplementsProfileStore` maps its one variable to
`row`, by key and id.

### `JobFreshness` and the abstract `SnapshotStore`

One posting; `job` has a row per user, `snapshot` is shared by all. `page` is the
content the web shows, which may return to an earlier one, `engine` what `extract_job`
hashes (the fetched page, or the rendered one when the fetched page is a shell;
`refresh_job` always hashes the fetched page), `cache` is `JD_CACHE_ENABLED`. A call is
one transaction: `ExtractJob`, `GetOrCreateJob`, `RefreshJob`, `DeleteJob` begin it;
`Refetch`, `MarkStale`, `Touch` are `refresh_job`; `Lookup`, `Fetch`, `Upsert`, `Find`,
`Write` are `extract_job`; `Delete` and `Abort` end it. The write of a `jobs` row is
always the last step before the commit and is one action with it. `read` and `failed`
are history. Redirects are left out here.

`SnapshotStore` is what `job_snapshots` promises everybody: a snapshot is stored once
under its hash and never changes or goes away.

### `JdDoors` and `JdExtraction`

`JdDoors` has the pure part of an extraction: the posting picked from an ATS's answer
(`GreenhousePosting`, `LeverPosting`, with the substring and first-of-list fallbacks
that may pick another posting, "stray"), the fields each door yields,
`extract_json_ld`'s subset, `merge_over`, the shell test, the schema and the
plausibility gate. A field of the payload is represented by the door its value is from.

`JdExtraction` is the cascade of `extract_job` for one url, one extraction after the other:

| Action | Code |
|---|---|
| `Lookup` | the cache by url |
| `Door1` | `classify_url` and the ATS lookup |
| `Redirect`, `TooManyRedirects`, `Answer` | `fetch_http`, the shell test, Door 2 (JSON-LD) and the injection scan |
| `Gate35` | the rendered page: its text and url are taken first, then its JSON-LD is read and merged under what there is, then it is hashed; what raises in between is swallowed (`jd_extractor.py:761-772`) |
| `Door4` | which way Door 4 goes: sections, or straight on |
| `OutOfBudget`, `Section` | `_BudgetTracker.guard_plan`, one of the four section calls, `accrue` |
| `Door5` | the gap-fill call for missing critical fields, merged over everything; its errors, its own overdraft included, swallowed |
| `Gate`, `Persist` | the schema and D43; `upsert_snapshot` |

A value of the gap-fill has an origin of its own (`"gap"`), so that what it displaces can
be told. `offered` and `spent` are history: what each door had a value for, and what the
calls have cost, which is the reported usage of an answer and the planned prompt of a
call that nobody answered.

### `AccountData`

The rows an owner edits and the requests that use them meanwhile: `UpdateSettings` with
its `Upsert` per key; `PutProfile`; `AddProvider`; `DeleteProvider`, which drops the
breaker row first and then waits for every uncommitted usage row; and `Request`, the part
of `route_llm_request` that touches these rows, alone or several times in one transaction
(the `Extractions`).

One provider name is modelled in full. `Resolve` takes a chain of names, each stood for
by the row of its breaker; a chain may name several and may name one twice, because
nothing keeps `llm_chain` from it. The walk is `Gate`, `Chat`, `Failure` and `Usage` at
the name modelled, and `Detour` at any other whose turn writes its breaker's row; turns
that write none are left out of the chain. `More` ends a request: its transaction
commits, or, in an extraction, the next request resolves its chain and all row locks
stay. A request that raises inside an extraction is undone to its savepoint and swallowed
(`jd_extractor.py:469`, `:849`); what it leaves is what a request with an empty chain
leaves, so it has no action of its own.

`lock` is who has written a row, `used` the share locks of the foreign key of the usage
rows. `Awaits` is the wait-for relation and `Victim` PostgreSQL's deadlock detector.
`raced` is history: the two races that leave something behind. `order` is every row a
call has named, so `Crossed` compares updates by their keys, requests by the names of
their chains and an extraction by those of all its requests.

### MC modules

The `MC` modules add only the values a cfg cannot write: chains, section orders, answers,
boards, pages, jitter, symmetry sets.

## 4. The runs

| Run | Bounds | Shows |
|---|---|---|
| `router_trial` | 3 transactions, alone or of up to 2 calls, one provider and one unregistered name, threshold 2, clock 0..2, 3 starts | breaker rows and trials under every interleaving, savepoints included; `BreakerContract` |
| `router_failover` | 2 transactions, alone or of up to 2 calls, crossed chains of 2 providers, threshold 1, 2 starts | `RequestTerminates` through row waits and deadlocks |
| `no_lost_increment` | 3 requests of one call, 4 starts | violated, see 6 |
| `auth_sessions` | 3 calls, 1 email, 2 ids, 3 tokens, TTL 1, clock 0..1 | rotation, logout, registration races, lost answers, crashes; `ImplementsSessionStore` |
| `profile_upload` | 2 uploads of 1 PDF, 3 ids, 2 sections, 5 answers | files and rows, `ImplementsProfileStore`, every upload ends |
| `aborted_upload_leaves_nothing` | 2 uploads, 2 ids | violated, see 6 |
| `no_partial_resume` | 1 upload, 3 sections | violated, see 6 |
| `job_freshness` | 2 calls, 1 user, 2 job ids, plain pages of 2 contents and a rendered one, cache on and off, clock 0..1, budget 0 | rows, snapshots, marks and the gate; `ImplementsStore` |
| `job_extraction` | 2 routes, 3 boards, 4 pages, 2 urls, 1 redirect, a budget of 36 with headroom 2 and 8 a call, usages 0 and 16, 2 snapshots (397,510 states) | what the doors merge, ask for and store; every extraction ends |
| `account_data` | 2 calls, one of them an extraction when it makes requests; 2 keys in both orders, 2 provider ids, 1 other name, chains in both orders and empty, 4 names and 2 requests a transaction (401,199 states) | the races and deadlocks of account rows; every call ends |
| `change_binds_new_snapshot` | 1 call, the cache on | violated, see 6 |
| `unblocked_was_fetched` | 1 call or more, clock past the budget | violated, see 6 |

Why the bounds are enough. *Router:* the interesting cases need a holder of the row, a
request admitted before it opened and one that waits, hence three requests; a threshold
of 2 has a count below it and at it; clock 2 lets a cooldown of 1 expire. A transaction
of one call is a stand-alone request; one of two has a call that ends well or raises and
another that finds the rows as it left them. The smallest crossed chains already
deadlock. *Sessions:* three calls are a refresh, its double and a
logout; three tokens are a login and two rotations, or two logins and one; one email is
where registrations race. *Uploads:* two uploads are a winner and a loser, or a cleanup
under a stager; three ids let one of them come again. Two sections are enough for an
order, three for the "basics" answer to empty one extracted before. *Jobs:* two calls
overlap, two ids are a job and the one that replaces it after a deletion; a plain page
goes from one content to another and back; a rendered one need not change, because a
refresh takes it for changed each time; budget 0 makes "too old" reachable with a clock
of one tick. *Extraction:* the boards have a posting to be found by its id, one that
only cites the id asked for, and nothing; the pages are a shell, a long posting, one the
scan flags and one whose JSON-LD raises; one redirect is followed and the next is one too
many; with 36 - 2 tokens and calls planned at 8, four calls that report no usage fit and
leave room for the gap-fill, four that nobody answers leave too little for it, two dear
ones leave too little for a third, and a dear one after three that nobody answered
overdraws. *Account data:* a race or a deadlock here
needs two calls; two ids are what two adds may leave. Two requests in a transaction are an
extraction that goes on, and only one of the calls makes several; two extractions that
meet are covered by the theorem. One other name is enough to cross a chain, and the empty
chain is a request none of whose names is tried. `MaxStarts`, `MaxClock`, `MaxVersion`,
`Moving`, `MaxCalls` of the router, `MaxTurns`, `MaxNames`, `MaxStored` and the finite id
and token sets are the only bounds in guards; the theorems do not depend on their size.

Deadlock checking is off everywhere: once the bounded starts, ids or ticks are used up
and all calls have returned, the system rightly has nothing left to do. That nobody
waits for ever is `RequestTerminates`, `UploadEnds`, `ExtractionEnds` and `CallEnds`
instead. Symmetry is used only in runs without liveness.

**Fairness.** `LlmRouter!Fairness` is weak fairness of each request's step (the event
loop runs it; a network call ends with the 20 s timeout; a row wait ends with the
holder) and of `DeadlockVictim` (PostgreSQL's deadlock detector). `ProfileUpload!FairSpec`
is weak fairness of each upload's step: it is an awaited call whose LLM calls time out.
`JdExtraction!FairSpec` is weak fairness of the cascade's step: every fetch, page load and
LLM call has its own timeout. `AccountData!FairSpec` is strong fairness of each call's
step: a row that others take again and again is free between them, and PostgreSQL serves
those who wait for a row in a queue; without it a caller could be overtaken for ever.
No operation is obliged to begin, to fail or to crash, and time need not pass.

## 5. What is proved

TLAPS checks the six `...Proofs` modules. The theorems assume only the named ASSUMEs of
the modules: sentinels lie outside their sets; keys, ids, other names' breakers and the
names of single rows differ; chains are sequences of names, the empty one among those of
`AccountData`, and section orders are sequences of sections; thresholds and windows are
positive; jitter is 80..120 percent; a usage is a natural number. A few theorems have a
hypothesis of their own, named in their statement and said below.

**`Invariance`: `Spec => []IInv`** for the router. The safety properties are not
inductive. Whether a commit leaves a row well formed depends on what the transaction has
written, so `IInv` adds: a row without a holder has no draft (`FreeRows`); what ended
calls left is fit to be committed, and is the committed row unless the lock is theirs
(`KeptRows`); a held row's draft is well formed, or its holder is about to trip it at the
threshold, and it relates to what the ended calls left as one call's writes can
(`HeldRows`, `Pending`); a trial was earned by an expired cooldown and its row is still
locked and HALF_OPEN (`Trials`); the locals agree with the program counter (`Control`).
The steps fall into six kinds, each with one lemma (`LocalStep`, `WriteStep`,
`EndCallStep`, `UndoCallStep`, `CommitStep`, `RollbackStep`); each action has a lemma that
shows which kind it is. From `IInv` follow `TypeCorrect`, `TrialsOwnTheirRow`,
`TrialIsSingle` (two trials would both hold the row's lock), `CommittedRowsAreOK` and
`CountIsNeverAhead`.

**`Implements`: `Spec => BreakerContract`.** `kept` moves when a call ends: for each row
the transaction holds, `Pending` and `TrialEarned` give one of the moves of
`CircuitBreaker` (`HeldMoves`, `EndCallMoves`). A commit publishes the kept rows of its
transaction, so it needs no move of its own, however many calls it is of; a rollback
takes them back to the committed ones; an undone call leaves them alone, and so does
every other step.

**`AloneNothingIsLost`: `Spec /\ []Solo => []NoLostIncrement`.** TLC refutes
`NoLostIncrement`; this says what it takes. As long as no two requests run at once
(`Solo`; the requests of one user may well, so it is a hypothesis and not a fact) the
committed count is exactly the number of failures since the last reset, through
rollbacks, failed commits, trials and trips. The invariant is `Tallied`: what the
running request has drafted is the committed count and its own failures.

**`AuthInvariance`: `Spec => []AuthInv`.** The strengthening ties a call to the rows it
works on: the presented token has a row (`Presented`), the revocation lock belongs to a
call that rotates this token (`RowLocks`), chains start with a row and parents are revoked
(`RowsOK`), a registration holds its email until it commits (`Registering`). The heart is
`RotateStep`: while a call rotates, its token is the one live token of the chain and
nobody else can revoke it, so exchanging it for the new one keeps `OneLiveTokenPerLogin`.
`AuthTypes`, `TokensRotateOnce`, `RefreshIsAtomic`, `LogoutIsFinal` and
`AccountsOwnSessions` follow. `SessionsImplementStore` (`Spec => ImplementsSessionStore`)
is proved per action: a committed registration or login is an `Open`, because the token
it is given is new; a committed refresh is a `Rotate`, by `RotateStep`; a logout of a live
token is an `End`; every other step leaves the mapped state alone, an abort included.

**`ProfileUploadProofs`: `Spec => []UInv`.** That a row's PDF exists is not inductive: it
must survive the cleanup of other uploads. `UInv` adds that what an upload has staged is
there while it works on it (`Own`), that ids of concurrent uploads differ and differ from
those of rows (`DistinctIds`, `RowsAreSpent`), and that a staged directory keeps its
user's directory non-empty (`FilesOK`), so `Prune` cannot take it. One lemma per action;
`TransformType` says of every answer that the transforms return sections of the kinds the
schema is put to. `PdfsStay`, `OneProfile`, `RowsAreComplete` follow, and so does
`LeftoversHaveACause`: a directory that is no stored profile's and no running upload's is
of an upload that died or was refused after it had made it, or of an `rmtree` that failed;
no cleanup leaves one of another upload behind, because ids differ. So does
`UploadsImplementStore`: a step leaves the mapped profiles alone, or is a `Create`
(the unique index gives its guard) or an `Edit`. `AnswersInScopeLoseNothing` says what the
refuted `NoPartialResume` misses: if the order names no section twice and every answer
changes only the section it was asked for (`KeepsToItsSection`, a hypothesis about the
models behind the API), nothing extracted before is emptied.

**`JobFreshnessProofs`: `Spec => []IInv`.** The strengthening is about calls in the
middle of their transaction: what a call is about to bind is committed or its own
uncommitted insert (`Owns`); with the cache off it was read after the call began, so its
`NOW()` is no later (`ReadSince`); a row of which a refresh knows a snapshot still has
one (`KnownStaysBound`), because ids are not used twice; and a row that was fetched has
a snapshot (`FetchedIsBound`). `BoundSnapshotsExist`, `GateNeedsExtraction`,
`FetchTimesAreReal`, `StaleMarksAreOwn` follow; `JobsKeepTheirRows` and
`SnapshotsAreImmutable` (`Spec => ImplementsStore`) are proved per action on top of it.
Two claims of the documents that TLC refutes are proved for the cache turned off.
`UncachedGateIsExact`: the gate lets a job through only if a call for it fetched the
page within the budget. `UncachedChangesAreReal`: a refresh that reports a change binds
another snapshot, if the page needs no browser and never returns to an earlier content
(the hypothesis `[][page' > page]_page`). Both conditions are needed: a page that
returns between the two fetches of a refresh gives the job its old snapshot again, and
with the browser engine `refresh_job` compares the hash of the fetched page with that of
the rendered one, so it reports a change each time.

**`JdExtractionProofs`: `Spec => []ExInv`.** `Stage` says what the locals hold at each
step of the cascade (before Gate 3.5 text and hash are of one page, calls count the
sections asked for, nothing has been spent that was not charged, a flagged page never
reaches a call); `UnofferedEmpty` that a field no door offered is empty, without which a
later merge could hide an earlier value; `Ranked` and `Whole` are the rank of the doors
and the bond of text and hash, of any locals. The lemmas `PostingType`, `AtsOffers`,
`CalledFacts` and `ReadStep` say what the operators of `JdDoors` return and what reading a
page merges. For any boards, pages, answers and budget follow `DoorsKeepRank` (Door 5 over
the sections over Door 1 over Door 2), `BudgetHolds`, `OnlyScannedIsSent`,
`SnapshotsArePostings` (what is stored passed D43, also with Door 5's values in it) and
`TextMatchesHash` (the text of a snapshot is of the body its hash is of, or that body was
a shell and the text a longer rendering). `BudgetHolds` is about steps: when a call is
begun, what the calls before it cost, its own prompt and the headroom fit the budget. The
cost is what providers report, with nothing assumed of it but that it is a number.
`NothingIsEmptied` is about steps: a field once filled stays filled to the end of the
extraction. `ExtractionsImplementStore` shows that `snapshot` is the same
`SnapshotStore` that `JobFreshness` implements: the two models agree on what they share.
`StrayOnlyWhenMissing` is about `GreenhousePosting` and `LeverPosting` alone, for a
board of any length: another posting than the one asked for is taken only if the board
lacks it.

**`AccountDataProofs`: `Spec => []AccInv`.** `Holds` says which rows a call may have
locked at each step, `Writes` what a call about to commit relies on. Two parts carry the
theorems about races: `CountsHold` (an add that has counted no provider is still right
unless another add did so too) and `Covered` (the row of the breaker has a provider that
no delete which missed that row is about to remove; a trial that recorded its use keeps
its provider, because the usage row's key lock makes the delete wait).
`OrphansComeFromRaces`, `DuplicatesComeFromRaces`, `OneUserProfile` and `UsedProvidersStay`
follow. `OnlyKnownDeadlocks` adds who waits for whom. `Behind`, `Ahead`, `Comes` and `Passed` cut
the rows a call names into those it has come to, and may hold, and those to come; so of
two that wait for each other each holds what it named before what it asks for
(`AskedPlace`, `NamedBefore`). Two updates, or two requests with the chains of all their
turns, have then named two rows in crossed orders (`PairsKnown`). A delete holds the
breaker's row and waits for the provider's, which only a recorded use holds; a request
that has one and asks for the breaker comes to the name a second time (`AsksAgain`,
`DeleteKnown`). No other pair shares two rows. No chain is assumed to be free of
repetitions, and any number of calls may be extractions.

**How long a call may run.** Liveness is outside the prover's reach, its safety half is
not: a measure `Work` of what a call has left, which every step of the call makes smaller
and no step of a peer makes larger (`WorkShrinks`). `RequestsRunOut`: `MaxRepairs + 6`
a provider of the chain and two, for each call of the transaction. `UploadsRunOut`: `2n + 8` for `n` sections.
`ExtractionsRunOut`: `MaxRedirects + 13`. `CallsRunOut`: one a key and a commit, or
one a request, four a name it comes to and a commit. So no retry, repair, redirect or fallback goes round for ever, for
any values of the constants, and what is left to TLC is only that a call which can go on
does, and that one which waits is served.

Only model-checked: liveness (`RequestTerminates`, `UploadEnds`, `ExtractionEnds`,
`CallEnds`), because fairness is outside the prover's reach.

## 6. Where the code and its documents part

Each of these has a run that TLC must find violated.

- `NoLostIncrement`: two requests that read the same `failure_count` count once, because
  `increment_failure` is guarded by the count read before and its rowcount is ignored
  (`router.py:159`). The repository's docstring says increments cannot be lost.
- `AbortedUploadLeavesNothing`: the staged PDF is removed only when the extraction raises.
  The loser of two uploads of one PDF has extracted it, is refused by the unique index, and
  leaves it.
- `NoPartialResume`: an answer that carries `basics` and another key is expanded to all
  keys, and the empty ones overwrite sections extracted before.
- `ChangeBindsNewSnapshot`: with the cache by url on (the default), a refresh that sees
  changed content is answered from the cache, reports `hash_changed=True` and keeps the
  old snapshot.
- `UnblockedWasFetched`: a cache hit sets `last_fetched_at` without a fetch, so the 6 h
  gate passes a page nobody has read within 6 h.

Met while modelling, in the models where they change state, without a run of their own:

- *Router.* A success outside a trial leaves `failure_count` alone (`router.py:322`), so
  failures need not be consecutive; the API schema resets the breaker on success. A trial
  that fails below the threshold stays HALF_OPEN until the trial window ends
  (`CircuitBreaker!Probes`), where the error-handling document opens the breaker with a
  doubled cooldown.
- *Sessions.* A logout with a token a refresh has already rotated answers "ok" and ends
  nothing (`auth/service.py:197`). The API schema ends the session, and lists 401 for such
  a token; the docstring of `logout` agrees with the code.
- *Uploads.* `shutil.rmtree(..., ignore_errors=True)` (`storage.py:53`) leaves what it
  cannot remove, and nobody is told; a crash, and a write that fails, leave a directory
  too. No later call looks for any of them (`LeftoversAreKnown`).
- *Extraction of jobs.* `jd_extractor.md` records a failed section as a gap; in the code a
  budget that a section cannot meet raises, also for the fourth section of a page at the
  trim limit, and an answer that is a JSON list raises `AttributeError`. The same document
  (line 51) never spends past the budget. The code charges what providers report, which
  for some is nothing, and nothing for the providers a call failed over from, each of
  which got the prompt; and when the gap-fill overdraws, the exception is swallowed
  (`jd_extractor.py:849`), the answer dropped and the snapshot stored. The gap-fill's
  answer is merged over everything, so it displaces section values it was not asked for
  (`jd_extractor.py:846`). A rendered page whose JSON-LD raises leaves its text beside the
  fetched body's hash (`jd_extractor.py:761-772`, `TextIsOfHash`). When `extract_job`
  raises, the usage, error and breaker rows of its LLM calls are rolled back with it. A
  stored snapshot is never replaced, so the payload returned may differ from the one
  stored, and a gappy one is served by the cache to everybody. The substring match of a
  Greenhouse url and the first entry of a Lever list may give another posting's data
  (`"stray"`). Lever's `createdAt` is a number (`jd_doors.py:304`), which the schema takes
  for no date (`jd_schema.py:121`); it and values of the wrong type from JSON-LD or the
  gap-fill fail the whole extraction. A refresh of a stale job whose content is unchanged
  answers "fresh" but leaves `freshness_state` at stale (`Touch`).
- *Account data.* The loser of two first `PUT`s of a user profile raises a unique violation
  though the code calls the `PUT` an upsert, and a `PUT` without fields on an existing
  row is no valid SQL (`auth_repository.py:198`). Settings named in crossed orders
  deadlock, and so do two requests that fail over through the same providers in crossed
  orders; nothing keeps `llm_chain` from naming a provider twice
  (`settings_service.py:60-66`). Two `add_provider` calls may both insert. A breaker row committed behind a
  waiting delete stays without its provider. A request whose provider is deleted during
  the network call fails at the foreign key and loses the answer it has paid for.
- *Migrations.* The runner keeps no ledger: after a failure in the middle a second run
  fails at the first file (`run_migrations.py:48`).

## 7. What is not modelled

Row-level security, encryption, password hashing and token encoding (library calls,
reduced to what the code tells apart). HTML, PDF and prompt text; the address and
`robots.txt` checks of a request, whose refusal is one of the failures a fetch may have.
The rewriting of single values inside a section (`parse_date_range` and its like).
`list_jobs` and the other reads; `update_job_status`, which checks only that the status
is a known word. The usage and audit rows of the router, which go
with their transaction. In `AccountData`, all of the other providers but their breakers'
rows. The adapters and JSON helpers, which have no state; `pymupdf_rag_impl.py`,
a third party's converter; the migrations' runner, a loop over files; the stub
repositories; and the parts that exist only as documents. `job_freshness` models one user
with two concurrent calls: rows of other users meet it only through `snapshot`, which the
two calls already contend for; the theorems are for any number of both.
