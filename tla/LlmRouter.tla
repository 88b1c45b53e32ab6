----------------------------- MODULE LlmRouter -----------------------------
(***************************************************************************)
(* The LLM router of backend/app/llm/router.py over the circuit-breaker    *)
(* rows of backend/app/db/repositories/llm_router_repository.py, for one   *)
(* user (every statement is scoped by user_id).                            *)
(*                                                                         *)
(* A request is ONE database transaction.  Alone it is one call of         *)
(* route_llm_request or generate_structured, which walks a provider chain  *)
(* and makes network calls in the middle of it.  Nested it is an           *)
(* extraction (extract_job), which makes several calls in the transaction  *)
(* it has open: db/context.py makes each a savepoint, so what an ended     *)
(* call wrote stays uncommitted and locked until the extraction ends, and  *)
(* a call that raises is undone alone and skipped.                         *)
(*                                                                         *)
(* PostgreSQL runs READ COMMITTED: a plain SELECT sees the last committed  *)
(* row (or the transaction's own write), a guarded UPDATE that would       *)
(* change a row locked by a peer waits for the peer to end and then        *)
(* evaluates its guard again, and the row stays locked until its writer    *)
(* commits or rolls back.  An action is one statement, or several that no  *)
(* peer can see apart.                                                     *)
(***************************************************************************)
EXTENDS Integers, Sequences

CONSTANTS
    Requests,       \* concurrent transactions that call the router
    NoRequest,      \* "no transaction holds this row"
    Names,          \* provider names that rows of llm_providers carry
    Registered,     \* the names the registry knows
    Chains,         \* the chains _resolve_chain can return
    Lanes,          \* "route": route_llm_request, "structured": generate_structured,
                    \* "nested": route_llm_request in the transaction of extract_job
    MaxCalls,       \* calls an extraction may make (_MAX_CALLS)
    TripThreshold,  \* TRIP_THRESHOLD
    CooldownFloor,  \* COOLDOWN_FLOOR_SECONDS
    TrialWindow,    \* TRIAL_WINDOW_SECONDS
    RetryAfters,    \* what a 429 may carry in Retry-After; Null when absent
    Jitter,         \* the provider's deterministic jitter, in percent
    MaxRepairs,     \* max_repairs of generate_structured
    MaxStarts,      \* bound: how many requests are started
    MaxClock        \* bound: how far the clock runs

VARIABLES
    clock,    \* wall clock, in seconds
    started,  \* requests begun so far (for the bound only)
    breaker,  \* rate_limit_state, as committed
    draft,    \* rate_limit_state, as the holder of the row's lock has written it
    kept,     \* rate_limit_state, as the calls that its holder has ended left it
    lock,     \* which request's transaction has the row locked
    firm,     \* whether a call that has ended locked it: undoing the next one frees it not
    req,      \* the locals of every request
    fails     \* history: counted failures since the row was last reset

vars == <<clock, started, breaker, draft, kept, lock, firm, req, fails>>

Null == -1

ASSUME RequestsAssumption == NoRequest \notin Requests
ASSUME NamesAssumption == Registered \subseteq Names /\ Chains \subseteq Seq(Names)
ASSUME LanesAssumption == Lanes \subseteq {"route", "structured", "nested"}
ASSUME NumbersAssumption ==
    /\ TripThreshold \in Nat \ {0} /\ CooldownFloor \in Nat \ {0}
    /\ TrialWindow \in Nat \ {0} /\ MaxRepairs \in Nat
    /\ MaxCalls \in Nat \ {0} /\ MaxStarts \in Nat /\ MaxClock \in Nat
    /\ RetryAfters \subseteq Nat \cup {Null}
    /\ Jitter \in [Names -> 80..120]

(***************************************************************************)
(* Rows.  "NONE" stands for "no row": the breaker is implicitly closed.    *)
(***************************************************************************)
States == {"NONE", "CLOSED", "OPEN", "HALF_OPEN"}
Row == [state : States, count : Nat, cooldown : Nat \cup {Null}]
NoRow == [state |-> "NONE", count |-> 0, cooldown |-> Null]
ClosedRow == [state |-> "CLOSED", count |-> 0, cooldown |-> Null]

PCs == {"idle", "gate", "claim", "call", "ensure", "insert", "count", "trip", "ended"}

NoFailures == [p \in Names |-> 0]

Idle ==
    [pc |-> "idle", lane |-> "route", now |-> 0, todo |-> <<>>, trial |-> FALSE,
     seen |-> 0, wait |-> 0, repairs |-> 0, calls |-> 0,
     counted |-> NoFailures, tallied |-> NoFailures, cleared |-> {}]

Request == [pc : PCs, lane : {"route", "structured", "nested"}, now : Nat, todo : Seq(Names),
            trial : BOOLEAN, seen : Nat, wait : Nat, repairs : Nat,
            calls : Nat,               \* calls the transaction may still make
            counted : [Names -> Nat],  \* history: failures this call has counted
            tallied : [Names -> Nat],  \* history: those of its ended calls
            cleared : SUBSET Names]    \* history: the rows its ended calls have reset

TypeOK ==
    /\ clock \in Nat
    /\ started \in Nat
    /\ breaker \in [Names -> Row]
    /\ draft \in [Names -> Row]
    /\ kept \in [Names -> Row]
    /\ lock \in [Names -> Requests \cup {NoRequest}]
    /\ firm \in [Names -> BOOLEAN]
    /\ req \in [Requests -> Request]
    /\ fails \in [Names -> Nat]

Init ==
    /\ clock = 0
    /\ started = 0
    /\ breaker = [p \in Names |-> NoRow]
    /\ draft = [p \in Names |-> NoRow]
    /\ kept = [p \in Names |-> NoRow]
    /\ lock = [p \in Names |-> NoRequest]
    /\ firm = [p \in Names |-> FALSE]
    /\ req = [r \in Requests |-> Idle]
    /\ fails = NoFailures

(***************************************************************************)
(* The transaction.                                                        *)
(***************************************************************************)
Cur(r) == Head(req[r].todo)                       \* the provider being tried
Seen(r, p) == IF lock[p] = r THEN draft[p] ELSE breaker[p]   \* what r's SELECT returns
Free(r, p) == lock[p] \in {NoRequest, r}          \* r's write of row p need not wait

Become(r, q) == req' = [req EXCEPT ![r] = q]

Write(r, p, row) ==
    /\ Free(r, p)
    /\ draft' = [draft EXCEPT ![p] = row]
    /\ lock' = [lock EXCEPT ![p] = r]
    /\ UNCHANGED <<clock, started, breaker, kept, firm, fails>>

NoWrite == UNCHANGED <<clock, started, breaker, draft, kept, lock, firm, fails>>

\* Mutant: an early return leaves the transaction open.
KeepLocks(r) == UNCHANGED <<lock, firm>>

Release(r) ==
    /\ lock' = [p \in Names |-> IF lock[p] = r THEN NoRequest ELSE lock[p]]
    /\ firm' = [p \in Names |-> firm[p] /\ lock[p] # r]

\* The locals between two calls of one transaction.
Between(q) == [q EXCEPT !.pc = "ended", !.now = 0, !.todo = <<>>, !.trial = FALSE,
                        !.seen = 0, !.wait = 0, !.repairs = 0, !.counted = NoFailures]

Ended(q, cleared) ==
    [Between(q) EXCEPT !.tallied = [p \in Names |-> IF p \in cleared THEN 0
                                                    ELSE q.tallied[p] + q.counted[p]],
                       !.cleared = q.cleared \cup cleared]

\* The end of db.transaction(): what the call wrote is kept, the rows cleared are reset.
EndCall(r, cleared) ==
    /\ draft' = [p \in Names |-> IF p \in cleared THEN ClosedRow ELSE draft[p]]
    /\ kept' = [p \in Names |-> IF lock[p] = r THEN draft'[p] ELSE kept[p]]
    /\ firm' = [p \in Names |-> firm[p] \/ lock[p] = r]
    /\ Become(r, Ended(req[r], cleared))
    /\ UNCHANGED <<clock, started, breaker, lock, fails>>

\* Failures of p since its reset, as r's transaction leaves them.
Base(r, p) == IF p \in req[r].cleared THEN req[r].tallied[p] ELSE fails[p] + req[r].tallied[p]

\* COMMIT of the transaction, once its last call has ended.
Commit(r) ==
    /\ req[r].pc = "ended"
    /\ breaker' = [p \in Names |-> IF lock[p] = r THEN draft[p] ELSE breaker[p]]
    /\ fails' = [p \in Names |-> Base(r, p)]
    /\ Release(r)
    /\ Become(r, Idle)
    /\ UNCHANGED <<clock, started, draft, kept>>

Rollback(r) ==
    /\ draft' = [p \in Names |-> IF lock[p] = r THEN breaker[p] ELSE draft[p]]
    /\ kept' = [p \in Names |-> IF lock[p] = r THEN breaker[p] ELSE kept[p]]
    /\ Release(r)
    /\ UNCHANGED <<clock, started, breaker, fails>>

\* ROLLBACK TO SAVEPOINT: the rows are as the ended calls left them, and those that only
\* this call has written are free again.
RollbackCall(r) ==
    /\ draft' = [p \in Names |-> IF lock[p] = r THEN kept[p] ELSE draft[p]]
    /\ lock' = [p \in Names |-> IF lock[p] = r /\ ~firm[p] THEN NoRequest ELSE lock[p]]
    /\ UNCHANGED <<clock, started, breaker, kept, firm, fails>>

\* continue: the next provider of the chain
Advance(q) == [q EXCEPT !.pc = "gate", !.todo = Tail(q.todo), !.trial = FALSE,
                        !.seen = 0, !.wait = 0, !.repairs = 0]

(***************************************************************************)
(* route_llm_request / generate_structured begin: now is read once.        *)
(***************************************************************************)
Begin(r) ==
    /\ req[r].pc = "idle"
    /\ started < MaxStarts
    /\ started' = started + 1
    /\ \E chain \in Chains, lane \in Lanes :
          Become(r, [Idle EXCEPT !.pc = "gate", !.lane = lane, !.now = clock, !.todo = chain,
                                 !.calls = IF lane = "nested" THEN MaxCalls - 1 ELSE 0])
    /\ UNCHANGED <<clock, breaker, draft, kept, lock, firm, fails>>

\* The next section of the posting, or its gap-fill: a call of its own, with its own now.
NextCall(r) ==
    /\ req[r].pc = "ended"
    /\ req[r].calls > 0
    /\ \E chain \in Chains :
          Become(r, [req[r] EXCEPT !.pc = "gate", !.now = clock, !.todo = chain,
                                   !.calls = @ - 1])
    /\ NoWrite

(***************************************************************************)
(* The top of the loop: is_registered and _handle_breakers.                *)
(***************************************************************************)
AtGate(r) == req[r].pc = "gate" /\ req[r].todo # <<>>

SkipUnregistered(r) ==
    /\ AtGate(r)
    /\ Cur(r) \notin Registered
    /\ Become(r, Advance(req[r]))
    /\ NoWrite

Cooling(row, now) == row.state = "OPEN" /\ row.cooldown # Null /\ row.cooldown > now

HandleBreakers(r) ==
    /\ AtGate(r)
    /\ Cur(r) \in Registered
    /\ LET row == Seen(r, Cur(r)) IN
       \/ /\ row.state \in {"NONE", "CLOSED"}
          /\ Become(r, [req[r] EXCEPT !.pc = "call"])
       \/ /\ Cooling(row, req[r].now)
          /\ Become(r, Advance(req[r]))
       \/ /\ row.state \in {"OPEN", "HALF_OPEN"}
          /\ ~Cooling(row, req[r].now)
          /\ Become(r, [req[r] EXCEPT !.pc = "claim"])
    /\ NoWrite

ClaimHits(row, now) ==
    /\ row.state \in {"OPEN", "HALF_OPEN"}
    /\ row.cooldown = Null \/ row.cooldown <= now

\* Mutant: the claim pushes the cooldown but leaves the row OPEN.
ClaimedStillOpen(row, now) == [row EXCEPT !.cooldown = now + TrialWindow]

ClaimedRow(row, now) == [row EXCEPT !.state = "HALF_OPEN", !.cooldown = now + TrialWindow]

\* Mutant: the rowcount of claim_trial is not looked at.
ClaimIgnoringRowcount(r) ==
    /\ req[r].pc = "claim"
    /\ LET row == Seen(r, Cur(r)) IN
       IF ClaimHits(row, req[r].now)
       THEN Write(r, Cur(r), ClaimedRow(row, req[r].now))
       ELSE NoWrite
    /\ Become(r, [req[r] EXCEPT !.pc = "call", !.trial = TRUE])

\* claim_trial; rowcount 0 makes the router skip the provider
ClaimTrial(r) ==
    /\ req[r].pc = "claim"
    /\ LET row == Seen(r, Cur(r)) IN
       \/ /\ ClaimHits(row, req[r].now)
          /\ Write(r, Cur(r), ClaimedRow(row, req[r].now))
          /\ Become(r, [req[r] EXCEPT !.pc = "call", !.trial = TRUE])
       \/ /\ ~ClaimHits(row, req[r].now)
          /\ NoWrite
          /\ Become(r, Advance(req[r]))

(***************************************************************************)
(* The call and its outcomes.                                              *)
(***************************************************************************)
\* The stored key does not decrypt: the breaker is left as it is.
KeyRejected(r) ==
    /\ req[r].pc = "call"
    /\ req[r].repairs = 0
    /\ Become(r, Advance(req[r]))
    /\ NoWrite

\* A usable answer: reset_circuit on a trial (guarded by HALF_OPEN), usage row.
Succeed(r) ==
    /\ req[r].pc = "call"
    /\ LET p == Cur(r) IN
       EndCall(r, IF req[r].trial /\ Seen(r, p).state = "HALF_OPEN" THEN {p} ELSE {})

Unavailable(r) ==
    /\ req[r].pc = "call"
    /\ Become(r, Advance(req[r]))
    /\ NoWrite

\* invalid_json / schema_mismatch: at most MaxRepairs more prompts to the same provider
ShapeFailure(r) ==
    /\ req[r].pc = "call"
    /\ req[r].lane = "structured"
    /\ Become(r, IF req[r].repairs >= MaxRepairs THEN Advance(req[r])
                                                 ELSE [req[r] EXCEPT !.repairs = @ + 1])
    /\ NoWrite

\* Mutant: a missing Retry-After is computed with, and the floor is forgotten.
CooldownWithoutFloor(p, retryAfter) == (retryAfter * Jitter[p]) \div 100

CooldownFor(p, retryAfter) ==
    LET jittered == (retryAfter * Jitter[p]) \div 100 IN
    IF retryAfter # Null /\ jittered > CooldownFloor THEN jittered ELSE CooldownFloor

RateLimited(r) ==
    /\ req[r].pc = "call"
    /\ \E retryAfter \in RetryAfters :
          Become(r, [req[r] EXCEPT !.pc = "ensure", !.wait = CooldownFor(Cur(r), retryAfter)])
    /\ NoWrite

\* 5xx, timeout, 401 and other HTTP errors: _handle_count_failure reads the row
CountedFailure(r) ==
    /\ req[r].pc = "call"
    /\ LET row == Seen(r, Cur(r)) IN
       Become(r, [req[r] EXCEPT !.pc = IF row.state = "NONE" THEN "insert" ELSE "count",
                                !.seen = row.count])
    /\ NoWrite

(***************************************************************************)
(* The breaker statements of a failure.                                    *)
(***************************************************************************)
\* INSERT ... ON CONFLICT DO NOTHING waits for a peer that is writing the row.
EnsureBreaker(r) ==
    /\ req[r].pc \in {"ensure", "insert"}
    /\ Free(r, Cur(r))
    /\ IF Seen(r, Cur(r)).state = "NONE" THEN Write(r, Cur(r), ClosedRow) ELSE NoWrite
    /\ Become(r, [req[r] EXCEPT !.pc = IF @ = "ensure" THEN "trip" ELSE "count"])

IncrementHits(row, seen) == row.state \in {"CLOSED", "HALF_OPEN"} /\ row.count = seen

\* Mutant: the threshold is off by one.
IncrementTripsLate(r) ==
    /\ req[r].pc = "count"
    /\ LET p == Cur(r)
           row == Seen(r, p)
           q == [req[r] EXCEPT !.counted[p] = @ + 1, !.wait = CooldownFloor]
       IN /\ IF IncrementHits(row, q.seen)
             THEN Write(r, p, [row EXCEPT !.count = @ + 1])
             ELSE NoWrite
          /\ Become(r, IF q.seen + 1 > TripThreshold THEN [q EXCEPT !.pc = "trip"]
                                                      ELSE Advance(q))

\* increment_failure (its rowcount is not looked at), then trip_circuit at the threshold
IncrementFailure(r) ==
    /\ req[r].pc = "count"
    /\ LET p == Cur(r)
           row == Seen(r, p)
           q == [req[r] EXCEPT !.counted[p] = @ + 1, !.wait = CooldownFloor]
       IN /\ IF IncrementHits(row, q.seen)
             THEN Write(r, p, [row EXCEPT !.count = @ + 1])
             ELSE NoWrite
          /\ Become(r, IF q.seen + 1 >= TripThreshold THEN [q EXCEPT !.pc = "trip"]
                                                       ELSE Advance(q))

Observed(r) == IF req[r].trial THEN "HALF_OPEN" ELSE "CLOSED"

\* Mutant: every trip counts, a 429 too (failure_count_delta = 1).
TrippedAndCounted(row, cooldown) ==
    [row EXCEPT !.state = "OPEN", !.cooldown = cooldown, !.count = @ + 1]

TrippedRow(row, cooldown) == [row EXCEPT !.state = "OPEN", !.cooldown = cooldown]

\* Mutant: trip_circuit without its guard on the observed state.
TripUnguarded(r) ==
    /\ req[r].pc = "trip"
    /\ Write(r, Cur(r), TrippedRow(Seen(r, Cur(r)), req[r].now + req[r].wait))
    /\ Become(r, Advance(req[r]))

\* trip_circuit with failure_count_delta = 0, guarded by the observed state
TripCircuit(r) ==
    /\ req[r].pc = "trip"
    /\ LET row == Seen(r, Cur(r)) IN
       IF row.state = Observed(r)
       THEN Write(r, Cur(r), TrippedRow(row, req[r].now + req[r].wait))
       ELSE NoWrite
    /\ Become(r, Advance(req[r]))

(***************************************************************************)
(* The end of the chain: _exhaust, the end of the call, and only then the  *)
(* exception.                                                              *)
(***************************************************************************)
Exhaust(r) ==
    /\ req[r].pc = "gate"
    /\ req[r].todo = <<>>
    /\ EndCall(r, {})

(***************************************************************************)
(* What ends a request early.  A crash, a cancelled task or a lost         *)
(* connection undoes the transaction (Abort), and so does anything that a  *)
(* call alone, or an extraction between its calls, raises.  What a nested  *)
(* call raises undoes the call: extract_job catches it and goes on.        *)
(***************************************************************************)
Undo(r) == Rollback(r) /\ Become(r, Idle)

Abort(r) == req[r].pc # "idle" /\ Undo(r)

UndoCall(r) ==
    /\ req[r].pc \notin {"idle", "ended"}
    /\ req[r].lane = "nested"
    /\ RollbackCall(r)
    /\ Become(r, Between(req[r]))

\* r's next statement waits for the transaction that holds the row
Waiting(r) ==
    /\ req[r].pc \in {"claim", "ensure", "insert", "count", "trip"}
    /\ ~Free(r, Cur(r))
    /\ LET row == breaker[Cur(r)] IN
       CASE req[r].pc = "claim" -> ClaimHits(row, req[r].now)
         [] req[r].pc = "count" -> IncrementHits(row, req[r].seen)
         [] req[r].pc = "trip"  -> row.state = Observed(r)
         [] OTHER -> TRUE

\* r is on a cycle of waiting requests
InCycle(r) ==
    \E S \in SUBSET Requests :
       /\ r \in S
       /\ \A q \in S : Waiting(q) /\ lock[Cur(q)] \in S
       /\ \A q \in S : \E w \in S : lock[Cur(w)] = q

\* PostgreSQL ends one of them: its statement fails.
DeadlockVictim(r) == InCycle(r) /\ (UndoCall(r) \/ (req[r].lane # "nested" /\ Undo(r)))

Tick == clock < MaxClock /\ clock' = clock + 1
        /\ UNCHANGED <<started, breaker, draft, kept, lock, firm, req, fails>>

Step(r) ==
    \/ SkipUnregistered(r) \/ HandleBreakers(r) \/ ClaimTrial(r)
    \/ KeyRejected(r) \/ Succeed(r) \/ Unavailable(r) \/ ShapeFailure(r)
    \/ RateLimited(r) \/ CountedFailure(r)
    \/ EnsureBreaker(r) \/ IncrementFailure(r) \/ TripCircuit(r) \/ Exhaust(r)
    \/ NextCall(r) \/ Commit(r)

Next ==
    \/ Tick
    \/ \E r \in Requests : Begin(r) \/ Step(r) \/ Abort(r) \/ UndoCall(r) \/ DeadlockVictim(r)

Spec == Init /\ [][Next]_vars

\* The event loop runs every request, a call ends by its 20 s timeout, and PostgreSQL
\* breaks every deadlock.  Nothing obliges a request to begin, to abort or time to pass.
Fairness == \A r \in Requests : WF_vars(Step(r)) /\ WF_vars(DeadlockVictim(r))

FairSpec == Spec /\ Fairness

----------------------------------------------------------------------------
(***************************************************************************)
(* Properties.                                                             *)
(***************************************************************************)
InTrial(r, p) == req[r].pc # "idle" /\ req[r].trial /\ Cur(r) = p

\* claim_trial's promise (llm_router_repository.py:159-166): between the claim and the
\* outcome of a trial no other request is in a trial of the same provider.
SingleTrial ==
    \A p \in Names, r, s \in Requests : InTrial(r, p) /\ InTrial(s, p) => r = s

\* A request in a trial still owns the row in state HALF_OPEN whatever its peers did
\* meanwhile, so that its guarded reset_circuit or trip_circuit always takes effect.
TrialOwnsRow ==
    \A r \in Requests : req[r].pc # "idle" /\ req[r].trial =>
        lock[Cur(r)] = r /\ draft[Cur(r)].state = "HALF_OPEN"

\* What a committed row may look like: a closed breaker has no cooldown and is below the
\* trip threshold, an open or half-open one has a cooldown, so it can be claimed later.
ShapeOK(row) ==
    /\ row.state = "NONE" => row = NoRow
    /\ row.state = "CLOSED" => row.cooldown = Null /\ row.count < TripThreshold
    /\ row.state \in {"OPEN", "HALF_OPEN"} => row.cooldown # Null

CommittedRowsOK == \A p \in Names : ShapeOK(breaker[p])

\* The trip counter never runs ahead of the failures that count: 429s, unavailable
\* providers, undecryptable keys and output-shape failures leave it alone.
CountNeverAhead == \A p \in Names : breaker[p].count <= fails[p]

\* The rows obey the circuit breaker of CircuitBreaker.tla under every interleaving: every
\* call moves them as a breaker moves and a commit publishes what the ended calls of one
\* transaction made of them. An OPEN row changes only once its cooldown is over, through a
\* trial, and neither a late failure of a request admitted earlier nor a peer's claim
\* moves it.
Contract == INSTANCE CircuitBreaker WITH own <- kept
BreakerContract == Contract!Spec

\* Every request ends: an extraction makes so many calls, repairs are bounded, row waits
\* end, deadlocks are broken.
RequestTerminates == \A r \in Requests : []<>(req[r].pc = "idle")

\* "lose consecutive-failure increments" never happens (llm_router_repository.py:5-6):
\* a closed row's count is the number of failures counted since it was last reset.
NoLostIncrement ==
    \A p \in Names : breaker[p].state = "CLOSED" => breaker[p].count = fails[p]
----------------------------------------------------------------------------
(***************************************************************************)
(* The inductive invariant behind the theorems of LlmRouterProofs.         *)
(***************************************************************************)
\* A request's locals: its clock reading is in the past, it works on a provider, and a
\* trial lasts from the claim to the outcome.
Control ==
    \A r \in Requests :
        /\ req[r].now <= clock
        /\ req[r].pc \notin {"idle", "gate", "ended"} => req[r].todo # <<>>
        /\ req[r].trial => req[r].pc \notin {"idle", "gate", "claim", "ended"}
        /\ req[r].pc \in {"ensure", "trip"} => req[r].wait > 0
        /\ \A p \in req[r].cleared : lock[p] = r /\ firm[p]

\* r has counted the failure that reaches the threshold and will trip the row next.
AtThreshold(r, p) ==
    /\ req[r].pc = "trip" /\ ~req[r].trial /\ Cur(r) = p
    /\ draft[p].state = "CLOSED" /\ draft[p].cooldown = Null

\* How the row d of a call that began at now relates to b, the row its transaction's ended
\* calls had left.
Pending(b, d, now) ==
    /\ d.state = "NONE" => b = d
    /\ b.count <= d.count \/ d.state = "NONE"
    /\ d.state = "CLOSED" => b.state \in {"NONE", "CLOSED"}
    /\ d.state \in {"OPEN", "HALF_OPEN"} =>
          /\ b.state \in {"NONE", "CLOSED"} => d.state = "OPEN" /\ d.cooldown > now
          /\ b.state = "OPEN" => b.cooldown <= clock
          /\ b.state = "HALF_OPEN" =>
                b.cooldown <= clock \/ (d.state = "HALF_OPEN" /\ d.cooldown = b.cooldown)

\* The row p that r's transaction has locked.
Held(r, p) ==
    /\ req[r].pc # "idle"
    /\ ShapeOK(draft[p]) \/ AtThreshold(r, p)
    /\ draft[p] = kept[p] \/ Pending(kept[p], draft[p], req[r].now)
    /\ kept[p].count <= Base(r, p)
    /\ draft[p].count <= Base(r, p) + req[r].counted[p]
    /\ req[r].pc = "ended" => firm[p] /\ draft[p] = kept[p]

HeldRows == \A r \in Requests, p \in Names : lock[p] = r => Held(r, p)

FreeRows == \A p \in Names : lock[p] = NoRequest => draft[p] = breaker[p] /\ ~firm[p]

\* What ended calls have left is fit to be committed; the rest is as committed.
KeptRows == \A p \in Names : ShapeOK(kept[p]) /\ (~firm[p] => kept[p] = breaker[p])

\* A trial was earned by an expired cooldown, and the row is still the trial's.
TrialEarned(r) ==
    LET p == Cur(r) IN
    /\ lock[p] = r /\ draft[p].state = "HALF_OPEN"
    /\ kept[p].state \in {"OPEN", "HALF_OPEN"} /\ kept[p].cooldown <= clock

Trials == \A r \in Requests : req[r].trial => TrialEarned(r)

IInv ==
    /\ TypeOK /\ Control
    /\ CommittedRowsOK /\ CountNeverAhead
    /\ FreeRows /\ KeptRows /\ HeldRows /\ Trials

============================================================================
