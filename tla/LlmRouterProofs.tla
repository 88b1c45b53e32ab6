-------------------------- MODULE LlmRouterProofs --------------------------
(***************************************************************************)
(* Proofs about LlmRouter for any number of requests and providers, any    *)
(* chains and any thresholds.                                              *)
(*                                                                         *)
(* Every action of a request does one of a few things to the rows:         *)
(* nothing, write one row it may write, end a call, undo a call, commit or *)
(* roll back.  There is one lemma for each; the theorems check its         *)
(* hypotheses action by action.                                            *)
(***************************************************************************)
EXTENDS LlmRouter, TLAPS

\* What the locals q that a running request r takes on have to satisfy.
LocalsOK(r, q) ==
    /\ q \in Request
    /\ req[r].pc # "idle" /\ q.pc \notin {"idle", "ended"}
    /\ q.now = req[r].now \/ (req[r].pc = "ended" /\ q.now = clock)
    /\ q.pc # "gate" => q.todo # <<>>
    /\ q.trial => q.pc \notin {"gate", "claim"}
    /\ q.pc \in {"ensure", "trip"} => q.wait > 0
    /\ \A p \in Names : req[r].counted[p] <= q.counted[p]
    /\ q.tallied = req[r].tallied /\ q.cleared = req[r].cleared

\* None of the rows that r holds is waiting for the trip at the threshold.
Settled(r) == \A p \in Names : lock[p] = r => ShapeOK(draft[p])

\* Advance keeps a request a request and leaves it at the top of the loop.
LEMMA AdvanceType ==
    ASSUME NEW q \in Request, q.todo # <<>>
    PROVE  /\ Advance(q) \in Request
           /\ Advance(q).pc = "gate" /\ Advance(q).trial = FALSE
           /\ Advance(q).now = q.now /\ Advance(q).counted = q.counted
           /\ Advance(q).tallied = q.tallied /\ Advance(q).cleared = q.cleared
           /\ Advance(q).calls = q.calls
  <1>1. q.todo \in Seq(Names)
    BY DEF Request
  <1>2. Tail(q.todo) \in Seq(Names)
    BY <1>1
  <1>3. Advance(q) \in Request
    BY <1>2 DEF Advance, Request, PCs
  <1> QED
    BY <1>3 DEF Advance, Request

\* One more repair prompt.
LEMMA RepairType ==
    ASSUME NEW q \in Request
    PROVE  LET n == [q EXCEPT !.repairs = @ + 1] IN
           /\ n \in Request
           /\ n.pc = q.pc /\ n.trial = q.trial /\ n.now = q.now
           /\ n.counted = q.counted /\ n.todo = q.todo
           /\ n.tallied = q.tallied /\ n.cleared = q.cleared /\ n.calls = q.calls
  <1>1. q.repairs \in Nat
    BY DEF Request
  <1>2. \A k \in Nat : LET n == [q EXCEPT !.repairs = k] IN
           /\ n \in Request
           /\ n.pc = q.pc /\ n.trial = q.trial /\ n.now = q.now
           /\ n.counted = q.counted /\ n.todo = q.todo
           /\ n.tallied = q.tallied /\ n.cleared = q.cleared /\ n.calls = q.calls
    BY DEF Request
  <1>3. q.repairs + 1 \in Nat
    BY <1>1
  <1> QED BY <1>2, <1>3

\* Between two calls the locals are those of a request that holds what it held.
LEMMA BetweenType ==
    ASSUME NEW q \in Request
    PROVE  /\ Between(q) \in Request
           /\ Between(q).pc = "ended" /\ Between(q).trial = FALSE /\ Between(q).now = 0
           /\ Between(q).counted = NoFailures
           /\ Between(q).tallied = q.tallied /\ Between(q).cleared = q.cleared
           /\ Between(q).calls = q.calls /\ Between(q).repairs = 0
           /\ Between(q).todo = <<>>
  <1>1. NoFailures \in [Names -> Nat]
    BY DEF NoFailures
  <1>2. <<>> \in Seq(Names) /\ "ended" \in PCs
    BY DEF PCs
  <1> QED BY <1>1, <1>2 DEF Between, Request

\* A call that has ended has added its failures to those of the transaction.
LEMMA EndedType ==
    ASSUME NEW q \in Request, NEW cleared \in SUBSET Names
    PROVE  /\ Ended(q, cleared) \in Request
           /\ Ended(q, cleared).pc = "ended" /\ Ended(q, cleared).trial = FALSE
           /\ Ended(q, cleared).now = 0 /\ Ended(q, cleared).counted = NoFailures
           /\ Ended(q, cleared).cleared = q.cleared \cup cleared
           /\ \A p \in Names : Ended(q, cleared).tallied[p] =
                 IF p \in cleared THEN 0 ELSE q.tallied[p] + q.counted[p]
           /\ Ended(q, cleared).calls = q.calls /\ Ended(q, cleared).repairs = 0
  <1> DEFINE n == Between(q)
             t == [p \in Names |-> IF p \in cleared THEN 0 ELSE q.tallied[p] + q.counted[p]]
             c == q.cleared \cup cleared
  <1>1. /\ n \in Request /\ n.pc = "ended" /\ n.trial = FALSE /\ n.now = 0
        /\ n.counted = NoFailures /\ n.calls = q.calls /\ n.repairs = 0
    BY BetweenType
  <1>2. t \in [Names -> Nat] /\ c \in SUBSET Names
    BY DEF Request
  <1>3. Ended(q, cleared) = [n EXCEPT !.tallied = t, !.cleared = c]
    BY DEF Ended
  <1>4. \A p \in Names : t[p] = IF p \in cleared THEN 0 ELSE q.tallied[p] + q.counted[p]
    OBVIOUS
  <1> HIDE DEF n, t, c
  <1>5. /\ Ended(q, cleared) \in Request
        /\ Ended(q, cleared).pc = "ended" /\ Ended(q, cleared).trial = FALSE
        /\ Ended(q, cleared).now = 0 /\ Ended(q, cleared).counted = NoFailures
        /\ Ended(q, cleared).cleared = c /\ Ended(q, cleared).tallied = t
        /\ Ended(q, cleared).calls = q.calls /\ Ended(q, cleared).repairs = 0
    BY <1>1, <1>2, <1>3 DEF Request
  <1> QED BY <1>4, <1>5 DEF c

\* claim_trial's row
LEMMA ClaimedRowType ==
    ASSUME NEW row \in Row, NEW now \in Nat
    PROVE  /\ ClaimedRow(row, now) \in Row /\ ClaimedRow(row, now).state = "HALF_OPEN"
           /\ ClaimedRow(row, now).count = row.count
           /\ ClaimedRow(row, now).cooldown = now + TrialWindow
           /\ ClaimedRow(row, now).cooldown # Null
  <1>1. now + TrialWindow \in Nat /\ "HALF_OPEN" \in States
    BY NumbersAssumption DEF States
  <1>2. now + TrialWindow # Null
    BY <1>1 DEF Null
  <1>3. \A t \in Nat : ClaimedRow(row, now) = [row EXCEPT !.state = "HALF_OPEN", !.cooldown = t]
                        => /\ ClaimedRow(row, now) \in Row
                           /\ ClaimedRow(row, now).state = "HALF_OPEN"
                           /\ ClaimedRow(row, now).count = row.count
                           /\ ClaimedRow(row, now).cooldown = t
    BY <1>1 DEF Row
  <1>4. ClaimedRow(row, now) = [row EXCEPT !.state = "HALF_OPEN", !.cooldown = now + TrialWindow]
    BY DEF ClaimedRow
  <1> QED BY <1>1, <1>2, <1>3, <1>4

\* trip_circuit's row
LEMMA TrippedRowType ==
    ASSUME NEW row \in Row, NEW until \in Nat
    PROVE  /\ TrippedRow(row, until) \in Row /\ TrippedRow(row, until).state = "OPEN"
           /\ TrippedRow(row, until).count = row.count
           /\ TrippedRow(row, until).cooldown = until
           /\ TrippedRow(row, until).cooldown # Null
  <1>1. until # Null /\ "OPEN" \in States
    BY DEF Null, States
  <1>2. /\ TrippedRow(row, until) \in Row /\ TrippedRow(row, until).state = "OPEN"
        /\ TrippedRow(row, until).count = row.count
        /\ TrippedRow(row, until).cooldown = until
    BY <1>1 DEF TrippedRow, Row
  <1> QED BY <1>1, <1>2

\* increment_failure's row
LEMMA CountedRowType ==
    ASSUME NEW row \in Row
    PROVE  /\ [row EXCEPT !.count = @ + 1] \in Row
           /\ [row EXCEPT !.count = @ + 1].state = row.state
           /\ [row EXCEPT !.count = @ + 1].count = row.count + 1
           /\ [row EXCEPT !.count = @ + 1].cooldown = row.cooldown
  <1>1. row.count + 1 \in Nat
    BY DEF Row
  <1>2. \A k \in Nat :
           LET new == [row EXCEPT !.count = k] IN
           /\ new \in Row /\ new.state = row.state /\ new.count = k
           /\ new.cooldown = row.cooldown
    BY DEF Row
  <1> QED BY <1>1, <1>2

\* An idle request is a request.
LEMMA IdleType ==
    /\ Idle \in Request
    /\ Idle.pc = "idle" /\ Idle.trial = FALSE /\ Idle.now = 0 /\ Idle.repairs = 0
    /\ Idle.calls = 0 /\ Idle.counted = NoFailures /\ Idle.tallied = NoFailures
    /\ Idle.cleared = {}
  BY DEF Idle, Request, PCs, NoFailures

\* A running request works on one of the providers.
LEMMA CurType ==
    ASSUME TypeOK, NEW r \in Requests, req[r].todo # <<>>
    PROVE  Cur(r) \in Names
  BY DEF TypeOK, Request, Cur

\* The counts of a row and of a request are numbers.
LEMMA CountTypes ==
    ASSUME TypeOK, NEW r \in Requests, NEW p \in Names
    PROVE  /\ Base(r, p) \in Nat /\ fails[p] \in Nat
           /\ breaker[p].count \in Nat /\ draft[p].count \in Nat /\ kept[p].count \in Nat
           /\ req[r].counted[p] \in Nat /\ req[r].tallied[p] \in Nat
  <1>1. breaker[p].count \in Nat /\ draft[p].count \in Nat /\ kept[p].count \in Nat
    BY DEF TypeOK, Row
  <1>2. req[r] \in Request
    BY DEF TypeOK
  <1>3. req[r].counted[p] \in Nat /\ req[r].tallied[p] \in Nat
    BY <1>2 DEF Request
  <1>4. fails[p] \in Nat
    BY DEF TypeOK
  <1>5. Base(r, p) \in Nat
    BY <1>3, <1>4 DEF Base
  <1> QED BY <1>1, <1>3, <1>4, <1>5

\* The rows that a transaction's calls have reset are locked until it ends.
LEMMA ClearedHeld ==
    ASSUME IInv, NEW r \in Requests, NEW x \in req[r].cleared
    PROVE  x \in Names /\ lock[x] = r /\ firm[x]
  <1>1. req[r] \in Request
    BY DEF IInv, TypeOK
  <1>2. x \in Names
    BY <1>1 DEF Request
  <1> QED BY <1>2 DEF IInv, Control

\* A statement that writes no row and only moves r's locals on.
LEMMA LocalStep ==
    ASSUME IInv, NEW r \in Requests, NEW q, LocalsOK(r, q), NoWrite, Become(r, q),
           Settled(r), q.trial => req[r].trial /\ Head(q.todo) = Cur(r)
    PROVE  IInv'
  <1> USE DEF LocalsOK, NoWrite, Become, IInv
  <1>0. /\ req \in [Requests -> Request]
        /\ req'[r] = q
        /\ \A s \in Requests : s # r => req'[s] = req[s]
    BY DEF TypeOK
  <1>b. \A s \in Requests, p \in Names : Base(s, p)' = Base(s, p)
    BY <1>0 DEF Base
  <1>1. TypeOK'
    BY DEF TypeOK
  <1>2. Control'
    BY <1>0 DEF Control, TypeOK
  <1>3. CommittedRowsOK' /\ CountNeverAhead' /\ FreeRows' /\ KeptRows'
    BY DEF CommittedRowsOK, CountNeverAhead, FreeRows, KeptRows, ShapeOK
  <1>4. ASSUME NEW s \in Requests, NEW p \in Names, lock[p] = s
        PROVE  Held(s, p)'
    <2>0. Held(s, p)
      BY <1>4 DEF HeldRows
    <2>1. CASE s # r
      BY <2>0, <2>1, <1>0, <1>b DEF Held, AtThreshold, Pending, ShapeOK, Cur
    <2>2. CASE s = r
      <3>1. ShapeOK(draft[p])
        BY <1>4, <2>2 DEF Settled
      <3>2. draft[p].count <= Base(s, p) + q.counted[p]
        <4>1. draft[p].count <= Base(s, p) + req[s].counted[p]
          BY <2>0 DEF Held
        <4>2. draft[p].count \in Nat /\ Base(s, p) \in Nat
              /\ req[s].counted[p] \in Nat /\ q.counted[p] \in Nat
          <5>1. q.counted[p] \in Nat
            BY DEF Request
          <5> QED BY <5>1, CountTypes
        <4> QED BY <4>1, <4>2, <2>2
      <3>3. draft[p] = kept[p] \/ Pending(kept[p], draft[p], q.now)
        BY <2>0, <2>2 DEF Held
      <3> QED
        BY <2>0, <2>2, <3>1, <3>2, <3>3, <1>0, <1>b DEF Held, Pending, ShapeOK
    <2> QED BY <2>1, <2>2
  <1>5. HeldRows'
    BY <1>4 DEF HeldRows
  <1>6. Trials'
    <2> SUFFICES ASSUME NEW s \in Requests, req'[s].trial
                 PROVE  TrialEarned(s)'
      BY DEF Trials
    <2>1. req[s].trial /\ Cur(s)' = Cur(s)
      BY <1>0 DEF Cur
    <2> QED BY <2>1 DEF Trials, TrialEarned
  <1> QED BY <1>1, <1>2, <1>3, <1>5, <1>6

\* A row that nobody holds is as committed, for the request that is about to write it too.
LEMMA FreeFacts ==
    ASSUME IInv, NEW r \in Requests, NEW p \in Names, lock[p] = NoRequest
    PROVE  /\ draft[p] = breaker[p] /\ kept[p] = breaker[p] /\ ~firm[p]
           /\ p \notin req[r].cleared
           /\ breaker[p].count <= Base(r, p)
  <1>1. draft[p] = breaker[p] /\ kept[p] = breaker[p] /\ ~firm[p] /\ p \notin req[r].cleared
    BY RequestsAssumption DEF IInv, FreeRows, KeptRows, Control
  <1>2. breaker[p].count <= fails[p]
    BY DEF IInv, CountNeverAhead
  <1>3. breaker[p].count \in Nat /\ fails[p] \in Nat /\ req[r].tallied[p] \in Nat
    BY DEF IInv, TypeOK, Row, Request
  <1>4. Base(r, p) = fails[p] + req[r].tallied[p]
    BY <1>1 DEF Base
  <1> QED BY <1>1, <1>2, <1>3, <1>4

\* A statement that writes row p.
LEMMA WriteStep ==
    ASSUME IInv, NEW r \in Requests, NEW q, LocalsOK(r, q), q.now = req[r].now,
           NEW p \in Names, NEW row \in Row, Write(r, p, row), Become(r, q),
           \A x \in Names \ {p} : lock[x] = r => ShapeOK(draft[x]),
           \/ ShapeOK(row)
           \/ /\ q.pc = "trip" /\ ~q.trial /\ Head(q.todo) = p
              /\ row.state = "CLOSED" /\ row.cooldown = Null,
           row = kept[p] \/ Pending(kept[p], row, q.now),
           row.count <= Base(r, p) + q.counted[p],
           q.trial => /\ Head(q.todo) = p /\ row.state = "HALF_OPEN"
                      /\ kept[p].state \in {"OPEN", "HALF_OPEN"}
                      /\ kept[p].cooldown <= clock
    PROVE  IInv'
  <1> USE DEF LocalsOK, Write, Become, IInv
  <1>0. /\ req \in [Requests -> Request]
        /\ req'[r] = q
        /\ \A s \in Requests : s # r => req'[s] = req[s]
    BY DEF TypeOK
  <1>a. /\ draft'[p] = row /\ lock'[p] = r
        /\ \A x \in Names : x # p => draft'[x] = draft[x] /\ lock'[x] = lock[x]
        /\ \A s \in Requests : s # r => lock[p] # s
        /\ r # NoRequest
    BY RequestsAssumption DEF TypeOK, Free
  <1>b. \A s \in Requests, x \in Names : Base(s, x)' = Base(s, x)
    BY <1>0 DEF Base
  <1>1. TypeOK'
    BY DEF TypeOK
  <1>2. Control'
    <2>1. \A s \in Requests : \A x \in req'[s].cleared : x \in Names /\ lock'[x] = s /\ firm'[x]
      <3> SUFFICES ASSUME NEW s \in Requests, NEW x \in req'[s].cleared
                   PROVE  x \in Names /\ lock'[x] = s /\ firm'[x]
        OBVIOUS
      <3>1. x \in req[s].cleared
        BY <1>0
      <3>2. x \in Names /\ lock[x] = s /\ firm[x]
        BY <3>1, ClearedHeld
      <3> QED BY <3>2, <1>a
    <2> QED BY <1>0, <2>1 DEF Control, TypeOK
  <1>3. CommittedRowsOK' /\ CountNeverAhead' /\ KeptRows'
    BY DEF CommittedRowsOK, CountNeverAhead, KeptRows, ShapeOK
  <1>4. FreeRows'
    BY <1>a DEF FreeRows
  <1>5. ASSUME NEW s \in Requests, NEW x \in Names, lock'[x] = s
        PROVE  Held(s, x)'
    <2>1. CASE s # r
      <3>1. x # p /\ Held(s, x)
        BY <1>5, <1>a, <2>1 DEF HeldRows
      <3> QED
        BY <3>1, <2>1, <1>0, <1>a, <1>b DEF Held, AtThreshold, Pending, ShapeOK, Cur
    <2>2. CASE s = r /\ x # p
      <3>1. Held(s, x) /\ ShapeOK(draft[x])
        BY <1>5, <1>a, <2>2 DEF HeldRows
      <3>2. draft[x].count <= Base(r, x) + req[r].counted[x]
        BY <3>1, <2>2 DEF Held
      <3>3. /\ draft[x].count \in Nat /\ Base(r, x) \in Nat
            /\ req[r].counted[x] \in Nat /\ q.counted[x] \in Nat
            /\ req[r].counted[x] <= q.counted[x]
        <4>1. q.counted[x] \in Nat
          BY DEF Request
        <4> QED BY <4>1, CountTypes
      <3>4. draft[x].count <= Base(r, x) + q.counted[x]
        BY <3>2, <3>3
      <3>5. draft[x] = kept[x] \/ Pending(kept[x], draft[x], q.now)
        BY <2>2, <3>1 DEF Held
      <3> QED
        BY <2>2, <3>1, <3>4, <3>5, <1>0, <1>a, <1>b DEF Held, Pending, ShapeOK
    <2>3. CASE s = r /\ x = p
      <3>1. kept[p].count <= Base(r, p)
        <4>1. CASE lock[p] = r
          BY <4>1 DEF HeldRows, Held
        <4>2. CASE lock[p] = NoRequest
          BY <4>2, FreeFacts
        <4> QED BY <4>1, <4>2 DEF Free
      <3> QED
        BY <2>3, <3>1, <1>0, <1>a, <1>b DEF Held, AtThreshold, Pending, ShapeOK, Cur
    <2> QED BY <2>1, <2>2, <2>3
  <1>6. HeldRows'
    BY <1>5 DEF HeldRows
  <1>7. Trials'
    <2> SUFFICES ASSUME NEW s \in Requests, req'[s].trial
                 PROVE  TrialEarned(s)'
      BY DEF Trials
    <2>1. CASE s = r
      BY <2>1, <1>0, <1>a DEF TrialEarned, Cur
    <2>2. CASE s # r
      <3>1. req[s].trial /\ Cur(s)' = Cur(s) /\ Cur(s) \in Names
        BY <2>2, <1>0, CurType DEF Cur, Control
      <3> QED BY <3>1, <2>2, <1>a DEF Trials, TrialEarned
    <2> QED BY <2>1, <2>2
  <1> QED BY <1>1, <1>2, <1>3, <1>4, <1>6, <1>7

\* Whoever releases rows holds none, and the rows of its peers stay theirs.
LEMMA ReleaseFacts ==
    ASSUME TypeOK, NEW r \in Requests, Release(r)
    PROVE  /\ lock' \in [Names -> Requests \cup {NoRequest}]
           /\ firm' \in [Names -> BOOLEAN]
           /\ \A x \in Names : lock[x] = r => lock'[x] = NoRequest /\ ~firm'[x]
           /\ \A x \in Names : lock[x] # r => lock'[x] = lock[x] /\ firm'[x] = firm[x]
           /\ \A x \in Names : lock'[x] # r
  BY RequestsAssumption DEF TypeOK, Release

\* What a peer of a request that ends holds stays held as it was.
LEMMA PeersKeep ==
    ASSUME IInv, NEW r \in Requests, NEW q, Become(r, q), q.trial = FALSE,
           UNCHANGED clock,
           \A x \in Names : lock'[x] # r,
           \A x \in Names : lock[x] # r =>
              /\ lock'[x] = lock[x] /\ firm'[x] = firm[x]
              /\ draft'[x] = draft[x] /\ kept'[x] = kept[x]
              /\ fails[x] <= fails'[x] /\ fails'[x] \in Nat,
           \A x \in Names : lock[x] = r => lock'[x] = NoRequest
    PROVE  HeldRows' /\ Trials'
  <1> USE DEF IInv, Become
  <1>0. /\ req \in [Requests -> Request]
        /\ req'[r] = q
        /\ \A s \in Requests : s # r => req'[s] = req[s]
    BY DEF TypeOK
  <1>1. ASSUME NEW s \in Requests, NEW x \in Names, lock'[x] = s
        PROVE  Held(s, x)'
    <2>1. s # r /\ lock[x] = s
      BY <1>1, RequestsAssumption
    <2>2. /\ Held(s, x) /\ draft'[x] = draft[x] /\ kept'[x] = kept[x]
          /\ firm'[x] = firm[x] /\ req'[s] = req[s]
      BY <2>1, <1>0 DEF HeldRows
    <2>3. /\ Base(s, x)' \in Nat /\ Base(s, x) \in Nat /\ Base(s, x) <= Base(s, x)'
      <3>1. fails[x] <= fails'[x] /\ fails[x] \in Nat /\ fails'[x] \in Nat
        BY <2>1 DEF TypeOK
      <3>2. req[s].tallied[x] \in Nat
        BY <1>0 DEF Request
      <3>3. CASE x \in req[s].cleared
        BY <2>2, <3>2, <3>3 DEF Base
      <3>4. CASE x \notin req[s].cleared
        <4>1. Base(s, x) = fails[x] + req[s].tallied[x]
              /\ Base(s, x)' = fails'[x] + req[s].tallied[x]
          BY <2>2, <3>4 DEF Base
        <4> QED BY <3>1, <3>2, <4>1
      <3> QED BY <3>3, <3>4
    <2>4. /\ kept[x].count <= Base(s, x)' /\ draft[x].count <= Base(s, x)' + req[s].counted[x]
      <3>1. kept[x].count \in Nat /\ draft[x].count \in Nat /\ req[s].counted[x] \in Nat
        BY <1>0 DEF TypeOK, Row, Request
      <3>2. kept[x].count <= Base(s, x) /\ draft[x].count <= Base(s, x) + req[s].counted[x]
        BY <2>2 DEF Held
      <3> QED BY <2>3, <3>1, <3>2
    <2>5. Cur(s)' = Cur(s)
      BY <2>2 DEF Cur
    <2> QED BY <2>2, <2>4, <2>5 DEF Held, AtThreshold, Pending, ShapeOK
  <1>2. HeldRows'
    BY <1>1 DEF HeldRows
  <1>3. Trials'
    <2> SUFFICES ASSUME NEW s \in Requests, req'[s].trial
                 PROVE  TrialEarned(s)'
      BY DEF Trials
    <2>1. s # r /\ req[s].trial /\ Cur(s)' = Cur(s) /\ Cur(s) \in Names
      BY <1>0, CurType DEF Cur, Control
    <2>2. lock[Cur(s)] = s /\ TrialEarned(s)
      BY <2>1 DEF Trials, TrialEarned
    <2>3. /\ lock'[Cur(s)] = s /\ draft'[Cur(s)] = draft[Cur(s)] /\ kept'[Cur(s)] = kept[Cur(s)]
      BY <2>1, <2>2
    <2> QED BY <2>1, <2>2, <2>3 DEF TrialEarned
  <1> QED BY <1>2, <1>3

\* The transaction rolls back and the request is idle.
LEMMA RollbackStep ==
    ASSUME IInv, NEW r \in Requests, Undo(r)
    PROVE  IInv'
  <1> USE DEF Undo, Rollback, Become, IInv
  <1> DEFINE q == Idle
  <1>q. q \in Request /\ q.pc = "idle" /\ q.trial = FALSE /\ q.now = 0 /\ q.cleared = {}
    BY IdleType
  <1>0. /\ req' = [req EXCEPT ![r] = q]
        /\ req \in [Requests -> Request]
        /\ req'[r] = q
        /\ \A s \in Requests : s # r => req'[s] = req[s]
    BY DEF TypeOK
  <1> HIDE DEF q
  <1>a. /\ lock' \in [Names -> Requests \cup {NoRequest}]
        /\ firm' \in [Names -> BOOLEAN]
        /\ \A x \in Names : lock[x] = r => lock'[x] = NoRequest /\ ~firm'[x]
                               /\ draft'[x] = breaker[x] /\ kept'[x] = breaker[x]
        /\ \A x \in Names : lock[x] # r => lock'[x] = lock[x] /\ firm'[x] = firm[x]
                               /\ draft'[x] = draft[x] /\ kept'[x] = kept[x]
        /\ \A x \in Names : lock'[x] # r
    BY ReleaseFacts
  <1>1. TypeOK'
    BY <1>q, <1>0, <1>a DEF TypeOK
  <1>2. Control'
    <2>1. \A s \in Requests : \A x \in req'[s].cleared : x \in Names /\ lock'[x] = s /\ firm'[x]
      <3> SUFFICES ASSUME NEW s \in Requests, NEW x \in req'[s].cleared
                   PROVE  x \in Names /\ lock'[x] = s /\ firm'[x]
        OBVIOUS
      <3>1. s # r /\ x \in req[s].cleared
        BY <1>q, <1>0
      <3>2. x \in Names /\ lock[x] = s /\ firm[x]
        BY <3>1, ClearedHeld
      <3> QED BY <3>1, <3>2, <1>a
    <2> QED BY <1>q, <1>0, <2>1 DEF Control, TypeOK
  <1>3. CommittedRowsOK' /\ CountNeverAhead'
    BY DEF CommittedRowsOK, CountNeverAhead, ShapeOK
  <1>4. FreeRows'
    BY <1>a DEF FreeRows
  <1>5. KeptRows'
    BY <1>a DEF KeptRows, CommittedRowsOK, ShapeOK
  <1>6. HeldRows' /\ Trials'
    <2>1. \A x \in Names : fails[x] <= fails'[x] /\ fails'[x] \in Nat
      BY DEF TypeOK
    <2>2. UNCHANGED clock /\ Become(r, q)
      BY <1>0
    <2> QED BY <1>q, <1>a, <2>1, <2>2, PeersKeep
  <1> QED BY <1>1, <1>2, <1>3, <1>4, <1>5, <1>6

\* A nested call is undone: the rows are again as the ended calls left them.
LEMMA UndoCallStep ==
    ASSUME IInv, NEW r \in Requests, UndoCall(r)
    PROVE  IInv'
  <1> USE DEF UndoCall, RollbackCall, Become, IInv
  <1> DEFINE q == Between(req[r])
  <1>p. req[r] \in Request
    BY DEF TypeOK
  <1>q. /\ q \in Request /\ q.pc = "ended" /\ q.trial = FALSE /\ q.now = 0
        /\ q.counted = NoFailures
        /\ q.tallied = req[r].tallied /\ q.cleared = req[r].cleared
    BY <1>p, BetweenType
  <1>0. /\ req' = [req EXCEPT ![r] = q]
        /\ req \in [Requests -> Request]
        /\ req'[r] = q
        /\ \A s \in Requests : s # r => req'[s] = req[s]
    BY DEF TypeOK
  <1> HIDE DEF q
  <1>a. /\ lock' \in [Names -> Requests \cup {NoRequest}]
        /\ \A x \in Names : lock[x] = r => draft'[x] = kept[x]
        /\ \A x \in Names : lock[x] = r /\ ~firm[x] => lock'[x] = NoRequest
        /\ \A x \in Names : lock[x] = r /\ firm[x] => lock'[x] = r
        /\ \A x \in Names : lock[x] # r => lock'[x] = lock[x] /\ draft'[x] = draft[x]
    BY DEF TypeOK
  <1>b. \A s \in Requests, x \in Names : Base(s, x)' = Base(s, x)
    BY <1>0, <1>q DEF Base
  <1>1. TypeOK'
    BY <1>q, <1>0, <1>a DEF TypeOK
  <1>2. Control'
    <2>1. \A s \in Requests : \A x \in req'[s].cleared : x \in Names /\ lock'[x] = s /\ firm'[x]
      <3> SUFFICES ASSUME NEW s \in Requests, NEW x \in req'[s].cleared
                   PROVE  x \in Names /\ lock'[x] = s /\ firm'[x]
        OBVIOUS
      <3>1. x \in req[s].cleared
        BY <1>q, <1>0
      <3>2. x \in Names /\ lock[x] = s /\ firm[x]
        BY <3>1, ClearedHeld
      <3> QED BY <3>2, <1>a
    <2> QED BY <1>q, <1>0, <2>1 DEF Control, TypeOK
  <1>3. CommittedRowsOK' /\ CountNeverAhead' /\ KeptRows'
    BY DEF CommittedRowsOK, CountNeverAhead, KeptRows, ShapeOK
  <1>4. FreeRows'
    BY <1>a, RequestsAssumption DEF FreeRows, KeptRows
  <1>5. ASSUME NEW s \in Requests, NEW x \in Names, lock'[x] = s
        PROVE  Held(s, x)'
    <2>1. CASE s # r
      <3>1. lock[x] = s /\ draft'[x] = draft[x]
        BY <1>5, <1>a, <2>1, RequestsAssumption
      <3>2. Held(s, x)
        BY <3>1 DEF HeldRows
      <3> QED BY <2>1, <3>1, <3>2, <1>0, <1>b DEF Held, AtThreshold, Pending, ShapeOK, Cur
    <2>2. CASE s = r
      <3>1. lock[x] = r /\ firm[x] /\ draft'[x] = kept[x]
        BY <1>5, <1>a, <2>2, RequestsAssumption
      <3>2. kept[x].count <= Base(r, x) /\ ShapeOK(kept[x])
        BY <3>1 DEF HeldRows, Held, KeptRows
      <3>3. kept[x].count \in Nat /\ Base(r, x) \in Nat /\ NoFailures[x] = 0
        BY CountTypes DEF NoFailures
      <3>4. kept[x].count <= Base(r, x) + q.counted[x]
        BY <3>2, <3>3, <1>q
      <3> QED BY <2>2, <3>1, <3>2, <3>4, <1>q, <1>0, <1>b DEF Held, ShapeOK
    <2> QED BY <2>1, <2>2
  <1>6. HeldRows'
    BY <1>5 DEF HeldRows
  <1>7. Trials'
    <2> SUFFICES ASSUME NEW s \in Requests, req'[s].trial
                 PROVE  TrialEarned(s)'
      BY DEF Trials
    <2>1. s # r /\ req[s].trial /\ Cur(s)' = Cur(s) /\ Cur(s) \in Names
      BY <1>q, <1>0, CurType DEF Cur, Control
    <2>2. lock[Cur(s)] = s /\ TrialEarned(s)
      BY <2>1 DEF Trials, TrialEarned
    <2> QED BY <2>1, <2>2, <1>a DEF TrialEarned
  <1> QED BY <1>1, <1>2, <1>3, <1>4, <1>6, <1>7

\* What a call has counted goes over to its transaction, except for the rows it has reset.
LEMMA EndedBase ==
    ASSUME TypeOK, NEW r \in Requests, NEW cleared \in SUBSET Names, EndCall(r, cleared),
           NEW x \in Names
    PROVE  Base(r, x)' = IF x \in cleared THEN 0 ELSE Base(r, x) + req[r].counted[x]
  <1> DEFINE q == Ended(req[r], cleared)
  <1>1. req[r] \in Request
    BY DEF TypeOK
  <1>2. /\ q.cleared = req[r].cleared \cup cleared
        /\ \A p \in Names : q.tallied[p] =
              IF p \in cleared THEN 0 ELSE req[r].tallied[p] + req[r].counted[p]
    BY <1>1, EndedType
  <1>3. req'[r] = q /\ fails' = fails
    BY DEF EndCall, Become, TypeOK
  <1> HIDE DEF q
  <1>4. Base(r, x)' = IF x \in q.cleared THEN q.tallied[x] ELSE fails[x] + q.tallied[x]
    BY <1>3 DEF Base
  <1>5. /\ req[r].tallied[x] \in Nat /\ req[r].counted[x] \in Nat /\ fails[x] \in Nat
    BY CountTypes
  <1>6. CASE x \in cleared
    BY <1>2, <1>4, <1>6
  <1>7. CASE x \notin cleared
    <2>1. q.tallied[x] = req[r].tallied[x] + req[r].counted[x]
          /\ (x \in q.cleared <=> x \in req[r].cleared)
      BY <1>2, <1>7
    <2>2. Base(r, x) = IF x \in req[r].cleared THEN req[r].tallied[x]
                                               ELSE fails[x] + req[r].tallied[x]
      BY DEF Base
    <2> QED BY <1>4, <1>5, <1>7, <2>1, <2>2
  <1> QED BY <1>6, <1>7

\* A call ends inside its transaction: the rows it holds are settled, and it clears at most
\* rows it holds.
LEMMA EndCallStep ==
    ASSUME IInv, NEW r \in Requests, NEW cleared \in SUBSET Names,
           req[r].pc # "idle", EndCall(r, cleared), Settled(r),
           \A p \in cleared : lock[p] = r
    PROVE  IInv'
  <1> USE DEF EndCall, Become, IInv
  <1> DEFINE q == Ended(req[r], cleared)
  <1>p. req[r] \in Request
    BY DEF TypeOK
  <1>q. /\ q \in Request /\ q.pc = "ended" /\ q.trial = FALSE /\ q.now = 0
        /\ q.counted = NoFailures /\ q.cleared = req[r].cleared \cup cleared
        /\ \A p \in Names : q.tallied[p] =
              IF p \in cleared THEN 0 ELSE req[r].tallied[p] + req[r].counted[p]
    BY <1>p, EndedType
  <1>0. /\ req' = [req EXCEPT ![r] = q]
        /\ req \in [Requests -> Request]
        /\ req'[r] = q
        /\ \A s \in Requests : s # r => req'[s] = req[s]
    BY DEF TypeOK
  <1> HIDE DEF q
  <1>a. /\ \A x \in Names : lock[x] = r => firm'[x] = TRUE /\ kept'[x] = draft'[x]
        /\ \A x \in Names : lock[x] # r => firm'[x] = firm[x] /\ kept'[x] = kept[x]
                                           /\ draft'[x] = draft[x]
        /\ \A x \in cleared : draft'[x] = ClosedRow
        /\ \A x \in Names \ cleared : draft'[x] = draft[x]
        /\ lock' = lock /\ clock' = clock /\ fails' = fails /\ breaker' = breaker
    BY DEF TypeOK
  <1>c. ClosedRow \in Row /\ ShapeOK(ClosedRow) /\ ClosedRow.count = 0
    BY NumbersAssumption DEF ClosedRow, Row, States, ShapeOK, Null
  <1>1. TypeOK'
    <2>1. draft' \in [Names -> Row]
      BY <1>c DEF TypeOK
    <2>2. kept' \in [Names -> Row]
      BY <2>1 DEF TypeOK
    <2>3. firm' \in [Names -> BOOLEAN]
      BY DEF TypeOK
    <2> QED BY <1>q, <1>0, <2>1, <2>2, <2>3 DEF TypeOK
  <1>2. Control'
    <2>1. \A s \in Requests : \A x \in req'[s].cleared : x \in Names /\ lock'[x] = s /\ firm'[x]
      <3> SUFFICES ASSUME NEW s \in Requests, NEW x \in req'[s].cleared
                   PROVE  x \in Names /\ lock'[x] = s /\ firm'[x]
        OBVIOUS
      <3>1. CASE s = r /\ x \in cleared
        BY <3>1, <1>a
      <3>2. CASE ~(s = r /\ x \in cleared)
        <4>1. x \in req[s].cleared
          BY <3>2, <1>q, <1>0
        <4>2. x \in Names /\ lock[x] = s /\ firm[x]
          BY <4>1, ClearedHeld
        <4> QED BY <4>2, <1>a
      <3> QED BY <3>1, <3>2
    <2> QED BY <1>q, <1>0, <1>a, <2>1 DEF Control, TypeOK
  <1>3. CommittedRowsOK' /\ CountNeverAhead'
    BY DEF CommittedRowsOK, CountNeverAhead, ShapeOK
  <1>4. FreeRows'
    BY <1>a, RequestsAssumption DEF FreeRows
  <1>d. \A x \in Names : lock[x] = r => ShapeOK(draft'[x])
    BY <1>a, <1>c DEF Settled
  <1>5. KeptRows'
    <2> SUFFICES ASSUME NEW x \in Names
                 PROVE  ShapeOK(kept'[x]) /\ (~firm'[x] => kept'[x] = breaker'[x])
      BY DEF KeptRows, ShapeOK
    <2>1. CASE lock[x] = r
      BY <2>1, <1>a, <1>d
    <2>2. CASE lock[x] # r
      BY <2>2, <1>a DEF KeptRows
    <2> QED BY <2>1, <2>2
  <1>6. ASSUME NEW s \in Requests, NEW x \in Names, lock[x] = s
        PROVE  Held(s, x)'
    <2>1. CASE s # r
      <3>1. Held(s, x)
        BY <1>6 DEF HeldRows
      <3>2. /\ firm'[x] = firm[x] /\ kept'[x] = kept[x] /\ draft'[x] = draft[x]
            /\ req'[s] = req[s]
        BY <1>6, <1>a, <1>0, <2>1
      <3>3. Base(s, x)' = Base(s, x) /\ Cur(s)' = Cur(s)
        BY <3>2, <1>a DEF Base, Cur
      <3> QED BY <3>1, <3>2, <3>3, <1>a DEF Held, AtThreshold, Pending, ShapeOK
    <2>2. CASE s = r
      <3>1. firm'[x] = TRUE /\ kept'[x] = draft'[x] /\ ShapeOK(draft'[x])
        BY <1>6, <2>2, <1>a, <1>d
      <3>2. draft'[x].count <= Base(r, x)'
        <4>1. draft[x].count <= Base(r, x) + req[r].counted[x]
          BY <1>6, <2>2 DEF HeldRows, Held
        <4>2. CASE x \in cleared
          <5>1. Base(r, x)' = 0
            BY <4>2, EndedBase
          <5> QED BY <4>2, <5>1, <1>a, <1>c
        <4>3. CASE x \notin cleared
          <5>1. draft'[x] = draft[x]
            BY <4>3, <1>a
          <5>2. Base(r, x)' = Base(r, x) + req[r].counted[x]
            BY <4>3, EndedBase
          <5> QED BY <4>1, <5>1, <5>2
        <4> QED BY <4>2, <4>3
      <3>3. draft'[x].count <= Base(r, x)' + q.counted[x]
        <4>1. draft'[x].count \in Nat
          BY <1>1 DEF TypeOK, Row
        <4>2. q.tallied[x] \in Nat /\ fails[x] \in Nat
          BY <1>q DEF TypeOK, Request
        <4>3. Base(r, x)' \in Nat
          BY <4>2, <1>0, <1>a DEF Base
        <4>4. q.counted[x] = 0
          BY <1>q DEF NoFailures
        <4> QED BY <4>1, <4>3, <4>4, <3>2
      <3> QED BY <2>2, <3>1, <3>2, <3>3, <1>q, <1>0 DEF Held, ShapeOK
    <2> QED BY <2>1, <2>2
  <1>7. HeldRows'
    BY <1>6, <1>a DEF HeldRows
  <1>8. Trials'
    <2> SUFFICES ASSUME NEW s \in Requests, req'[s].trial
                 PROVE  TrialEarned(s)'
      BY DEF Trials
    <2>1. s # r /\ req[s].trial /\ Cur(s)' = Cur(s) /\ Cur(s) \in Names
      BY <1>q, <1>0, CurType DEF Cur, Control
    <2>2. lock[Cur(s)] = s /\ TrialEarned(s)
      BY <2>1 DEF Trials, TrialEarned
    <2> QED BY <2>1, <2>2, <1>a DEF TrialEarned
  <1> QED BY <1>1, <1>2, <1>3, <1>4, <1>5, <1>7, <1>8

\* The transaction commits what its calls have left.
LEMMA CommitStep ==
    ASSUME IInv, NEW r \in Requests, Commit(r)
    PROVE  IInv'
  <1> USE DEF Commit, Become, IInv
  <1> DEFINE q == Idle
  <1>q. q \in Request /\ q.pc = "idle" /\ q.trial = FALSE /\ q.now = 0 /\ q.cleared = {}
    BY IdleType
  <1>0. /\ req' = [req EXCEPT ![r] = q]
        /\ req \in [Requests -> Request]
        /\ req'[r] = q
        /\ \A s \in Requests : s # r => req'[s] = req[s]
    BY DEF TypeOK
  <1> HIDE DEF q
  <1>a. /\ lock' \in [Names -> Requests \cup {NoRequest}]
        /\ firm' \in [Names -> BOOLEAN]
        /\ \A x \in Names : lock[x] = r => lock'[x] = NoRequest /\ ~firm'[x]
        /\ \A x \in Names : lock[x] # r => lock'[x] = lock[x] /\ firm'[x] = firm[x]
        /\ \A x \in Names : lock'[x] # r
    BY ReleaseFacts
  <1>b. /\ \A x \in Names : lock[x] = r => breaker'[x] = draft[x]
        /\ \A x \in Names : lock[x] # r => breaker'[x] = breaker[x]
        /\ \A x \in Names : fails'[x] = Base(r, x)
        /\ draft' = draft /\ kept' = kept /\ clock' = clock
    OBVIOUS
  <1>c. \A x \in Names : lock[x] = r =>
           ShapeOK(draft[x]) /\ draft[x] = kept[x] /\ draft[x].count <= Base(r, x)
    BY DEF HeldRows, Held, KeptRows
  <1>d. \A x \in Names : lock[x] # r => fails[x] <= fails'[x]
    <2> SUFFICES ASSUME NEW x \in Names, lock[x] # r
                 PROVE  fails[x] <= fails'[x]
      OBVIOUS
    <2>1. x \notin req[r].cleared /\ req[r].tallied[x] \in Nat /\ fails[x] \in Nat
      BY <1>0 DEF Control, TypeOK, Request
    <2> QED BY <2>1, <1>b DEF Base
  <1>1. TypeOK'
    <2>1. breaker' \in [Names -> Row]
      BY DEF TypeOK
    <2>2. fails' \in [Names -> Nat]
      <3>1. \A x \in Names : Base(r, x) \in Nat
        BY <1>0 DEF TypeOK, Request, Base
      <3> QED BY <3>1
    <2> QED BY <1>q, <1>0, <1>a, <2>1, <2>2 DEF TypeOK
  <1>2. Control'
    <2>1. \A s \in Requests : \A x \in req'[s].cleared : x \in Names /\ lock'[x] = s /\ firm'[x]
      <3> SUFFICES ASSUME NEW s \in Requests, NEW x \in req'[s].cleared
                   PROVE  x \in Names /\ lock'[x] = s /\ firm'[x]
        OBVIOUS
      <3>1. s # r /\ x \in req[s].cleared
        BY <1>q, <1>0
      <3>2. x \in Names /\ lock[x] = s /\ firm[x]
        BY <3>1, ClearedHeld
      <3> QED BY <3>1, <3>2, <1>a
    <2> QED BY <1>q, <1>0, <2>1 DEF Control, TypeOK
  <1>3. CommittedRowsOK'
    <2> SUFFICES ASSUME NEW x \in Names PROVE ShapeOK(breaker'[x])
      BY DEF CommittedRowsOK, ShapeOK
    <2> QED BY <1>b, <1>c DEF CommittedRowsOK
  <1>4. CountNeverAhead'
    <2> SUFFICES ASSUME NEW x \in Names PROVE breaker'[x].count <= fails'[x]
      BY DEF CountNeverAhead
    <2>1. CASE lock[x] = r
      BY <2>1, <1>b, <1>c
    <2>2. CASE lock[x] # r
      <3>1. breaker[x].count <= fails[x] /\ fails[x] <= fails'[x]
        BY <2>2, <1>d DEF CountNeverAhead
      <3>2. breaker[x].count \in Nat /\ fails[x] \in Nat /\ fails'[x] \in Nat
        BY <1>1 DEF TypeOK, Row
      <3> QED BY <2>2, <3>1, <3>2, <1>b
    <2> QED BY <2>1, <2>2
  <1>5. FreeRows' /\ KeptRows'
    <2>1. ASSUME NEW x \in Names, lock[x] = r
          PROVE  draft'[x] = breaker'[x] /\ kept'[x] = breaker'[x] /\ ShapeOK(kept'[x])
      BY <2>1, <1>b, <1>c
    <2>2. ASSUME NEW x \in Names, lock[x] # r
          PROVE  /\ lock'[x] = NoRequest => draft'[x] = breaker'[x] /\ ~firm'[x]
                 /\ ShapeOK(kept'[x]) /\ (~firm'[x] => kept'[x] = breaker'[x])
      BY <2>2, <1>a, <1>b DEF FreeRows, KeptRows
    <2> QED BY <1>a, <2>1, <2>2 DEF FreeRows, KeptRows, ShapeOK
  <1>6. HeldRows' /\ Trials'
    <2>1. \A x \in Names : lock[x] # r =>
             /\ lock'[x] = lock[x] /\ firm'[x] = firm[x]
             /\ draft'[x] = draft[x] /\ kept'[x] = kept[x]
             /\ fails[x] <= fails'[x] /\ fails'[x] \in Nat
      BY <1>1, <1>a, <1>b, <1>d DEF TypeOK
    <2>2. Become(r, q) /\ UNCHANGED clock
      BY <1>0
    <2>3. /\ \A x \in Names : lock'[x] # r
          /\ \A x \in Names : lock[x] = r => lock'[x] = NoRequest
      BY <1>a
    <2> HIDE DEF Commit, Become
    <2> QED BY <1>q, <2>1, <2>2, <2>3, PeersKeep
  <1> QED BY <1>1, <1>2, <1>3, <1>4, <1>5, <1>6

----------------------------------------------------------------------------
\* Only at the trip statement can a row that r holds be unsettled.
LEMMA SettledWhen ==
    ASSUME IInv, NEW r \in Requests
    PROVE  /\ req[r].pc # "trip" => Settled(r)
           /\ req[r].pc = "trip" /\ Seen(r, Cur(r)).state # Observed(r) => Settled(r)
           /\ \A x \in Names \ {Cur(r)} : lock[x] = r => ShapeOK(draft[x])
  BY DEF IInv, HeldRows, Held, AtThreshold, Settled, Seen, Observed

\* What is known of the row that r may write.
LEMMA SeenFacts ==
    ASSUME IInv, NEW r \in Requests, req[r].pc \notin {"idle", "gate", "ended"}
    PROVE  LET p == Cur(r)
               row == Seen(r, p) IN
           /\ p \in Names /\ row \in Row /\ kept[p] \in Row
           /\ Base(r, p) \in Nat /\ req[r].counted[p] \in Nat
           /\ req[r] \in Request /\ req[r].todo # <<>> /\ req[r].todo \in Seq(Names)
           /\ req[r].now \in Nat /\ clock \in Nat /\ req[r].now <= clock
           /\ Free(r, p) => /\ row = kept[p] \/ Pending(kept[p], row, req[r].now)
                            /\ row.count <= Base(r, p) + req[r].counted[p]
           /\ req[r].pc # "trip" => ShapeOK(row)
  <1> DEFINE p == Cur(r)
             row == Seen(r, p)
  <1>1. /\ req[r] \in Request /\ req[r].todo # <<>>
        /\ req[r].now <= clock /\ clock \in Nat
    BY DEF IInv, TypeOK, Control
  <1>2. p \in Names
    BY <1>1, CurType DEF IInv
  <1>3. row \in Row /\ kept[p] \in Row
    BY <1>2 DEF IInv, TypeOK, Seen
  <1>4. Base(r, p) \in Nat /\ req[r].counted[p] \in Nat
    BY <1>2, CountTypes DEF IInv
  <1>5. ASSUME Free(r, p)
        PROVE  /\ row = kept[p] \/ Pending(kept[p], row, req[r].now)
               /\ row.count <= Base(r, p) + req[r].counted[p]
    <2>1. CASE lock[p] = r
      BY <2>1, <1>2 DEF IInv, HeldRows, Held, Seen
    <2>2. CASE lock[p] # r
      <3>1. lock[p] = NoRequest /\ row = breaker[p]
        BY <1>5, <2>2 DEF Free, Seen
      <3>2. kept[p] = row /\ row.count <= Base(r, p)
        BY <3>1, <1>2, FreeFacts
      <3>3. row.count \in Nat
        BY <1>3 DEF Row
      <3> HIDE DEF row, p
      <3> QED BY <3>2, <3>3, <1>4
    <2> QED BY <2>1, <2>2
  <1>6. ASSUME req[r].pc # "trip"
        PROVE  ShapeOK(row)
    BY <1>6, <1>2, SettledWhen DEF Settled, Seen, IInv, CommittedRowsOK
  <1>7. req[r].todo \in Seq(Names) /\ req[r].now \in Nat
    BY <1>1 DEF Request
  <1> QED BY <1>1, <1>2, <1>3, <1>4, <1>5, <1>6, <1>7

\* Initially there are no rows and no requests.
LEMMA InitInv == Init => IInv
  <1> SUFFICES ASSUME Init PROVE IInv
    OBVIOUS
  <1> USE DEF Init
  <1>1. Idle \in Request /\ NoRow \in Row
    BY IdleType DEF NoRow, Row, States
  <1>2. TypeOK
    BY <1>1 DEF TypeOK, NoFailures
  <1>3. Control /\ Trials
    BY IdleType DEF Control, Trials
  <1>4. CommittedRowsOK /\ CountNeverAhead /\ FreeRows /\ KeptRows
    BY DEF CommittedRowsOK, CountNeverAhead, FreeRows, KeptRows, ShapeOK, NoRow, NoFailures
  <1>5. HeldRows
    BY RequestsAssumption DEF HeldRows
  <1> QED BY <1>2, <1>3, <1>4, <1>5 DEF IInv

\* A request begins: it holds no row yet.
LEMMA BeginStep ==
    ASSUME IInv, NEW r \in Requests, Begin(r)
    PROVE  IInv'
  <1> USE DEF IInv
  <1>1. PICK chain \in Chains, lane \in Lanes :
           req' = [req EXCEPT ![r] = [Idle EXCEPT
                     !.pc = "gate", !.lane = lane, !.now = clock, !.todo = chain,
                     !.calls = IF lane = "nested" THEN MaxCalls - 1 ELSE 0]]
    BY DEF Begin, Become
  <1>f. /\ req[r].pc = "idle" /\ started' = started + 1
        /\ UNCHANGED <<clock, breaker, draft, kept, lock, firm, fails>>
    BY DEF Begin
  <1> DEFINE calls == IF lane = "nested" THEN MaxCalls - 1 ELSE 0
             q == [Idle EXCEPT !.pc = "gate", !.lane = lane, !.now = clock, !.todo = chain,
                               !.calls = calls]
  <1>2. /\ q \in Request /\ q.pc = "gate" /\ q.now = clock /\ q.trial = FALSE
        /\ q.cleared = {} /\ q.tallied = NoFailures
    <2>1. chain \in Seq(Names) /\ lane \in {"route", "structured", "nested"} /\ clock \in Nat
      BY NamesAssumption, LanesAssumption DEF TypeOK
    <2>2. calls \in Nat
      <3>1. MaxCalls \in Nat \ {0}
        BY NumbersAssumption
      <3> QED BY <3>1
    <2>3. "gate" \in PCs
      BY DEF PCs
    <2> HIDE DEF calls
    <2> QED BY <2>1, <2>2, <2>3, IdleType DEF Request
  <1>3. req' = [req EXCEPT ![r] = q]
    BY <1>1
  <1> HIDE DEF q
  <1>0. /\ req \in [Requests -> Request]
        /\ req'[r] = q
        /\ \A s \in Requests : s # r => req'[s] = req[s]
    BY <1>3 DEF TypeOK
  <1>4. TypeOK'
    BY <1>2, <1>3, <1>f DEF TypeOK
  <1>5. Control'
    <2>1. \A s \in Requests : \A x \in req'[s].cleared : lock'[x] = s /\ firm'[x]
      BY <1>0, <1>2, <1>f DEF Control
    <2> QED BY <1>0, <1>2, <1>f, <2>1 DEF Control, TypeOK
  <1>6. CommittedRowsOK' /\ CountNeverAhead' /\ FreeRows' /\ KeptRows'
    BY <1>f DEF CommittedRowsOK, CountNeverAhead, FreeRows, KeptRows, ShapeOK
  <1>7. HeldRows'
    <2> SUFFICES ASSUME NEW s \in Requests, NEW x \in Names, lock[x] = s
                 PROVE  Held(s, x)'
      BY <1>f DEF HeldRows
    <2>1. Held(s, x) /\ s # r
      BY <1>f DEF HeldRows, Held
    <2>2. Base(s, x)' = Base(s, x)
      BY <2>1, <1>0, <1>f DEF Base
    <2> QED BY <2>1, <2>2, <1>0, <1>f DEF Held, AtThreshold, Pending, ShapeOK, Cur
  <1>8. Trials'
    <2> SUFFICES ASSUME NEW s \in Requests, req'[s].trial
                 PROVE  TrialEarned(s)'
      BY DEF Trials
    <2>1. req[s].trial /\ Cur(s)' = Cur(s)
      BY <1>0, <1>2 DEF Cur
    <2> QED BY <2>1, <1>f DEF Trials, TrialEarned
  <1> QED BY <1>4, <1>5, <1>6, <1>7, <1>8

\* The next call of an extraction begins: what the transaction holds is settled.
LEMMA NextCallStep ==
    ASSUME IInv, NEW r \in Requests, NextCall(r)
    PROVE  IInv'
  <1>1. PICK chain \in Chains :
           Become(r, [req[r] EXCEPT !.pc = "gate", !.now = clock, !.todo = chain,
                                    !.calls = @ - 1])
    BY DEF NextCall
  <1>2. NoWrite /\ req[r].pc = "ended" /\ req[r].calls > 0
    BY DEF NextCall
  <1>3. req[r] \in Request /\ clock \in Nat /\ chain \in Seq(Names)
    BY NamesAssumption DEF IInv, TypeOK
  <1>4. req[r].calls - 1 \in Nat /\ "gate" \in PCs
    BY <1>2, <1>3 DEF Request, PCs
  <1> DEFINE calls == req[r].calls - 1
             q == [req[r] EXCEPT !.pc = "gate", !.now = clock, !.todo = chain, !.calls = calls]
  <1>5. Become(r, q)
    BY <1>1
  <1> HIDE DEF calls
  <1>6. /\ q \in Request /\ q.pc = "gate" /\ q.now = clock /\ q.trial = req[r].trial
        /\ q.counted = req[r].counted /\ q.tallied = req[r].tallied
        /\ q.cleared = req[r].cleared
    BY <1>3, <1>4 DEF Request, calls
  <1> HIDE DEF q
  <1>7. req[r].trial = FALSE
    BY <1>2, <1>3 DEF IInv, Control, Request
  <1>8. \A p \in Names : req[r].counted[p] <= q.counted[p]
    BY <1>3, <1>6 DEF Request
  <1>9. LocalsOK(r, q)
    BY <1>2, <1>6, <1>7, <1>8 DEF LocalsOK
  <1>10. Settled(r)
    BY <1>2, SettledWhen
  <1> QED BY <1>2, <1>5, <1>6, <1>7, <1>9, <1>10, LocalStep

\* Time passes: readings of the clock only get older, expired cooldowns stay expired.
LEMMA TickStep ==
    ASSUME IInv, Tick
    PROVE  IInv'
  <1> USE DEF IInv, Tick
  <1>1. TypeOK'
    BY DEF TypeOK
  <1>2. Control'
    <2> SUFFICES ASSUME NEW s \in Requests PROVE req[s].now <= clock + 1
      BY DEF Control
    <2>1. req[s].now \in Nat /\ clock \in Nat /\ req[s].now <= clock
      BY DEF TypeOK, Control, Request
    <2> QED BY <2>1
  <1>3. CommittedRowsOK' /\ CountNeverAhead' /\ FreeRows' /\ KeptRows'
    BY DEF CommittedRowsOK, CountNeverAhead, FreeRows, KeptRows, ShapeOK
  <1>4. HeldRows'
    <2> SUFFICES ASSUME NEW s \in Requests, NEW x \in Names, lock[x] = s
                 PROVE  Held(s, x)'
      BY DEF HeldRows
    <2>1. Held(s, x) /\ kept[x] \in Row /\ clock \in Nat
      BY DEF HeldRows, TypeOK
    <2>2. (draft[x] = kept[x] \/ Pending(kept[x], draft[x], req[s].now))'
      BY <2>1 DEF Held, Pending, Row, Null
    <2>3. Base(s, x)' = Base(s, x)
      BY DEF Base
    <2> QED BY <2>1, <2>2, <2>3 DEF Held, AtThreshold, ShapeOK, Cur
  <1>5. Trials'
    <2> SUFFICES ASSUME NEW s \in Requests, req[s].trial
                 PROVE  TrialEarned(s)'
      BY DEF Trials
    <2>1. TrialEarned(s) /\ kept[Cur(s)] \in Row /\ clock \in Nat
      BY CurType DEF Trials, Control, TypeOK
    <2> QED BY <2>1 DEF TrialEarned, Cur, Row, Null
  <1> QED BY <1>1, <1>2, <1>3, <1>4, <1>5

----------------------------------------------------------------------------
\* Actions that move the locals only.
LEMMA MovesOn ==
    ASSUME IInv, NEW r \in Requests, NEW q \in Request,
           req[r].pc \notin {"idle", "trip", "ended"}, NoWrite,
           req[r].todo # <<>>, q.todo = req[r].todo, q.now = req[r].now,
           q.trial = req[r].trial, q.counted = req[r].counted,
           q.tallied = req[r].tallied, q.cleared = req[r].cleared,
           \/ Become(r, Advance(q))
           \/ /\ Become(r, q) /\ q.pc \in {"claim", "call", "ensure", "insert", "count"}
              /\ q.trial => q.pc # "claim"
              /\ q.pc = "ensure" => q.wait > 0
    PROVE  IInv'
  <1>1. Settled(r)
    BY SettledWhen
  <1>2. \A p \in Names : req[r].counted[p] <= req[r].counted[p]
    BY DEF IInv, TypeOK, Request
  <1>3. CASE Become(r, Advance(q))
    <2> DEFINE n == Advance(q)
    <2>1. /\ n \in Request /\ n.pc = "gate" /\ n.trial = FALSE
          /\ n.now = q.now /\ n.counted = q.counted
          /\ n.tallied = q.tallied /\ n.cleared = q.cleared
      BY AdvanceType
    <2> HIDE DEF n
    <2>2. LocalsOK(r, n)
      BY <2>1, <1>2 DEF LocalsOK
    <2>3. Become(r, n)
      BY <1>3 DEF n
    <2> QED BY <2>1, <2>2, <2>3, <1>1, LocalStep
  <1>4. CASE /\ Become(r, q) /\ q.pc \in {"claim", "call", "ensure", "insert", "count"}
             /\ q.trial => q.pc # "claim"
             /\ q.pc = "ensure" => q.wait > 0
    <2>1. LocalsOK(r, q)
      BY <1>2, <1>4 DEF LocalsOK
    <2>2. q.trial => req[r].trial /\ Head(q.todo) = Cur(r)
      BY DEF Cur
    <2> QED BY <2>1, <2>2, <1>1, <1>4, LocalStep
  <1> QED BY <1>3, <1>4

\* The cooldown of a 429 is at least the floor, whatever Retry-After says.
LEMMA CooldownIsFloored ==
    ASSUME NEW p \in Names, NEW after \in RetryAfters
    PROVE  /\ CooldownFor(p, after) \in Nat /\ CooldownFor(p, after) >= CooldownFloor
           /\ CooldownFor(p, after) > 0
  <1> DEFINE product == after * Jitter[p]
  <1>1. product \in Int /\ CooldownFloor \in Nat \ {0}
    BY NumbersAssumption DEF Null
  <1>2. CooldownFor(p, after) = IF after # Null /\ product \div 100 > CooldownFloor
                                THEN product \div 100 ELSE CooldownFloor
    BY DEF CooldownFor
  <1> HIDE DEF product
  <1> QED BY <1>1, <1>2

\* The steps of the loop that write no breaker row.
LEMMA ReadSteps ==
    ASSUME IInv, NEW r \in Requests,
           \/ SkipUnregistered(r) \/ HandleBreakers(r) \/ KeyRejected(r) \/ Unavailable(r)
           \/ ShapeFailure(r) \/ RateLimited(r) \/ CountedFailure(r)
    PROVE  IInv'
  <1>0. req[r] \in Request /\ req \in [Requests -> Request]
    BY DEF IInv, TypeOK
  <1>a. req[r].pc = "gate" => req[r].trial = FALSE
    BY <1>0 DEF IInv, Control, Request
  <1>b. req[r].pc = "call" => req[r].todo # <<>> /\ Cur(r) \in Names /\ Seen(r, Cur(r)) \in Row
    BY SeenFacts DEF IInv, Control
  <1> USE <1>0
  <1>1. CASE SkipUnregistered(r)
    BY <1>1, MovesOn DEF SkipUnregistered, AtGate
  <1>2. CASE HandleBreakers(r)
    <2>1. AtGate(r) /\ NoWrite
      BY <1>2 DEF HandleBreakers
    <2>2. CASE Become(r, Advance(req[r]))
      BY <2>1, <2>2, MovesOn DEF AtGate
    <2>3. ASSUME NEW pc \in {"call", "claim"}, Become(r, [req[r] EXCEPT !.pc = pc])
          PROVE  IInv'
      <3> DEFINE q == [req[r] EXCEPT !.pc = pc]
      <3>1. /\ q \in Request /\ q.pc = pc /\ q.todo = req[r].todo /\ q.now = req[r].now
            /\ q.trial = req[r].trial /\ q.counted = req[r].counted
            /\ q.tallied = req[r].tallied /\ q.cleared = req[r].cleared
        BY DEF Request, PCs
      <3> HIDE DEF q
      <3>2. Become(r, q)
        BY <2>3 DEF q
      <3> QED BY <2>1, <3>1, <3>2, <1>a, MovesOn DEF AtGate
    <2> QED BY <1>2, <2>2, <2>3 DEF HandleBreakers
  <1>3. CASE KeyRejected(r) \/ Unavailable(r)
    <2>1. NoWrite /\ req[r].pc = "call" /\ Become(r, Advance(req[r]))
      BY <1>3 DEF KeyRejected, Unavailable
    <2> QED BY <2>1, <1>b, MovesOn
  <1>4. CASE ShapeFailure(r)
    <2> DEFINE n == [req[r] EXCEPT !.repairs = @ + 1]
    <2>1. NoWrite /\ req[r].pc = "call"
      BY <1>4 DEF ShapeFailure
    <2>2. Become(r, Advance(req[r])) \/ Become(r, n)
      BY <1>4 DEF ShapeFailure
    <2>3. /\ n \in Request /\ n.pc = "call" /\ n.todo = req[r].todo /\ n.now = req[r].now
          /\ n.trial = req[r].trial /\ n.counted = req[r].counted
          /\ n.tallied = req[r].tallied /\ n.cleared = req[r].cleared
      BY <2>1, RepairType
    <2> HIDE DEF n
    <2>4. CASE Become(r, Advance(req[r]))
      BY <2>1, <2>4, <1>b, MovesOn
    <2>5. CASE Become(r, n)
      BY <2>1, <2>3, <2>5, <1>b, MovesOn
    <2> QED BY <2>2, <2>4, <2>5
  <1>5. CASE RateLimited(r)
    <2>1. PICK after \in RetryAfters :
             Become(r, [req[r] EXCEPT !.pc = "ensure", !.wait = CooldownFor(Cur(r), after)])
      BY <1>5 DEF RateLimited
    <2>2. NoWrite /\ req[r].pc = "call"
      BY <1>5 DEF RateLimited
    <2> DEFINE q == [req[r] EXCEPT !.pc = "ensure", !.wait = CooldownFor(Cur(r), after)]
    <2>3. CooldownFor(Cur(r), after) \in Nat /\ CooldownFor(Cur(r), after) > 0
      BY <2>2, <1>b, CooldownIsFloored
    <2>4. /\ q \in Request /\ q.pc = "ensure" /\ q.wait > 0
          /\ q.todo = req[r].todo /\ q.now = req[r].now
          /\ q.trial = req[r].trial /\ q.counted = req[r].counted
          /\ q.tallied = req[r].tallied /\ q.cleared = req[r].cleared
      BY <2>3 DEF Request, PCs
    <2>5. Become(r, q)
      BY <2>1
    <2> HIDE DEF q
    <2> QED BY <2>2, <2>4, <2>5, <1>b, MovesOn
  <1>6. CASE CountedFailure(r)
    <2>1. NoWrite /\ req[r].pc = "call" /\ Seen(r, Cur(r)).count \in Nat
      BY <1>6, <1>b DEF CountedFailure, Row
    <2>2. ASSUME NEW pc \in {"insert", "count"},
                 Become(r, [req[r] EXCEPT !.pc = pc, !.seen = Seen(r, Cur(r)).count])
          PROVE  IInv'
      <3> DEFINE q == [req[r] EXCEPT !.pc = pc, !.seen = Seen(r, Cur(r)).count]
      <3>1. /\ q \in Request /\ q.pc = pc /\ q.todo = req[r].todo /\ q.now = req[r].now
            /\ q.trial = req[r].trial /\ q.counted = req[r].counted
            /\ q.tallied = req[r].tallied /\ q.cleared = req[r].cleared
        BY <2>1 DEF Request, PCs
      <3> HIDE DEF q
      <3>2. Become(r, q)
        BY <2>2 DEF q
      <3> QED BY <2>1, <3>1, <3>2, <1>b, MovesOn
    <2> QED BY <1>6, <2>2 DEF CountedFailure
  <1> QED BY <1>1, <1>2, <1>3, <1>4, <1>5, <1>6

\* claim_trial: the trial is earned by the expired cooldown of the row that it finds.
LEMMA ClaimStep ==
    ASSUME IInv, NEW r \in Requests, ClaimTrial(r)
    PROVE  IInv'
  <1> DEFINE p == Cur(r)
             row == Seen(r, p)
             new == ClaimedRow(row, req[r].now)
             q == [req[r] EXCEPT !.pc = "call", !.trial = TRUE]
  <1>c. req[r].pc = "claim"
    BY DEF ClaimTrial
  <1>0. /\ req[r].pc = "claim" /\ req[r] \in Request
        /\ \A x \in Names \ {p} : lock[x] = r => ShapeOK(draft[x])
        /\ \A x \in Names : req[r].counted[x] <= req[r].counted[x]
        /\ req[r].todo # <<>>
    <2>1. req[r] \in Request /\ req[r].todo # <<>>
      BY <1>c DEF IInv, TypeOK, Control
    <2>2. \A x \in Names : req[r].counted[x] <= req[r].counted[x]
      BY <2>1 DEF Request
    <2> QED BY <1>c, <2>1, <2>2, SettledWhen
  <1>1. CASE ClaimHits(row, req[r].now) /\ Write(r, p, new) /\ Become(r, q)
    <2>0. /\ p \in Names /\ row \in Row /\ kept[p] \in Row /\ ShapeOK(row)
          /\ Base(r, p) \in Nat /\ req[r].counted[p] \in Nat
          /\ req[r].now \in Nat /\ clock \in Nat /\ req[r].now <= clock
          /\ row = kept[p] \/ Pending(kept[p], row, req[r].now)
          /\ row.count <= Base(r, p) + req[r].counted[p]
      BY <1>0, <1>1, SeenFacts DEF Write
    <2>1. /\ new \in Row /\ new.state = "HALF_OPEN" /\ new.count = row.count
          /\ new.cooldown = req[r].now + TrialWindow /\ new.cooldown # Null
      BY <2>0, ClaimedRowType
    <2>2. /\ row.state \in {"OPEN", "HALF_OPEN"} /\ row.cooldown <= req[r].now
          /\ row.cooldown \in Int /\ kept[p].cooldown \in Int
      BY <1>1, <2>0 DEF ClaimHits, Null, Row
    <2>3. kept[p].state \in {"OPEN", "HALF_OPEN"} /\ kept[p].cooldown <= clock
      BY <2>0, <2>2 DEF Pending, Row, States
    <2>4. kept[p].count <= row.count
      BY <2>0, <2>2 DEF Pending, Row
    <2>5. /\ q \in Request /\ q.pc = "call" /\ q.trial = TRUE /\ q.now = req[r].now
          /\ q.todo = req[r].todo /\ q.counted = req[r].counted
          /\ q.tallied = req[r].tallied /\ q.cleared = req[r].cleared
      BY <1>0 DEF Request, PCs
    <2> HIDE DEF row, new, q
    <2>6. Pending(kept[p], new, q.now) /\ ShapeOK(new)
      BY <2>0, <2>1, <2>3, <2>4 DEF Pending, ShapeOK
    <2>7. LocalsOK(r, q) /\ Head(q.todo) = p
      BY <1>0, <2>5 DEF LocalsOK, Cur
    <2> QED BY <1>0, <1>1, <2>0, <2>1, <2>3, <2>5, <2>6, <2>7, WriteStep
  <1>2. CASE NoWrite /\ Become(r, Advance(req[r]))
    BY <1>0, <1>2, MovesOn
  <1> QED BY <1>1, <1>2 DEF ClaimTrial

\* ensure_breaker: a missing row becomes a closed one.
LEMMA EnsureStep ==
    ASSUME IInv, NEW r \in Requests, EnsureBreaker(r)
    PROVE  IInv'
  <1> DEFINE p == Cur(r)
             row == Seen(r, p)
             q == [req[r] EXCEPT !.pc = IF @ = "ensure" THEN "trip" ELSE "count"]
  <1>0. /\ req[r].pc \in {"ensure", "insert"} /\ Free(r, p) /\ Become(r, q)
    BY DEF EnsureBreaker
  <1>1. /\ p \in Names /\ row \in Row /\ kept[p] \in Row
        /\ Base(r, p) \in Nat /\ req[r].counted[p] \in Nat
        /\ row = kept[p] \/ Pending(kept[p], row, req[r].now)
        /\ req[r] \in Request /\ req[r].todo # <<>>
        /\ Settled(r)
    BY <1>0, SeenFacts, SettledWhen
  <1>2. /\ q \in Request /\ q.pc \in {"trip", "count"} /\ q.trial = req[r].trial
        /\ q.now = req[r].now /\ q.todo = req[r].todo /\ q.counted = req[r].counted
        /\ q.wait = req[r].wait /\ (q.pc = "trip" => req[r].pc = "ensure")
        /\ q.tallied = req[r].tallied /\ q.cleared = req[r].cleared
    BY <1>0, <1>1 DEF Request, PCs
  <1>3. req[r].pc = "ensure" => req[r].wait > 0
    BY DEF IInv, Control
  <1>4. \A x \in Names : req[r].counted[x] <= req[r].counted[x]
    BY <1>1 DEF Request
  <1>5. LocalsOK(r, q)
    BY <1>0, <1>1, <1>2, <1>3, <1>4 DEF LocalsOK
  <1>6. CASE row.state = "NONE"
    <2>1. Write(r, p, ClosedRow)
      BY <1>6 DEF EnsureBreaker
    <2>2. kept[p] = row
      BY <1>1, <1>6 DEF Pending
    <2>3. /\ ~req[r].trial
          /\ kept[p] = NoRow
      BY <1>6, <1>1, <2>2 DEF IInv, Trials, TrialEarned, KeptRows, ShapeOK
    <2>4. /\ ClosedRow \in Row /\ ShapeOK(ClosedRow) /\ ClosedRow.count = 0
          /\ Pending(NoRow, ClosedRow, q.now)
      BY NumbersAssumption DEF ClosedRow, NoRow, Row, States, ShapeOK, Pending, Null
    <2>5. ClosedRow.count <= Base(r, p) + q.counted[p]
      BY <1>1, <1>2, <2>4
    <2> HIDE DEF q, row
    <2> QED BY <1>0, <1>1, <1>2, <1>5, <2>1, <2>3, <2>4, <2>5, WriteStep DEF Settled
  <1>7. CASE row.state # "NONE"
    <2>1. NoWrite
      BY <1>7 DEF EnsureBreaker
    <2>2. q.trial => req[r].trial /\ Head(q.todo) = Cur(r)
      BY <1>2 DEF Cur
    <2> HIDE DEF q, row
    <2> QED BY <1>0, <1>1, <1>5, <2>1, <2>2, LocalStep
  <1> QED BY <1>6, <1>7

\* The locals after a counted failure.
LEMMA CountedType ==
    ASSUME NEW q \in Request, NEW p \in Names
    PROVE  LET n == [q EXCEPT !.counted[p] = @ + 1, !.wait = CooldownFloor] IN
           /\ n \in Request
           /\ n.pc = q.pc /\ n.trial = q.trial /\ n.now = q.now /\ n.todo = q.todo
           /\ n.seen = q.seen /\ n.wait = CooldownFloor
           /\ n.tallied = q.tallied /\ n.cleared = q.cleared /\ n.calls = q.calls
           /\ n.counted[p] = q.counted[p] + 1
           /\ \A x \in Names : x # p => n.counted[x] = q.counted[x]
  <1>1. q.counted \in [Names -> Nat] /\ q.counted[p] + 1 \in Nat /\ CooldownFloor \in Nat
    BY NumbersAssumption DEF Request
  <1> DEFINE c == [q.counted EXCEPT ![p] = q.counted[p] + 1]
             n == [q EXCEPT !.counted[p] = @ + 1, !.wait = CooldownFloor]
  <1>2. c \in [Names -> Nat] /\ c[p] = q.counted[p] + 1
        /\ \A x \in Names : x # p => c[x] = q.counted[x]
    BY <1>1
  <1>3. n = [q EXCEPT !.counted = c, !.wait = CooldownFloor]
    OBVIOUS
  <1> HIDE DEF c
  <1>4. /\ n \in Request
        /\ n.pc = q.pc /\ n.trial = q.trial /\ n.now = q.now /\ n.todo = q.todo
        /\ n.seen = q.seen /\ n.wait = CooldownFloor /\ n.counted = c
        /\ n.tallied = q.tallied /\ n.cleared = q.cleared /\ n.calls = q.calls
    BY <1>1, <1>2, <1>3 DEF Request
  <1> HIDE DEF n
  <1>5. /\ n.counted[p] = q.counted[p] + 1
        /\ \A x \in Names : x # p => n.counted[x] = q.counted[x]
    BY <1>2, <1>4
  <1> QED BY <1>4, <1>5 DEF n

\* increment_failure, then either the trip at the threshold or the next provider.
LEMMA IncrementStep ==
    ASSUME IInv, NEW r \in Requests, IncrementFailure(r)
    PROVE  IInv'
  <1> DEFINE p == Cur(r)
             row == Seen(r, p)
             q == [req[r] EXCEPT !.counted[p] = @ + 1, !.wait = CooldownFloor]
             t == [q EXCEPT !.pc = "trip"]
             a == Advance(q)
             new == [row EXCEPT !.count = @ + 1]
  <1>0. req[r].pc = "count"
    BY DEF IncrementFailure
  <1>1. /\ p \in Names /\ row \in Row /\ kept[p] \in Row /\ ShapeOK(row)
        /\ Base(r, p) \in Nat /\ req[r].counted[p] \in Nat
        /\ req[r] \in Request /\ req[r].todo # <<>>
        /\ Free(r, p) => /\ row = kept[p] \/ Pending(kept[p], row, req[r].now)
                         /\ row.count <= Base(r, p) + req[r].counted[p]
        /\ Settled(r)
    BY <1>0, SeenFacts, SettledWhen
  <1>2. /\ q \in Request /\ q.pc = "count" /\ q.trial = req[r].trial /\ q.now = req[r].now
        /\ q.todo = req[r].todo /\ q.seen = req[r].seen /\ q.wait = CooldownFloor
        /\ q.counted[p] = req[r].counted[p] + 1
        /\ \A x \in Names : x # p => q.counted[x] = req[r].counted[x]
        /\ q.tallied = req[r].tallied /\ q.cleared = req[r].cleared
    BY <1>0, <1>1, CountedType
  <1>3. /\ IF IncrementHits(row, q.seen) THEN Write(r, p, new) ELSE NoWrite
        /\ Become(r, IF q.seen + 1 >= TripThreshold THEN t ELSE a)
    BY DEF IncrementFailure
  <1>4. /\ new \in Row /\ new.state = row.state /\ new.count = row.count + 1
        /\ new.cooldown = row.cooldown
    BY <1>1, CountedRowType
  <1>x. q.seen \in Nat
    BY <1>2 DEF Request
  <1> HIDE DEF q
  <1>5. /\ t \in Request /\ t.pc = "trip" /\ t.trial = q.trial /\ t.now = q.now
        /\ t.todo = q.todo /\ t.wait = q.wait /\ t.counted = q.counted
        /\ t.tallied = q.tallied /\ t.cleared = q.cleared
    BY <1>2 DEF Request, PCs
  <1>6. /\ a \in Request /\ a.pc = "gate" /\ a.trial = FALSE /\ a.now = q.now
        /\ a.counted = q.counted /\ a.tallied = q.tallied /\ a.cleared = q.cleared
    BY <1>1, <1>2, AdvanceType
  <1>7. \A x \in Names : req[r].counted[x] <= q.counted[x]
    <2>1. \A x \in Names : req[r].counted[x] \in Nat
      BY <1>1 DEF Request
    <2> QED BY <2>1, <1>1, <1>2
  <1> HIDE DEF t, a, new, row
  <1>8. LocalsOK(r, t) /\ LocalsOK(r, a)
    BY <1>0, <1>1, <1>2, <1>5, <1>6, <1>7, NumbersAssumption DEF LocalsOK
  <1>9. t.trial => req[r].trial /\ Head(t.todo) = Cur(r)
    BY <1>2, <1>5 DEF Cur
  <1>10. CASE NoWrite
    <2>1. CASE Become(r, t)
      BY <2>1, <1>1, <1>8, <1>9, <1>10, LocalStep
    <2>2. CASE Become(r, a)
      BY <2>2, <1>1, <1>6, <1>8, <1>10, LocalStep
    <2> QED BY <2>1, <2>2, <1>3
  <1>11. CASE IncrementHits(row, q.seen) /\ Write(r, p, new)
    <2>0. /\ Free(r, p) /\ row.count = q.seen /\ row.state \in {"CLOSED", "HALF_OPEN"}
          /\ row = kept[p] \/ Pending(kept[p], row, req[r].now)
          /\ row.count <= Base(r, p) + req[r].counted[p]
      BY <1>11, <1>1 DEF Write, IncrementHits
    <2>1. Pending(kept[p], new, req[r].now)
      BY <2>0, <1>1, <1>4 DEF Pending, Row, States
    <2>2. new.count <= Base(r, p) + q.counted[p]
      BY <2>0, <1>1, <1>2, <1>4 DEF Row
    <2>3. req[r].trial => /\ row.state = "HALF_OPEN"
                          /\ kept[p].state \in {"OPEN", "HALF_OPEN"}
                          /\ kept[p].cooldown <= clock
      BY DEF IInv, Trials, TrialEarned, Seen, row
    <2>4. q.seen + 1 < TripThreshold \/ row.state = "HALF_OPEN" => ShapeOK(new)
      BY <2>0, <1>1, <1>4 DEF ShapeOK, Row
    <2>5. row.state = "CLOSED" => new.cooldown = Null /\ ~req[r].trial
      BY <2>3, <1>1, <1>4 DEF ShapeOK
    <2>6. \A x \in Names \ {p} : lock[x] = r => ShapeOK(draft[x])
      BY <1>1 DEF Settled
    <2>7. CASE q.seen + 1 >= TripThreshold
      <3>1. Become(r, t) /\ Head(t.todo) = p /\ t.now = req[r].now
        BY <1>2, <1>3, <1>5, <2>7 DEF Cur
      <3>2. \/ ShapeOK(new)
            \/ /\ t.pc = "trip" /\ ~t.trial /\ Head(t.todo) = p
               /\ new.state = "CLOSED" /\ new.cooldown = Null
        BY <2>0, <2>4, <2>5, <3>1, <1>2, <1>4, <1>5
      <3>3. t.trial => /\ Head(t.todo) = p /\ new.state = "HALF_OPEN"
                       /\ kept[p].state \in {"OPEN", "HALF_OPEN"}
                       /\ kept[p].cooldown <= clock
        BY <2>3, <3>1, <1>2, <1>4, <1>5
      <3> QED BY <1>1, <1>4, <1>5, <1>8, <1>11, <2>1, <2>2, <2>6, <3>1, <3>2, <3>3, WriteStep
    <2>8. CASE q.seen + 1 < TripThreshold
      <3>1. Become(r, a) /\ a.now = req[r].now
        BY <1>2, <1>3, <1>6, <1>x, <2>8, NumbersAssumption
      <3> QED BY <1>1, <1>4, <1>6, <1>8, <1>11, <2>1, <2>2, <2>4, <2>6, <2>8, <3>1, WriteStep
    <2> QED BY <2>7, <2>8, <1>x, NumbersAssumption
  <1> QED BY <1>3, <1>10, <1>11

\* trip_circuit: a row counted to the threshold is always tripped.
LEMMA TripStep ==
    ASSUME IInv, NEW r \in Requests, TripCircuit(r)
    PROVE  IInv'
  <1> DEFINE p == Cur(r)
             row == Seen(r, p)
             new == TrippedRow(row, req[r].now + req[r].wait)
             q == Advance(req[r])
  <1>0. req[r].pc = "trip" /\ Become(r, q)
    BY DEF TripCircuit
  <1>1. /\ p \in Names /\ row \in Row /\ kept[p] \in Row
        /\ Base(r, p) \in Nat /\ req[r].counted[p] \in Nat
        /\ req[r] \in Request /\ req[r].todo # <<>> /\ req[r].now \in Nat
        /\ Free(r, p) => /\ row = kept[p] \/ Pending(kept[p], row, req[r].now)
                         /\ row.count <= Base(r, p) + req[r].counted[p]
    BY <1>0, SeenFacts
  <1>2. /\ q \in Request /\ q.pc = "gate" /\ q.trial = FALSE /\ q.now = req[r].now
        /\ q.counted = req[r].counted
        /\ q.tallied = req[r].tallied /\ q.cleared = req[r].cleared
    BY <1>1, AdvanceType
  <1> HIDE DEF q
  <1>3. LocalsOK(r, q)
    <2>1. \A x \in Names : req[r].counted[x] <= q.counted[x]
      <3>1. \A x \in Names : req[r].counted[x] \in Nat
        BY <1>1 DEF Request
      <3> QED BY <1>2, <3>1
    <2> QED BY <2>1, <1>0, <1>2 DEF LocalsOK
  <1>4. CASE row.state # Observed(r) /\ NoWrite
    <2>1. Settled(r)
      BY <1>0, <1>4, SettledWhen
    <2> QED BY <2>1, <1>0, <1>2, <1>3, <1>4, LocalStep
  <1>5. CASE row.state = Observed(r) /\ Write(r, p, new)
    <2>0. /\ Free(r, p)
          /\ row = kept[p] \/ Pending(kept[p], row, req[r].now)
          /\ row.count <= Base(r, p) + req[r].counted[p]
      BY <1>1, <1>5 DEF Write
    <2>1. req[r].wait \in Nat /\ req[r].wait > 0 /\ req[r].now + req[r].wait \in Nat
      BY <1>0, <1>1 DEF Request, IInv, Control
    <2>2. /\ new \in Row /\ new.state = "OPEN" /\ new.count = row.count
          /\ new.cooldown = req[r].now + req[r].wait /\ new.cooldown # Null
      BY <1>1, <2>1, TrippedRowType
    <2>3. Pending(kept[p], new, req[r].now)
      <3>1. CASE req[r].trial
        <4>1. /\ row.state = "HALF_OPEN"
              /\ kept[p].state \in {"OPEN", "HALF_OPEN"} /\ kept[p].cooldown <= clock
          BY <3>1 DEF IInv, Trials, TrialEarned, Seen
        <4> HIDE DEF row, new
        <4>2. kept[p].count <= row.count
          BY <2>0, <4>1, <1>1 DEF Pending, Row
        <4> QED BY <4>1, <4>2, <2>2 DEF Pending
      <3>2. CASE ~req[r].trial
        <4>1. row.state = "CLOSED"
          BY <3>2, <1>5 DEF Observed
        <4> HIDE DEF row, new
        <4>2. kept[p].state \in {"NONE", "CLOSED"} /\ kept[p].count <= row.count
          BY <2>0, <4>1, <1>1 DEF Pending, Row
        <4>3. new.cooldown > req[r].now
          BY <2>1, <2>2, <1>1
        <4> QED BY <4>2, <4>3, <2>2 DEF Pending
      <3> QED BY <3>1, <3>2
    <2>4. ShapeOK(new)
      BY <2>2 DEF ShapeOK
    <2>5. \A x \in Names \ {p} : lock[x] = r => ShapeOK(draft[x])
      BY SettledWhen
    <2> HIDE DEF row, new
    <2>6. new.count <= Base(r, p) + q.counted[p]
      BY <2>0, <2>2, <1>2
    <2> QED BY <1>0, <1>1, <1>2, <1>3, <1>5, <2>2, <2>3, <2>4, <2>5, <2>6, WriteStep
  <1> QED BY <1>4, <1>5 DEF TripCircuit

\* A usable answer ends the call; the row it resets is the trial's own.
LEMMA SucceedStep ==
    ASSUME IInv, NEW r \in Requests, Succeed(r)
    PROVE  IInv'
  <1> DEFINE p == Cur(r)
             cleared == IF req[r].trial /\ Seen(r, p).state = "HALF_OPEN" THEN {p} ELSE {}
  <1>1. req[r].pc = "call" /\ EndCall(r, cleared)
    BY DEF Succeed
  <1>2. p \in Names
    BY <1>1, SeenFacts
  <1>3. cleared \in SUBSET Names /\ \A x \in cleared : lock[x] = r
    BY <1>2 DEF IInv, Trials, TrialEarned
  <1>4. Settled(r)
    BY <1>1, SettledWhen
  <1> HIDE DEF cleared
  <1> QED BY <1>1, <1>3, <1>4, EndCallStep

\* The end of the chain ends the call and keeps what the failures wrote.
LEMMA ExhaustStep ==
    ASSUME IInv, NEW r \in Requests, Exhaust(r)
    PROVE  IInv'
  <1>1. req[r].pc = "gate" /\ EndCall(r, {})
    BY DEF Exhaust
  <1>2. Settled(r)
    BY <1>1, SettledWhen
  <1>3. {} \in SUBSET Names /\ \A x \in {} : lock[x] = r
    OBVIOUS
  <1> QED BY <1>1, <1>2, <1>3, EndCallStep

----------------------------------------------------------------------------
\* The steps of a request keep IInv.
LEMMA StepKeeps ==
    ASSUME IInv, NEW r \in Requests, Step(r)
    PROVE  IInv'
  BY ReadSteps, ClaimStep, EnsureStep, IncrementStep, TripStep, SucceedStep, ExhaustStep,
     NextCallStep, CommitStep DEF Step

\* IInv is inductive: it holds at the start and every step keeps it.
THEOREM Invariance == Spec => []IInv
  <1>1. ASSUME IInv, [Next]_vars
        PROVE  IInv'
    <2>1. CASE Tick
      BY <1>1, <2>1, TickStep
    <2>2. ASSUME NEW r \in Requests,
                 Begin(r) \/ Step(r) \/ Abort(r) \/ UndoCall(r) \/ DeadlockVictim(r)
          PROVE  IInv'
      <3>1. CASE Begin(r)
        BY <1>1, <3>1, BeginStep
      <3>2. CASE Step(r)
        BY <1>1, <3>2, StepKeeps
      <3>3. CASE Abort(r) \/ UndoCall(r) \/ DeadlockVictim(r)
        BY <1>1, <3>3, RollbackStep, UndoCallStep DEF Abort, DeadlockVictim
      <3> QED BY <2>2, <3>1, <3>2, <3>3
    <2>3. CASE UNCHANGED vars
      BY <1>1, <2>3 DEF vars, IInv, TypeOK, Control, CommittedRowsOK, ShapeOK,
         CountNeverAhead, FreeRows, KeptRows, HeldRows, Held, Base, AtThreshold, Pending,
         Trials, TrialEarned, Cur
    <2> QED BY <1>1, <2>1, <2>2, <2>3 DEF Next
  <1> QED BY <1>1, InitInv, PTL DEF Spec

\* The rows, locks and locals always have their types.
THEOREM TypeCorrect == Spec => []TypeOK
  <1>1. IInv => TypeOK
    BY DEF IInv
  <1> QED BY <1>1, Invariance, PTL

\* A trial owns its half-open row until its outcome.
THEOREM TrialsOwnTheirRow == Spec => []TrialOwnsRow
  <1>1. IInv => TrialOwnsRow
    BY DEF IInv, Trials, TrialEarned, TrialOwnsRow
  <1> QED BY <1>1, Invariance, PTL

\* No two requests are in a trial of the same provider.
THEOREM TrialIsSingle == Spec => []SingleTrial
  <1>1. IInv => SingleTrial
    BY DEF IInv, Trials, TrialEarned, SingleTrial, InTrial
  <1> QED BY <1>1, Invariance, PTL

\* Committed rows are well formed and a closed breaker is below the threshold.
THEOREM CommittedRowsAreOK == Spec => []CommittedRowsOK
  <1>1. IInv => CommittedRowsOK
    BY DEF IInv
  <1> QED BY <1>1, Invariance, PTL

\* The trip counter never runs ahead of the failures that count.
THEOREM CountIsNeverAhead == Spec => []CountNeverAhead
  <1>1. IInv => CountNeverAhead
    BY DEF IInv
  <1> QED BY <1>1, Invariance, PTL

----------------------------------------------------------------------------
\* A row that a call leaves to its transaction has moved as the contract allows.
LEMMA HeldMoves ==
    ASSUME IInv, NEW r \in Requests, NEW p \in Names, lock[p] = r, ShapeOK(draft[p])
    PROVE  Contract!Moves(kept[p], draft[p])
  <1> DEFINE b == kept[p]
             d == draft[p]
  <1>1. /\ b \in Row /\ d \in Row /\ ShapeOK(b) /\ ShapeOK(d)
        /\ d = b \/ Pending(b, d, req[r].now)
    BY DEF IInv, TypeOK, KeptRows, HeldRows, Held
  <1> SUFFICES Contract!Moves(b, d)
    OBVIOUS
  <1> HIDE DEF b, d
  <1>2. CASE d = b \/ d.state = "NONE"
    BY <1>1, <1>2 DEF Pending, Contract!Moves
  <1>3. CASE Pending(b, d, req[r].now) /\ d.state = "CLOSED"
    BY <1>1, <1>3 DEF Pending, ShapeOK, Contract!Moves, Contract!Counts, Contract!Null, Null
  <1>4. CASE Pending(b, d, req[r].now) /\ d.state \in {"OPEN", "HALF_OPEN"}
    <2>1. d.cooldown # Null /\ b.count <= d.count
      BY <1>1, <1>4 DEF ShapeOK, Pending
    <2>2. CASE b.state \in {"NONE", "CLOSED"}
      BY <1>1, <1>4, <2>1, <2>2 DEF Pending, Contract!Moves, Contract!Trips, Contract!Null, Null
    <2>3. CASE b.state \in {"OPEN", "HALF_OPEN"} /\ b.cooldown <= clock
      BY <1>4, <2>1, <2>3 DEF Contract!Moves, Contract!Probes, Contract!Null, Null
    <2>4. CASE b.state = "HALF_OPEN" /\ d.state = "HALF_OPEN" /\ d.cooldown = b.cooldown
      <3>1. d = [b EXCEPT !.count = d.count]
        BY <1>1, <2>4 DEF Row
      <3> QED BY <3>1, <2>1, <2>4 DEF Contract!Moves, Contract!CountsLate
    <2> QED BY <1>1, <1>4, <2>2, <2>3, <2>4 DEF Pending, Row, States
  <1> QED BY <1>1, <1>2, <1>3, <1>4 DEF Row, States

\* A call of the router that ends inside its transaction is a call of the contract.
LEMMA EndCallMoves ==
    ASSUME IInv, NEW r \in Requests, NEW cleared \in SUBSET Names,
           EndCall(r, cleared), Settled(r),
           \A p \in cleared : req[r].trial /\ Cur(r) = p
    PROVE  Contract!EndCall
  <1>1. DOMAIN kept' = Names /\ UNCHANGED <<clock, breaker>>
    BY DEF EndCall
  <1>2. ASSUME NEW p \in Names
        PROVE  Contract!Moves(kept[p], kept'[p])
    <2>1. CASE lock[p] # r
      <3>1. kept'[p] = kept[p]
        BY <2>1 DEF EndCall
      <3> QED BY <3>1 DEF Contract!Moves
    <2>2. CASE lock[p] = r /\ p \in cleared
      <3>1. kept'[p] = ClosedRow
        BY <2>2 DEF EndCall
      <3>2. kept[p].state \in {"OPEN", "HALF_OPEN"} /\ kept[p].cooldown <= clock
        BY <2>2 DEF IInv, Trials, TrialEarned
      <3> QED BY <3>1, <3>2 DEF Contract!Moves, Contract!Probes, Contract!ClosedRow,
                                ClosedRow, Contract!Null, Null
    <2>3. CASE lock[p] = r /\ p \notin cleared
      <3>1. kept'[p] = draft[p]
        BY <2>3 DEF EndCall
      <3>2. Contract!Moves(kept[p], draft[p])
        BY <2>3, HeldMoves DEF Settled
      <3> QED BY <3>1, <3>2
    <2> QED BY <2>1, <2>2, <2>3
  <1> QED BY <1>1, <1>2 DEF Contract!EndCall

\* The router implements the circuit breaker of CircuitBreaker: the end of each call,
\* alone or in the transaction of an extraction, moves the rows as a breaker moves, and a
\* COMMIT publishes just what the ended calls of the transaction made of them.
THEOREM Implements == Spec => BreakerContract
  <1>1. Init => Contract!Init
    BY DEF Init, Contract!Init, NoRow, Contract!NoRow, Null, Contract!Null
  <1>2. ASSUME IInv, [Next]_vars
        PROVE  [Contract!Next]_<<clock, breaker, kept>>
    <2>1. CASE Tick
      BY <2>1 DEF Tick, Contract!Next, Contract!Tick
    <2>2. ASSUME NEW r \in Requests,
                 Begin(r) \/ Step(r) \/ Abort(r) \/ UndoCall(r) \/ DeadlockVictim(r)
          PROVE  Contract!Next \/ UNCHANGED <<clock, breaker, kept>>
      <3>1. CASE Begin(r) \/ NextCall(r)
        BY <3>1 DEF Begin, NextCall, NoWrite
      <3>2. CASE \/ SkipUnregistered(r) \/ HandleBreakers(r) \/ KeyRejected(r)
                 \/ Unavailable(r) \/ ShapeFailure(r) \/ RateLimited(r) \/ CountedFailure(r)
        BY <3>2 DEF SkipUnregistered, HandleBreakers, KeyRejected, Unavailable,
           ShapeFailure, RateLimited, CountedFailure, NoWrite
      <3>3. CASE ClaimTrial(r) \/ EnsureBreaker(r) \/ IncrementFailure(r) \/ TripCircuit(r)
        BY <3>3 DEF ClaimTrial, EnsureBreaker, IncrementFailure, TripCircuit, NoWrite, Write
      <3>4. CASE Succeed(r)
        <4> DEFINE p == Cur(r)
                   cleared == IF req[r].trial /\ Seen(r, p).state = "HALF_OPEN"
                              THEN {p} ELSE {}
        <4>1. req[r].pc = "call" /\ EndCall(r, cleared)
          BY <3>4 DEF Succeed
        <4>2. cleared \in SUBSET Names
          BY <1>2, <4>1, SeenFacts
        <4>3. \A x \in cleared : req[r].trial /\ Cur(r) = x
          OBVIOUS
        <4>4. Settled(r)
          BY <1>2, <4>1, SettledWhen
        <4> HIDE DEF cleared
        <4> QED BY <1>2, <4>1, <4>2, <4>3, <4>4, EndCallMoves DEF Contract!Next
      <3>5. CASE Exhaust(r)
        <4>1. EndCall(r, {}) /\ req[r].pc = "gate"
          BY <3>5 DEF Exhaust
        <4>2. Settled(r)
          BY <1>2, <4>1, SettledWhen
        <4> QED BY <1>2, <4>1, <4>2, EndCallMoves DEF Contract!Next
      <3>6. CASE Commit(r)
        <4> DEFINE held == {p \in Names : lock[p] = r}
        <4>1. \A p \in Names : lock[p] = r => draft[p] = kept[p]
          BY <1>2, <3>6 DEF Commit, IInv, HeldRows, Held
        <4>2. breaker' = [p \in Names |-> IF p \in held THEN kept[p] ELSE breaker[p]]
          BY <4>1, <3>6 DEF Commit
        <4>3. UNCHANGED <<clock, kept>>
          BY <3>6 DEF Commit
        <4> HIDE DEF held
        <4>4. held \in SUBSET Names
          BY DEF held
        <4> QED BY <4>2, <4>3, <4>4 DEF Contract!Next, Contract!Commit
      <3>7. CASE Abort(r) \/ Undo(r)
        <4> DEFINE held == {p \in Names : lock[p] = r}
        <4>1. kept' = [p \in Names |-> IF p \in held THEN breaker[p] ELSE kept[p]]
          BY <3>7 DEF Abort, Undo, Rollback
        <4>2. UNCHANGED <<clock, breaker>>
          BY <3>7 DEF Abort, Undo, Rollback
        <4> HIDE DEF held
        <4>3. held \in SUBSET Names
          BY DEF held
        <4> QED BY <4>1, <4>2, <4>3 DEF Contract!Next, Contract!Rollback
      <3>8. CASE UndoCall(r)
        BY <3>8 DEF UndoCall, RollbackCall
      <3> QED BY <2>2, <3>1, <3>2, <3>3, <3>4, <3>5, <3>6, <3>7, <3>8 DEF Step, DeadlockVictim
    <2>3. CASE UNCHANGED vars
      BY <2>3 DEF vars
    <2> QED BY <1>2, <2>1, <2>2, <2>3 DEF Next
  <1> QED BY <1>1, <1>2, Invariance, PTL DEF Spec, BreakerContract, Contract!Spec

----------------------------------------------------------------------------
(***************************************************************************)
(* When no two transactions overlap nothing is lost: the counter that the  *)
(* run no_lost_increment sees lag behind is exact.                         *)
(***************************************************************************)
Solo == \A r, s \in Requests : req[r].pc # "idle" /\ req[s].pc # "idle" => r = s

\* How the rows, as the request with locals q sees them, relate to the counted failures f.
Tally(q, rows, f) ==
    /\ \A p \in Names : rows[p].count = f[p] + q.counted[p]
    /\ q.pc = "call" => rows[Head(q.todo)].state # "OPEN"
    /\ q.pc = "insert" => rows[Head(q.todo)].state = "NONE" /\ q.seen = 0
    /\ q.pc = "count" => IncrementHits(rows[Head(q.todo)], q.seen)

Bases(r) == [p \in Names |-> Base(r, p)]

Tallied ==
    /\ \A p \in Names : breaker[p].count = fails[p]
    /\ \A r \in Requests : req[r].pc # "idle" =>
          /\ Tally(req[r], draft, Bases(r))
          /\ \A p \in Names : kept[p].count = Bases(r)[p]

\* A request that runs alone sees the rows as drafted.
LEMMA SoloSees ==
    ASSUME IInv, Solo, NEW r \in Requests, req[r].pc # "idle", NEW p \in Names
    PROVE  Free(r, p) /\ Seen(r, p) = draft[p]
  <1>1. \A s \in Requests : lock[p] = s => s = r
    BY DEF IInv, HeldRows, Held, Solo
  <1>2. lock[p] \in {NoRequest, r}
    BY <1>1 DEF IInv, TypeOK
  <1>3. lock[p] = NoRequest => draft[p] = breaker[p]
    BY DEF IInv, FreeRows
  <1> QED BY <1>2, <1>3, RequestsAssumption DEF Free, Seen

\* A step inside the only open transaction keeps the tally if its locals and rows do.
LEMMA TalliedStep ==
    ASSUME TypeOK, Solo, Tallied, NEW r \in Requests, req[r].pc # "idle",
           NEW q, req' = [req EXCEPT ![r] = q], UNCHANGED <<breaker, fails, kept>>,
           req'[r].tallied = req[r].tallied, req'[r].cleared = req[r].cleared,
           Tally(q, draft', Bases(r))
    PROVE  Tallied'
  <1>1. req'[r] = q /\ \A s \in Requests : s # r => req'[s] = req[s]
    BY DEF TypeOK
  <1>2. \A s \in Requests : req'[s].pc # "idle" => s = r
    BY <1>1 DEF Solo
  <1>3. Bases(r)' = Bases(r)
    BY DEF Bases, Base
  <1>4. /\ Tally(req'[r], draft', Bases(r)')
        /\ \A p \in Names : kept'[p].count = Bases(r)'[p]
    BY <1>1, <1>3 DEF Tallied
  <1>5. \A s \in Requests : req'[s].pc # "idle" =>
           /\ Tally(req'[s], draft', Bases(s)')
           /\ \A p \in Names : kept'[p].count = Bases(s)'[p]
    BY <1>2, <1>4
  <1> QED BY <1>5 DEF Tallied, Tally, IncrementHits

\* A call of the only open transaction ends: what it counted is what it wrote.
LEMMA TalliedCallEnds ==
    ASSUME IInv, Solo, Tallied, NEW r \in Requests, NEW cleared \in SUBSET Names,
           req[r].pc # "idle", EndCall(r, cleared), \A p \in cleared : lock[p] = r
    PROVE  Tallied'
  <1> DEFINE q == Ended(req[r], cleared)
  <1>1. TypeOK /\ req[r] \in Request
    BY DEF IInv, TypeOK
  <1>2. q.pc = "ended" /\ q.counted = NoFailures
    BY <1>1, EndedType
  <1>3. req'[r] = q /\ \A s \in Requests : s # r => req'[s] = req[s]
    BY <1>1 DEF EndCall, Become, TypeOK
  <1> HIDE DEF q
  <1>4. UNCHANGED <<breaker, fails, lock>>
    BY DEF EndCall
  <1>5. ASSUME NEW p \in Names
        PROVE  draft'[p].count = Base(r, p)' /\ kept'[p].count = Base(r, p)' /\ Base(r, p)' \in Nat
    <2>1. /\ Base(r, p)' = IF p \in cleared THEN 0 ELSE Base(r, p) + req[r].counted[p]
          /\ Base(r, p) \in Nat /\ req[r].counted[p] \in Nat
      BY <1>1, EndedBase, CountTypes
    <2>2. draft[p].count = Base(r, p) + req[r].counted[p]
      BY DEF Tallied, Tally, Bases
    <2>3. draft'[p] = IF p \in cleared THEN ClosedRow ELSE draft[p]
      BY DEF EndCall
    <2>4. draft'[p].count = Base(r, p)'
      BY <2>1, <2>2, <2>3 DEF ClosedRow
    <2>5. kept'[p] = draft'[p]
      <3>1. CASE lock[p] = r
        BY <3>1 DEF EndCall
      <3>2. CASE lock[p] # r
        <4>1. lock[p] = NoRequest
          BY <3>2, SoloSees DEF Free
        <4>2. draft[p] = breaker[p] /\ kept[p] = breaker[p]
          BY <4>1, FreeFacts
        <4>3. kept'[p] = kept[p] /\ draft'[p] = draft[p]
          BY <3>2, <2>3 DEF EndCall
        <4> QED BY <4>2, <4>3
      <3> QED BY <3>1, <3>2
    <2> QED BY <2>1, <2>4, <2>5
  <1>6. Tally(q, draft', Bases(r)')
    <2>1. \A p \in Names : draft'[p].count = Bases(r)'[p] + q.counted[p]
      BY <1>2, <1>5 DEF Bases, NoFailures
    <2> QED BY <1>2, <2>1 DEF Tally
  <1>7. \A s \in Requests : req'[s].pc # "idle" =>
           /\ Tally(req'[s], draft', Bases(s)')
           /\ \A p \in Names : kept'[p].count = Bases(s)'[p]
    <2>1. \A s \in Requests : req'[s].pc # "idle" => s = r
      BY <1>3 DEF Solo
    <2>2. \A p \in Names : kept'[p].count = Bases(r)'[p]
      BY <1>5 DEF Bases
    <2> QED BY <1>3, <1>6, <2>1, <2>2
  <1>8. \A p \in Names : breaker'[p].count = fails'[p]
    BY <1>4 DEF Tallied
  <1> QED BY <1>7, <1>8 DEF Tallied, Tally, IncrementHits

\* The only open transaction undoes a call: the rows are as tallied before it.
LEMMA TalliedCallUndone ==
    ASSUME IInv, Solo, Tallied, NEW r \in Requests, UndoCall(r)
    PROVE  Tallied'
  <1> DEFINE q == Between(req[r])
  <1>1. TypeOK /\ req[r] \in Request /\ req[r].pc # "idle"
    BY DEF IInv, TypeOK, UndoCall
  <1>2. /\ q.pc = "ended" /\ q.counted = NoFailures
        /\ q.tallied = req[r].tallied /\ q.cleared = req[r].cleared
    BY <1>1, BetweenType
  <1>3. req' = [req EXCEPT ![r] = q] /\ UNCHANGED <<breaker, fails, kept>>
    BY DEF UndoCall, RollbackCall, Become
  <1> HIDE DEF q
  <1>4. req'[r] = q
    BY <1>1, <1>3 DEF TypeOK
  <1>5. ASSUME NEW p \in Names PROVE draft'[p].count = Bases(r)[p] + q.counted[p]
    <2>1. draft'[p] = IF lock[p] = r THEN kept[p] ELSE draft[p]
      BY DEF UndoCall, RollbackCall
    <2>a. Bases(r)[p] \in Nat /\ q.counted[p] = 0 /\ kept[p].count = Bases(r)[p]
      <3>1. Base(r, p) \in Nat
        BY <1>1, CountTypes
      <3>2. Bases(r)[p] = Base(r, p)
        BY DEF Bases
      <3>3. q.counted[p] = 0
        BY <1>2 DEF NoFailures
      <3>4. kept[p].count = Bases(r)[p]
        BY <1>1 DEF Tallied
      <3> QED BY <3>1, <3>2, <3>3, <3>4
    <2>2. CASE lock[p] = r
      BY <2>1, <2>2, <2>a
    <2>3. CASE lock[p] # r
      <3>1. lock[p] = NoRequest
        BY <1>1, <2>3, SoloSees DEF Free
      <3>2. draft[p] = kept[p]
        BY <3>1, FreeFacts
      <3> QED BY <2>1, <2>3, <2>a, <3>2
    <2> QED BY <2>2, <2>3
  <1>6. Tally(q, draft', Bases(r))
    BY <1>2, <1>5 DEF Tally
  <1> QED BY <1>1, <1>2, <1>3, <1>4, <1>6, TalliedStep

\* The only open transaction commits what its calls have left, or rolls back.
LEMMA TalliedEnds ==
    ASSUME IInv, Solo, Tallied, NEW r \in Requests, Commit(r) \/ Undo(r), req[r].pc # "idle"
    PROVE  Tallied'
  <1>1. req' = [req EXCEPT ![r] = Idle]
    BY DEF Commit, Undo, Become
  <1>2. \A s \in Requests : req'[s].pc = "idle"
    BY <1>1, IdleType DEF IInv, TypeOK, Solo
  <1> SUFFICES \A p \in Names : breaker'[p].count = fails'[p]
    BY <1>2 DEF Tallied
  <1>3. CASE Commit(r)
    <2> SUFFICES ASSUME NEW p \in Names PROVE breaker'[p].count = Base(r, p)
      BY <1>3 DEF Commit
    <2>1. kept[p].count = Base(r, p)
      BY DEF Tallied, Bases
    <2>2. CASE lock[p] = r
      <3>1. breaker'[p] = draft[p] /\ draft[p] = kept[p]
        BY <1>3, <2>2 DEF Commit, IInv, HeldRows, Held
      <3> QED BY <2>1, <3>1
    <2>3. CASE lock[p] # r
      <3>1. lock[p] = NoRequest
        BY <2>3, SoloSees DEF Free
      <3>2. breaker'[p] = breaker[p] /\ kept[p] = breaker[p]
        BY <1>3, <2>3, <3>1, FreeFacts DEF Commit
      <3> QED BY <2>1, <3>2
    <2> QED BY <2>2, <2>3
  <1>4. CASE Undo(r)
    BY <1>4 DEF Undo, Rollback, Tallied
  <1> QED BY <1>3, <1>4

\* The steps inside a call leave alone what its transaction's ended calls have left.
LEMMA InsideKeeps ==
    ASSUME TypeOK, Control, NEW r \in Requests,
           \/ SkipUnregistered(r) \/ HandleBreakers(r) \/ ClaimTrial(r)
           \/ KeyRejected(r) \/ Unavailable(r) \/ ShapeFailure(r)
           \/ RateLimited(r) \/ CountedFailure(r)
           \/ EnsureBreaker(r) \/ IncrementFailure(r) \/ TripCircuit(r)
    PROVE  /\ UNCHANGED <<breaker, fails, kept>>
           /\ req'[r].tallied = req[r].tallied /\ req'[r].cleared = req[r].cleared
           /\ req'[r].calls = req[r].calls
  <1> DEFINE Same(n) == /\ n.tallied = req[r].tallied /\ n.cleared = req[r].cleared
                        /\ n.calls = req[r].calls
  <1>1. req[r] \in Request /\ req[r].todo # <<>>
    BY DEF TypeOK, Control, SkipUnregistered, AtGate, HandleBreakers, ClaimTrial,
           KeyRejected, Unavailable, ShapeFailure, RateLimited, CountedFailure, EnsureBreaker,
           IncrementFailure, TripCircuit
  <1>2. \A n : Become(r, n) => req'[r] = n
    BY DEF Become, TypeOK
  <1>3. UNCHANGED <<breaker, fails, kept>>
    BY DEF SkipUnregistered, HandleBreakers, ClaimTrial,
           KeyRejected, Unavailable, ShapeFailure, RateLimited, CountedFailure, EnsureBreaker,
           IncrementFailure, TripCircuit, NoWrite, Write
  <1>4. Same(Advance(req[r]))
    BY <1>1, AdvanceType
  <1>5. /\ \A pc : Same([req[r] EXCEPT !.pc = pc])
        /\ \A pc, x : Same([req[r] EXCEPT !.pc = pc, !.wait = x])
        /\ \A pc, x : Same([req[r] EXCEPT !.pc = pc, !.seen = x])
        /\ Same([req[r] EXCEPT !.pc = "call", !.trial = TRUE])
        /\ Same([req[r] EXCEPT !.repairs = @ + 1])
    BY <1>1 DEF Request
  <1> SUFFICES Same(req'[r])
    BY <1>3
  <1> HIDE DEF Same
  <1>6. CASE \/ SkipUnregistered(r) \/ KeyRejected(r) \/ Unavailable(r) \/ TripCircuit(r)
    <2>1. Become(r, Advance(req[r]))
      BY <1>6 DEF SkipUnregistered, KeyRejected, Unavailable, TripCircuit
    <2> QED BY <1>2, <1>4, <2>1, Zenon
  <1>7. CASE HandleBreakers(r)
    <2>1. \/ Become(r, Advance(req[r]))
          \/ Become(r, [req[r] EXCEPT !.pc = "call"])
          \/ Become(r, [req[r] EXCEPT !.pc = "claim"])
      BY <1>7, Zenon DEF HandleBreakers
    <2>2. \/ req'[r] = Advance(req[r])
          \/ req'[r] = [req[r] EXCEPT !.pc = "call"]
          \/ req'[r] = [req[r] EXCEPT !.pc = "claim"]
      BY <1>2, <2>1, Zenon
    <2> QED BY <1>4, <1>5, <2>2
  <1>8. CASE ClaimTrial(r)
    <2>1. \/ Become(r, Advance(req[r]))
          \/ Become(r, [req[r] EXCEPT !.pc = "call", !.trial = TRUE])
      BY <1>8, Zenon DEF ClaimTrial
    <2>2. \/ req'[r] = Advance(req[r])
          \/ req'[r] = [req[r] EXCEPT !.pc = "call", !.trial = TRUE]
      BY <1>2, <2>1, Zenon
    <2> QED BY <1>4, <1>5, <2>2
  <1>9. CASE ShapeFailure(r)
    <2>1. \/ Become(r, Advance(req[r])) \/ Become(r, [req[r] EXCEPT !.repairs = @ + 1])
      BY <1>9 DEF ShapeFailure
    <2>2. \/ req'[r] = Advance(req[r]) \/ req'[r] = [req[r] EXCEPT !.repairs = @ + 1]
      BY <1>2, <2>1, Zenon
    <2> QED BY <1>4, <1>5, <2>2
  <1>10. CASE RateLimited(r) \/ CountedFailure(r) \/ EnsureBreaker(r)
    <2>1. \/ \E x : Become(r, [req[r] EXCEPT !.pc = "ensure", !.wait = x])
          \/ \E pc, x : Become(r, [req[r] EXCEPT !.pc = pc, !.seen = x])
          \/ \E pc : Become(r, [req[r] EXCEPT !.pc = pc])
      BY <1>10, Zenon DEF RateLimited, CountedFailure, EnsureBreaker
    <2>2. CASE \E x : Become(r, [req[r] EXCEPT !.pc = "ensure", !.wait = x])
      <3>1. PICK x : Become(r, [req[r] EXCEPT !.pc = "ensure", !.wait = x])
        BY <2>2
      <3>2. req'[r] = [req[r] EXCEPT !.pc = "ensure", !.wait = x]
        BY <1>2, <3>1, Zenon
      <3> QED BY <1>1, <3>2 DEF Same, Request
    <2>3. CASE \E pc, x : Become(r, [req[r] EXCEPT !.pc = pc, !.seen = x])
      <3>1. PICK pc, x : Become(r, [req[r] EXCEPT !.pc = pc, !.seen = x])
        BY <2>3
      <3>2. req'[r] = [req[r] EXCEPT !.pc = pc, !.seen = x]
        BY <1>2, <3>1, Zenon
      <3> QED BY <1>1, <3>2 DEF Same, Request
    <2>4. CASE \E pc : Become(r, [req[r] EXCEPT !.pc = pc])
      <3>1. PICK pc : Become(r, [req[r] EXCEPT !.pc = pc])
        BY <2>4
      <3>2. req'[r] = [req[r] EXCEPT !.pc = pc]
        BY <1>2, <3>1, Zenon
      <3> QED BY <1>1, <3>2 DEF Same, Request
    <2> QED BY <2>1, <2>2, <2>3, <2>4
  <1>11. CASE IncrementFailure(r)
    <2> DEFINE q == [req[r] EXCEPT !.counted[Cur(r)] = @ + 1, !.wait = CooldownFloor]
    <2>1. q \in Request /\ q.todo = req[r].todo /\ Same(q)
      BY <1>1, CurType, CountedType DEF Same
    <2>2. Become(r, [q EXCEPT !.pc = "trip"]) \/ Become(r, Advance(q))
      BY <1>11 DEF IncrementFailure
    <2> HIDE DEF q
    <2>3. Same([q EXCEPT !.pc = "trip"]) /\ Same(Advance(q))
      <3>1. Same(Advance(q))
        BY <1>1, <2>1, AdvanceType DEF Same
      <3>2. Same([q EXCEPT !.pc = "trip"])
        BY <2>1 DEF Same, Request
      <3> QED BY <3>1, <3>2
    <2>4. req'[r] = [q EXCEPT !.pc = "trip"] \/ req'[r] = Advance(q)
      BY <1>2, <2>2, Zenon
    <2> QED BY <2>3, <2>4, Zenon
  <1> QED BY <1>6, <1>7, <1>8, <1>9, <1>10, <1>11

\* The statements in between: the guarded increment finds the count that was read.
LEMMA TalliedInside ==
    ASSUME IInv, Solo, Tallied, NEW r \in Requests,
           \/ SkipUnregistered(r) \/ HandleBreakers(r) \/ ClaimTrial(r)
           \/ KeyRejected(r) \/ Unavailable(r) \/ ShapeFailure(r)
           \/ RateLimited(r) \/ CountedFailure(r)
           \/ EnsureBreaker(r) \/ IncrementFailure(r) \/ TripCircuit(r)
    PROVE  Tallied'
  <1> USE DEF Become
  <1> DEFINE p == Cur(r)
             f == Bases(r)
  <1>1. req[r].pc # "idle" /\ req[r].pc # "ended"
    BY DEF SkipUnregistered, AtGate, HandleBreakers, ClaimTrial, KeyRejected,
           Unavailable, ShapeFailure, RateLimited, CountedFailure, EnsureBreaker,
           IncrementFailure, TripCircuit
  <1>2. req[r] \in Request /\ req[r].todo # <<>> /\ TypeOK
    BY DEF IInv, TypeOK, Control, SkipUnregistered, AtGate, HandleBreakers, ClaimTrial,
           KeyRejected, Unavailable, ShapeFailure, RateLimited, CountedFailure, EnsureBreaker,
           IncrementFailure, TripCircuit
  <1>3. p \in Names /\ p = Head(req[r].todo)
    BY <1>2, CurType DEF Cur
  <1>4. Seen(r, p) = draft[p] /\ Free(r, p) /\ draft[p] \in Row
    BY <1>1, <1>2, <1>3, SoloSees DEF TypeOK
  <1>5. req[r].pc # "trip" => ShapeOK(draft[p])
    <2>1. req[r].pc # "gate" /\ req[r].pc # "trip" => ShapeOK(draft[p])
      BY <1>1, <1>4, SeenFacts
    <2>2. req[r].pc = "gate" => ShapeOK(draft[p])
      BY <1>3, <1>4, SettledWhen DEF Settled, Seen, IInv, CommittedRowsOK
    <2> QED BY <2>1, <2>2
  <1>k. /\ UNCHANGED <<breaker, fails, kept>>
        /\ req'[r].tallied = req[r].tallied /\ req'[r].cleared = req[r].cleared
    BY InsideKeeps DEF IInv
  <1>6. Tally(req[r], draft, f)
    BY <1>1 DEF Tallied
  <1>f. \A x \in Names : f[x] \in Nat
    BY CountTypes DEF Bases, IInv
  <1>7. \A n \in Request : n.pc = "gate" /\ n.counted = req[r].counted => Tally(n, draft, f)
    BY <1>6 DEF Tally
  <1>8. Tally(Advance(req[r]), draft, f)
    BY <1>2, <1>7, AdvanceType
  \* A write that leaves the count of the row as it is.
  <1>9. ASSUME NEW row, row.count = draft[p].count
        PROVE  \A x \in Names : [draft EXCEPT ![p] = row][x].count = f[x] + req[r].counted[x]
    BY <1>2, <1>3, <1>6, <1>9 DEF Tally, TypeOK
  <1>10. CASE SkipUnregistered(r)
    BY <1>1, <1>2, <1>8, <1>10, <1>k, TalliedStep DEF SkipUnregistered, NoWrite
  <1>11. CASE HandleBreakers(r)
    <2>1. CASE Become(r, Advance(req[r]))
      BY <1>1, <1>2, <1>8, <1>11, <2>1, <1>k, TalliedStep DEF HandleBreakers, NoWrite
    <2>2. CASE Become(r, [req[r] EXCEPT !.pc = "claim"])
      <3>1. Tally([req[r] EXCEPT !.pc = "claim"], draft, f)
        BY <1>2, <1>6 DEF Tally, Request
      <3> QED BY <1>1, <1>2, <1>11, <2>2, <3>1, <1>k, TalliedStep DEF HandleBreakers, NoWrite
    <2>3. CASE draft[p].state # "OPEN" /\ Become(r, [req[r] EXCEPT !.pc = "call"])
      <3>1. Tally([req[r] EXCEPT !.pc = "call"], draft, f)
        BY <1>2, <1>3, <1>6, <2>3 DEF Tally, Request
      <3> QED BY <1>1, <1>2, <1>11, <2>3, <3>1, <1>k, TalliedStep DEF HandleBreakers, NoWrite
    <2> QED BY <1>4, <1>11, <2>1, <2>2, <2>3 DEF HandleBreakers
  <1>12. CASE ClaimTrial(r)
    <2> DEFINE new == ClaimedRow(draft[p], req[r].now)
    <2>1. CASE Become(r, Advance(req[r])) /\ NoWrite
      BY <1>1, <1>2, <1>8, <2>1, <1>k, TalliedStep DEF NoWrite
    <2>2. CASE /\ Become(r, [req[r] EXCEPT !.pc = "call", !.trial = TRUE])
               /\ Write(r, p, new)
      <3>1. new.count = draft[p].count /\ new.state = "HALF_OPEN"
        BY <1>2, <1>4, ClaimedRowType DEF Request
      <3> HIDE DEF new
      <3>2. draft' = [draft EXCEPT ![p] = new] /\ UNCHANGED <<breaker, fails, kept>>
        BY <2>2 DEF Write
      <3>3. draft'[p] = new
        BY <1>2, <1>3, <3>2 DEF TypeOK
      <3>4. \A x \in Names : draft'[x].count = f[x] + req[r].counted[x]
        BY <1>9, <3>1, <3>2
      <3>5. Tally([req[r] EXCEPT !.pc = "call", !.trial = TRUE], draft', f)
        BY <1>2, <1>3, <3>1, <3>3, <3>4 DEF Tally, Request
      <3> QED BY <1>1, <1>2, <2>2, <3>2, <3>5, <1>k, TalliedStep
    <2> QED BY <1>4, <1>12, <2>1, <2>2 DEF ClaimTrial
  <1>13. CASE KeyRejected(r) \/ Unavailable(r)
    BY <1>1, <1>2, <1>8, <1>13, <1>k, TalliedStep DEF KeyRejected, Unavailable, NoWrite
  <1>14. CASE ShapeFailure(r)
    <2> DEFINE n == [req[r] EXCEPT !.repairs = @ + 1]
    <2>1. req[r].pc = "call" /\ NoWrite /\ (Become(r, Advance(req[r])) \/ Become(r, n))
      BY <1>14 DEF ShapeFailure
    <2>2. CASE Become(r, Advance(req[r]))
      BY <1>1, <1>2, <1>8, <2>1, <2>2, <1>k, TalliedStep DEF NoWrite
    <2>3. CASE Become(r, n)
      <3>1. n.pc = "call" /\ n.counted = req[r].counted /\ n.todo = req[r].todo
        BY <1>2, <2>1, RepairType
      <3> HIDE DEF n
      <3>2. Tally(n, draft', f)
        BY <1>6, <2>1, <3>1 DEF Tally, NoWrite
      <3> QED BY <1>1, <1>2, <2>3, <3>2, <1>k, TalliedStep
    <2> QED BY <2>1, <2>2, <2>3
  <1>15. CASE RateLimited(r)
    <2>1. PICK wait : Become(r, [req[r] EXCEPT !.pc = "ensure", !.wait = wait])
      BY <1>15 DEF RateLimited
    <2>2. Tally([req[r] EXCEPT !.pc = "ensure", !.wait = wait], draft, f)
      BY <1>2, <1>6 DEF Tally, Request
    <2> QED BY <1>1, <1>2, <1>15, <2>1, <2>2, <1>k, TalliedStep DEF RateLimited, NoWrite
  <1>16. CASE CountedFailure(r)
    <2>1. draft[p].state # "OPEN" /\ req[r].pc = "call"
      BY <1>3, <1>6, <1>16 DEF Tally, CountedFailure
    <2> DEFINE q == [req[r] EXCEPT !.pc = IF draft[p].state = "NONE" THEN "insert" ELSE "count",
                                   !.seen = draft[p].count]
    <2>2. /\ q.pc = IF draft[p].state = "NONE" THEN "insert" ELSE "count"
          /\ q.seen = draft[p].count /\ q.todo = req[r].todo /\ q.counted = req[r].counted
      BY <1>2 DEF Request
    <2>3. Become(r, q) /\ UNCHANGED <<breaker, draft, fails, kept>>
      BY <1>4, <1>16 DEF CountedFailure, NoWrite
    <2> HIDE DEF q
    <2>4. draft[p].state = "NONE" => draft[p].count = 0
      BY <1>5, <2>1 DEF ShapeOK, NoRow
    <2>5. Tally(q, draft, f)
      BY <1>3, <1>4, <1>6, <2>1, <2>2, <2>4 DEF Tally, IncrementHits, Row, States
    <2> QED BY <1>1, <1>2, <2>3, <2>5, <1>k, TalliedStep
  <1>17. CASE EnsureBreaker(r)
    <2>1. CASE req[r].pc = "ensure"
      <3> DEFINE q == [req[r] EXCEPT !.pc = "trip"]
      <3>1. q.pc = "trip" /\ q.counted = req[r].counted
        BY <1>2 DEF Request
      <3>2. Become(r, q)
        BY <1>17, <2>1 DEF EnsureBreaker
      <3> HIDE DEF q
      <3>3. UNCHANGED <<breaker, fails, kept>>
        BY <1>17 DEF EnsureBreaker, Write, NoWrite
      <3>4. \A x \in Names : draft'[x].count = f[x] + req[r].counted[x]
        <4>1. CASE draft[p].state = "NONE"
          <5>1. ClosedRow.count = draft[p].count
            BY <1>5, <2>1, <4>1 DEF ShapeOK, NoRow, ClosedRow
          <5>2. draft' = [draft EXCEPT ![p] = ClosedRow]
            BY <1>4, <1>17, <4>1 DEF EnsureBreaker, Write
          <5> QED BY <1>9, <5>1, <5>2
        <4>2. CASE draft[p].state # "NONE"
          BY <1>4, <1>6, <1>17, <4>2 DEF EnsureBreaker, NoWrite, Tally
        <4> QED BY <4>1, <4>2
      <3>5. Tally(q, draft', f)
        BY <3>1, <3>4 DEF Tally
      <3> QED BY <1>1, <1>2, <3>2, <3>3, <3>5, <1>k, TalliedStep
    <2>2. CASE req[r].pc = "insert"
      <3> DEFINE q == [req[r] EXCEPT !.pc = "count"]
      <3>1. q.pc = "count" /\ q.counted = req[r].counted /\ q.seen = 0 /\ Head(q.todo) = p
        BY <1>2, <1>3, <1>6, <2>2 DEF Request, Tally
      <3>2. Become(r, q)
        BY <1>17, <2>2 DEF EnsureBreaker
      <3> HIDE DEF q
      <3>3. draft[p].state = "NONE"
        BY <1>3, <1>6, <2>2 DEF Tally
      <3>4. ClosedRow.count = draft[p].count
        BY <1>5, <2>2, <3>3 DEF ShapeOK, NoRow, ClosedRow
      <3>5. draft' = [draft EXCEPT ![p] = ClosedRow] /\ UNCHANGED <<breaker, fails, kept>>
        BY <1>4, <1>17, <3>3 DEF EnsureBreaker, Write
      <3>6. draft'[p] = ClosedRow
        BY <1>2, <1>3, <3>5 DEF TypeOK
      <3>7. \A x \in Names : draft'[x].count = f[x] + req[r].counted[x]
        BY <1>9, <3>4, <3>5
      <3>8. Tally(q, draft', f)
        BY <3>1, <3>6, <3>7 DEF Tally, IncrementHits, ClosedRow
      <3> QED BY <1>1, <1>2, <3>2, <3>5, <3>8, <1>k, TalliedStep
    <2> QED BY <1>17, <2>1, <2>2 DEF EnsureBreaker
  <1>18. CASE IncrementFailure(r)
    <2> DEFINE n == [req[r] EXCEPT !.counted[p] = @ + 1, !.wait = CooldownFloor]
               new == [draft[p] EXCEPT !.count = @ + 1]
    <2>1. /\ n \in Request /\ n.todo = req[r].todo /\ n.seen = req[r].seen
          /\ n.counted[p] = req[r].counted[p] + 1
          /\ \A x \in Names : x # p => n.counted[x] = req[r].counted[x]
      BY <1>2, <1>3, CountedType
    <2>2. new.count = draft[p].count + 1
      BY <1>4, CountedRowType
    <2>3. IncrementHits(draft[p], n.seen)
      BY <1>3, <1>6, <1>18, <2>1 DEF IncrementFailure, Tally
    <2>4. /\ Write(r, p, new)
          /\ Become(r, IF n.seen + 1 >= TripThreshold THEN [n EXCEPT !.pc = "trip"]
                                                     ELSE Advance(n))
      BY <1>4, <1>18, <2>1, <2>3 DEF IncrementFailure
    <2> HIDE DEF n, new
    <2>5. draft' = [draft EXCEPT ![p] = new] /\ UNCHANGED <<breaker, fails, kept>>
      BY <2>4 DEF Write
    <2>6. \A x \in Names : draft'[x].count = f[x] + n.counted[x]
      <3>1. f[p] \in Nat /\ req[r].counted[p] \in Nat
        BY <1>2, <1>3, <1>f DEF Request
      <3>2. ASSUME NEW x \in Names PROVE draft'[x].count = f[x] + n.counted[x]
        <4>1. CASE x = p
          <5>1. draft'[p] = new
            BY <1>2, <1>3, <2>5 DEF TypeOK
          <5>2. draft[p].count = f[p] + req[r].counted[p]
            BY <1>3, <1>6 DEF Tally
          <5> QED BY <2>1, <2>2, <3>1, <4>1, <5>1, <5>2
        <4>2. CASE x # p
          BY <1>2, <1>6, <2>1, <2>5, <4>2 DEF TypeOK, Tally
        <4> QED BY <4>1, <4>2
      <3> QED BY <3>2
    <2>7. PICK q \in {[n EXCEPT !.pc = "trip"], Advance(n)} : Become(r, q)
      BY <2>4
    <2>8. q.pc \in {"trip", "gate"} /\ q.counted = n.counted
      <3>1. [n EXCEPT !.pc = "trip"].pc = "trip" /\ [n EXCEPT !.pc = "trip"].counted = n.counted
        BY <2>1 DEF Request
      <3> QED BY <1>2, <2>1, <2>7, <3>1, AdvanceType
    <2>9. Tally(q, draft', f)
      BY <2>6, <2>8 DEF Tally
    <2> QED BY <1>1, <1>2, <2>5, <2>7, <2>9, <1>k, TalliedStep
  <1>19. CASE TripCircuit(r)
    <2> DEFINE q == Advance(req[r])
    <2>1. q.pc = "gate" /\ q.counted = req[r].counted
      BY <1>2, AdvanceType
    <2>2. Become(r, q) /\ UNCHANGED <<breaker, fails, kept>>
      BY <1>19 DEF TripCircuit, Write, NoWrite
    <2> HIDE DEF q
    <2>3. \A x \in Names : draft'[x].count = f[x] + req[r].counted[x]
      <3> DEFINE new == TrippedRow(draft[p], req[r].now + req[r].wait)
      <3>1. req[r].now + req[r].wait \in Nat
        BY <1>2 DEF Request
      <3>2. new.count = draft[p].count
        BY <1>4, <3>1, TrippedRowType
      <3>3. draft' = draft \/ draft' = [draft EXCEPT ![p] = new]
        BY <1>4, <1>19 DEF TripCircuit, Write, NoWrite
      <3> HIDE DEF new
      <3>4. \A x \in Names : [draft EXCEPT ![p] = new][x].count = f[x] + req[r].counted[x]
        BY <1>9, <3>2
      <3>5. \A x \in Names : draft[x].count = f[x] + req[r].counted[x]
        BY <1>6 DEF Tally
      <3> QED BY <3>3, <3>4, <3>5
    <2>4. Tally(q, draft', f)
      BY <2>1, <2>3 DEF Tally
    <2> QED BY <1>1, <1>2, <2>2, <2>4, <1>k, TalliedStep
  <1> QED BY <1>10, <1>11, <1>12, <1>13, <1>14, <1>15, <1>16, <1>17, <1>18, <1>19

\* A request begins on rows nobody holds.
LEMMA TalliedBegins ==
    ASSUME IInv, Tallied, NEW r \in Requests, Begin(r), Solo'
    PROVE  Tallied'
  <1>1. PICK chain \in Chains, lane \in Lanes :
           req' = [req EXCEPT ![r] = [Idle EXCEPT
                     !.pc = "gate", !.lane = lane, !.now = clock, !.todo = chain,
                     !.calls = IF lane = "nested" THEN MaxCalls - 1 ELSE 0]]
    BY DEF Begin, Become
  <1> DEFINE q == [Idle EXCEPT
                     !.pc = "gate", !.lane = lane, !.now = clock, !.todo = chain,
                     !.calls = IF lane = "nested" THEN MaxCalls - 1 ELSE 0]
  <1>2. /\ q.pc = "gate" /\ q.counted = NoFailures /\ q.tallied = NoFailures
        /\ q.cleared = {}
    BY DEF Idle
  <1> HIDE DEF q
  <1>3. req'[r] = q /\ \A s \in Requests : s # r => req'[s] = req[s]
    BY <1>1 DEF IInv, TypeOK, q
  <1>4. \A s \in Requests : s # r => req'[s].pc = "idle" /\ req[s].pc = "idle"
    BY <1>2, <1>3 DEF Solo
  <1>5. \A s \in Requests : req[s].pc = "idle"
    BY <1>4 DEF Begin
  <1>6. \A p \in Names : draft[p] = breaker[p] /\ kept[p] = breaker[p]
    <2>1. \A p \in Names : lock[p] = NoRequest
      BY <1>5 DEF IInv, TypeOK, HeldRows, Held
    <2> QED BY <2>1, FreeFacts
  <1>7. UNCHANGED <<breaker, draft, kept, fails>>
    BY DEF Begin
  <1>8. ASSUME NEW p \in Names
        PROVE  Bases(r)'[p] = fails[p] /\ breaker[p].count = fails[p]
               /\ fails[p] = fails[p] + q.counted[p]
    <2>1. fails[p] \in Nat
      BY DEF IInv, TypeOK
    <2>2. Base(r, p)' = fails[p]
      BY <1>2, <1>3, <1>7, <2>1 DEF Base, NoFailures
    <2> QED BY <1>2, <2>1, <2>2 DEF Bases, NoFailures, Tallied
  <1>9. Tally(req'[r], draft', Bases(r)') /\ \A p \in Names : kept'[p].count = Bases(r)'[p]
    BY <1>2, <1>3, <1>6, <1>7, <1>8 DEF Tally
  <1>10. \A s \in Requests : req'[s].pc # "idle" =>
            /\ Tally(req'[s], draft', Bases(s)')
            /\ \A p \in Names : kept'[p].count = Bases(s)'[p]
    BY <1>4, <1>9
  <1>11. \A p \in Names : breaker'[p].count = fails'[p]
    BY <1>7 DEF Tallied
  <1> QED BY <1>10, <1>11 DEF Tallied, Tally, IncrementHits

\* The next call of the only open transaction starts from the tally of the ended ones.
LEMMA TalliedGoesOn ==
    ASSUME IInv, Solo, Tallied, NEW r \in Requests, NextCall(r)
    PROVE  Tallied'
  <1>1. PICK chain \in Chains :
           Become(r, [req[r] EXCEPT !.pc = "gate", !.now = clock, !.todo = chain,
                                    !.calls = @ - 1])
    BY DEF NextCall
  <1> DEFINE q == [req[r] EXCEPT !.pc = "gate", !.now = clock, !.todo = chain,
                                 !.calls = @ - 1]
  <1>2. TypeOK /\ req[r] \in Request /\ req[r].pc = "ended" /\ NoWrite
    BY DEF IInv, TypeOK, NextCall
  <1>3. /\ q.pc = "gate" /\ q.counted = req[r].counted
        /\ q.tallied = req[r].tallied /\ q.cleared = req[r].cleared
    BY <1>2 DEF Request
  <1> HIDE DEF q
  <1>4. req' = [req EXCEPT ![r] = q] /\ req'[r] = q
    BY <1>1, <1>2 DEF Become, TypeOK, q
  <1>5. Tally(req[r], draft, Bases(r))
    BY <1>2 DEF Tallied
  <1>6. Tally(q, draft', Bases(r))
    BY <1>2, <1>3, <1>5 DEF Tally, NoWrite
  <1> QED BY <1>2, <1>3, <1>4, <1>6, TalliedStep DEF NoWrite

\* The counter is exact as long as no two router transactions of a user overlap: increments
\* are lost only to a peer that reads the row while another has it locked
\* (llm_router_repository.py:5-6, whose promise is the conclusion without the hypothesis).
THEOREM AloneNothingIsLost == Spec /\ []Solo => []NoLostIncrement
  <1>1. Init => Tallied
    BY IdleType DEF Init, Tallied, NoRow, NoFailures
  <1>2. IInv /\ Tallied /\ Solo /\ Solo' /\ [Next]_vars => Tallied'
    <2> SUFFICES ASSUME IInv, Tallied, Solo, Solo', [Next]_vars PROVE Tallied'
      OBVIOUS
    <2>1. CASE UNCHANGED vars \/ Tick
      BY <2>1 DEF vars, Tick, Tallied, Tally, IncrementHits, Bases, Base
    <2>2. ASSUME NEW r \in Requests, Begin(r) PROVE Tallied'
      BY <2>2, TalliedBegins
    <2>3. ASSUME NEW r \in Requests, Succeed(r) PROVE Tallied'
      <3> DEFINE p == Cur(r)
                 cleared == IF req[r].trial /\ Seen(r, p).state = "HALF_OPEN"
                            THEN {p} ELSE {}
      <3>1. req[r].pc = "call" /\ EndCall(r, cleared)
        BY <2>3 DEF Succeed
      <3>2. cleared \in SUBSET Names /\ \A x \in cleared : lock[x] = r
        BY <3>1, SeenFacts DEF IInv, Trials, TrialEarned
      <3> HIDE DEF cleared
      <3> QED BY <3>1, <3>2, TalliedCallEnds
    <2>4. ASSUME NEW r \in Requests, Exhaust(r) PROVE Tallied'
      BY <2>4, TalliedCallEnds DEF Exhaust
    <2>5. ASSUME NEW r \in Requests, Commit(r) PROVE Tallied'
      BY <2>5, TalliedEnds DEF Commit
    <2>6. ASSUME NEW r \in Requests, UndoCall(r) PROVE Tallied'
      BY <2>6, TalliedCallUndone
    <2>7. ASSUME NEW r \in Requests, Step(r) PROVE Tallied'
      BY <2>3, <2>4, <2>5, <2>7, TalliedInside, TalliedGoesOn DEF Step
    <2>8. ASSUME NEW r \in Requests, Abort(r) \/ DeadlockVictim(r) PROVE Tallied'
      <3>1. CASE UndoCall(r)
        BY <2>6, <3>1
      <3>2. CASE ~UndoCall(r)
        <4>1. req[r].pc # "idle" /\ Undo(r)
          BY <2>8, <3>2 DEF Abort, DeadlockVictim, InCycle, Waiting
        <4> QED BY <4>1, TalliedEnds
      <3> QED BY <3>1, <3>2
    <2> QED BY <2>1, <2>2, <2>6, <2>7, <2>8 DEF Next
  <1>3. Tallied => NoLostIncrement
    BY DEF Tallied, NoLostIncrement
  <1> QED BY <1>1, <1>2, <1>3, Invariance, PTL DEF Spec

----------------------------------------------------------------------------
(***************************************************************************)
(* How much a request may still do: the safety half of RequestTerminates.  *)
(***************************************************************************)
PerProvider == MaxRepairs + 6

\* What is left for the provider being tried: the statements of a failure after the call,
\* and before it the calls that repairs allow.
AtProvider(q) ==
    CASE q.pc = "claim" -> MaxRepairs + 5
      [] q.pc = "call" -> (MaxRepairs - q.repairs) + 4
      [] q.pc \in {"ensure", "insert"} -> 3
      [] q.pc = "count" -> 2
      [] q.pc = "trip" -> 1
      [] OTHER -> PerProvider

\* What is left of the call that is under way, and after it the end of the transaction.
Work(q) ==
    CASE q.pc = "idle" -> 0
      [] q.pc = "ended" -> 1
      [] q.pc \notin {"idle", "ended"} /\ q.todo = <<>> -> 2
      [] OTHER -> (Len(q.todo) - 1) * PerProvider + AtProvider(q) + 2

\* First the calls that the transaction may still make count, then the one under way.
Less(n, q) == n.calls < q.calls \/ (n.calls = q.calls /\ Work(n) < Work(q))
NotMore(n, q) == n.calls < q.calls \/ (n.calls = q.calls /\ Work(n) <= Work(q))

RepairsBounded == \A r \in Requests : req[r].repairs <= MaxRepairs

\* A product with one more factor.
LEMMA OneMore ==
    ASSUME NEW n \in Nat \ {0}, NEW w \in Nat
    PROVE  n * w \in Nat /\ (n - 1) * w \in Nat /\ n * w = (n - 1) * w + w
  OBVIOUS

LEMMA AtProviderType ==
    ASSUME NEW q \in Request, q.repairs <= MaxRepairs
    PROVE  /\ PerProvider \in Nat /\ AtProvider(q) \in 1..PerProvider
           /\ q.pc \in {"gate", "idle", "ended"} => AtProvider(q) = PerProvider
  <1>1. MaxRepairs \in Nat /\ q.repairs \in Nat
    BY NumbersAssumption DEF Request
  <1>2. CASE q.pc = "claim"
    BY <1>1, <1>2 DEF PerProvider, AtProvider
  <1>3. CASE q.pc = "call"
    <2>1. AtProvider(q) = (MaxRepairs - q.repairs) + 4
      BY <1>3 DEF AtProvider
    <2> QED BY <1>1, <1>3, <2>1 DEF PerProvider
  <1>4. CASE q.pc \in {"ensure", "insert"}
    BY <1>1, <1>4 DEF PerProvider, AtProvider
  <1>5. CASE q.pc = "count"
    BY <1>1, <1>5 DEF PerProvider, AtProvider
  <1>6. CASE q.pc = "trip"
    BY <1>1, <1>6 DEF PerProvider, AtProvider
  <1>7. CASE q.pc \in {"idle", "gate", "ended"}
    BY <1>1, <1>7 DEF PerProvider, AtProvider
  <1>8. q.pc \in PCs
    BY DEF Request
  <1> QED BY <1>2, <1>3, <1>4, <1>5, <1>6, <1>7, <1>8 DEF PCs

LEMMA WorkType ==
    ASSUME NEW q \in Request, q.repairs <= MaxRepairs
    PROVE  /\ Work(q) \in Nat
           /\ q.pc # "idle" => Work(q) >= 1
           /\ q.pc \notin {"idle", "ended"} => Work(q) >= 2
  <1>1. CASE q.pc \in {"idle", "ended"} \/ q.todo = <<>>
    BY <1>1 DEF Work
  <1>2. CASE q.pc \notin {"idle", "ended"} /\ q.todo # <<>>
    <2>1. Len(q.todo) \in Nat \ {0}
      BY <1>2 DEF Request
    <2>2. PerProvider \in Nat /\ AtProvider(q) \in Nat
      BY AtProviderType
    <2> DEFINE c == (Len(q.todo) - 1) * PerProvider
               a == AtProvider(q)
    <2>3. c \in Nat /\ a \in Nat
      BY <2>1, <2>2, OneMore
    <2>4. Work(q) = c + a + 2
      BY <1>2 DEF Work
    <2> HIDE DEF a, c
    <2> QED BY <2>3, <2>4
  <1> QED BY <1>1, <1>2

\* Going on to the next provider is less work than anything done for this one.
LEMMA AdvanceIsLess ==
    ASSUME NEW q \in Request, q.repairs <= MaxRepairs, q.todo # <<>>,
           q.pc \notin {"idle", "ended"}
    PROVE  Work(Advance(q)) < Work(q) /\ Advance(q).repairs = 0
  <1>1. /\ Advance(q).pc = "gate" /\ Advance(q).todo = Tail(q.todo) /\ Advance(q).repairs = 0
    BY DEF Advance, Request
  <1>2. Advance(q) \in Request
    BY AdvanceType
  <1>3. /\ Len(q.todo) \in Nat \ {0} /\ Len(Tail(q.todo)) = Len(q.todo) - 1
    BY DEF Request
  <1>4. /\ PerProvider \in Nat /\ AtProvider(q) \in 1..PerProvider
        /\ AtProvider(Advance(q)) = PerProvider
    <2>1. MaxRepairs \in Nat
      BY NumbersAssumption
    <2>2. Advance(q).repairs <= MaxRepairs
      BY <1>1, <2>1
    <2> QED BY <1>1, <1>2, <2>2, AtProviderType
  <1> DEFINE k == Len(q.todo)
             a == AtProvider(q)
             w == PerProvider
  <1>5. Work(q) = (k - 1) * w + a + 2
    BY DEF Work
  <1>6. CASE Tail(q.todo) = <<>>
    <2>1. Work(Advance(q)) = 2
      BY <1>1, <1>6 DEF Work
    <2>2. (k - 1) * w \in Nat
      BY <1>3, <1>4, OneMore
    <2> HIDE DEF a, w, k
    <2> QED BY <1>1, <1>4, <1>5, <2>1, <2>2 DEF a, w
  <1>7. CASE Tail(q.todo) # <<>>
    <2>1. k - 1 \in Nat \ {0}
      <3>1. Tail(q.todo) \in Seq(Names)
        BY DEF Request
      <3>2. \A s \in Seq(Names) : s # <<>> => Len(s) \in Nat \ {0}
        OBVIOUS
      <3>3. Len(Tail(q.todo)) \in Nat \ {0}
        BY <1>7, <3>1, <3>2, Zenon
      <3> QED BY <1>3, <3>3
    <2>2. Work(Advance(q)) = (k - 2) * w + w + 2
      BY <1>1, <1>3, <1>4, <1>7 DEF Work
    <2>3. (k - 1) * w = (k - 2) * w + w /\ (k - 1) * w \in Nat
      <3>1. (k - 1) - 1 = k - 2
        BY <1>3
      <3> QED BY <1>4, <2>1, <3>1, OneMore
    <2> HIDE DEF a, w, k
    <2> QED BY <1>1, <1>4, <1>5, <2>2, <2>3 DEF a, w
  <1> QED BY <1>6, <1>7

\* Staying with the provider but getting further with it is less work.
LEMMA FurtherIsLess ==
    ASSUME NEW q \in Request, q.repairs <= MaxRepairs, q.todo # <<>>,
           q.pc \notin {"idle", "ended"},
           NEW n, n.pc \notin {"idle", "ended"}, n.todo = q.todo,
           AtProvider(n) \in Nat, AtProvider(n) < AtProvider(q)
    PROVE  Work(n) < Work(q)
  <1>1. Len(q.todo) \in Nat \ {0}
    BY DEF Request
  <1>2. PerProvider \in Nat /\ AtProvider(q) \in Nat
    BY AtProviderType
  <1> DEFINE a == AtProvider(q)
             b == AtProvider(n)
             c == (Len(q.todo) - 1) * PerProvider
  <1>3. c \in Nat
    BY <1>1, <1>2, OneMore
  <1>4. Work(q) = c + a + 2 /\ Work(n) = c + b + 2
    BY DEF Work
  <1>5. a \in Nat /\ b \in Nat /\ b < a
    BY <1>2
  <1> HIDE DEF a, b, c
  <1> QED BY <1>3, <1>4, <1>5

\* Every step inside a call leaves less of it to do, and within the repairs.
LEMMA InsideIsLess ==
    ASSUME TypeOK, Control, RepairsBounded, NEW r \in Requests,
           \/ SkipUnregistered(r) \/ HandleBreakers(r) \/ ClaimTrial(r)
           \/ KeyRejected(r) \/ Unavailable(r) \/ ShapeFailure(r)
           \/ RateLimited(r) \/ CountedFailure(r)
           \/ EnsureBreaker(r) \/ IncrementFailure(r) \/ TripCircuit(r)
    PROVE  Work(req'[r]) < Work(req[r]) /\ req'[r].repairs <= MaxRepairs
  <1> USE DEF Become
  <1> DEFINE q == req[r]
  <1>1. q \in Request /\ q.repairs <= MaxRepairs /\ q.repairs \in Nat /\ MaxRepairs \in Nat
    BY NumbersAssumption DEF TypeOK, RepairsBounded, Request
  <1>2. q.pc \notin {"idle", "ended"}
    BY DEF SkipUnregistered, AtGate, HandleBreakers, ClaimTrial, KeyRejected,
           Unavailable, ShapeFailure, RateLimited, CountedFailure, EnsureBreaker,
           IncrementFailure, TripCircuit
  <1>3. \A n : req' = [req EXCEPT ![r] = n] => req'[r] = n
    BY DEF TypeOK
  <1>4. q.todo # <<>>
    BY DEF Control, SkipUnregistered, AtGate, HandleBreakers, ClaimTrial,
       KeyRejected, Unavailable, ShapeFailure, RateLimited, CountedFailure, EnsureBreaker,
       IncrementFailure, TripCircuit
  <1>5. CASE req'[r] = Advance(q)
    BY <1>1, <1>2, <1>4, <1>5, AdvanceIsLess
  <1>6. ASSUME NEW n, req'[r] = n, n.pc \notin {"idle", "ended"}, n.todo = q.todo, n.repairs <= MaxRepairs,
               AtProvider(n) \in Nat, AtProvider(n) < AtProvider(q)
        PROVE  Work(req'[r]) < Work(req[r]) /\ req'[r].repairs <= MaxRepairs
    BY <1>1, <1>2, <1>4, <1>6, FurtherIsLess
  <1> USE NumbersAssumption
  <1>7. CASE SkipUnregistered(r) \/ KeyRejected(r) \/ Unavailable(r) \/ TripCircuit(r)
    BY <1>3, <1>5, <1>7 DEF SkipUnregistered, KeyRejected, Unavailable, TripCircuit
  <1>8. ASSUME NEW pc \in {"claim", "call"}, req'[r] = [q EXCEPT !.pc = pc], q.pc = "gate"
        PROVE  Work(req'[r]) < Work(req[r]) /\ req'[r].repairs <= MaxRepairs
    <2> DEFINE n == [q EXCEPT !.pc = pc]
    <2>1. n.pc = pc /\ n.todo = q.todo /\ n.repairs = q.repairs
      BY <1>1 DEF Request
    <2> HIDE DEF n
    <2>2. AtProvider(q) = MaxRepairs + 6
      BY <1>8 DEF AtProvider, PerProvider
    <2>3. AtProvider(n) \in Nat /\ AtProvider(n) < MaxRepairs + 6
      BY <1>1, <2>1 DEF AtProvider
    <2> QED BY <1>1, <1>6, <1>8, <2>1, <2>2, <2>3 DEF n
  <1>9. CASE HandleBreakers(r)
    BY <1>3, <1>5, <1>8, <1>9 DEF HandleBreakers, AtGate
  <1>10. CASE ClaimTrial(r)
    <2> DEFINE n == [q EXCEPT !.pc = "call", !.trial = TRUE]
    <2>1. req'[r] = n \/ req'[r] = Advance(q)
      BY <1>3, <1>10 DEF ClaimTrial
    <2>2. n.pc = "call" /\ n.todo = q.todo /\ n.repairs = q.repairs
      BY <1>1 DEF Request
    <2> HIDE DEF n
    <2>3. AtProvider(q) = MaxRepairs + 5
      BY <1>10 DEF AtProvider, ClaimTrial
    <2>4. AtProvider(n) \in Nat /\ AtProvider(n) < MaxRepairs + 5
      BY <1>1, <2>2 DEF AtProvider
    <2> QED BY <1>1, <1>5, <1>6, <2>1, <2>2, <2>3, <2>4
  <1>11. CASE ShapeFailure(r)
    <2> DEFINE n == [q EXCEPT !.repairs = @ + 1]
    <2>1. q.pc = "call"
      BY <1>11 DEF ShapeFailure
    <2>2. (q.repairs < MaxRepairs /\ req'[r] = n) \/ req'[r] = Advance(q)
      <3>1. req' = [req EXCEPT ![r] = IF q.repairs >= MaxRepairs THEN Advance(q) ELSE n]
        BY <1>11 DEF ShapeFailure
      <3> HIDE DEF q, n
      <3>2. CASE q.repairs >= MaxRepairs
        BY <1>3, <3>1, <3>2
      <3>3. CASE ~(q.repairs >= MaxRepairs)
        <4>1. req' = [req EXCEPT ![r] = n]
          BY <3>1, <3>3, Zenon
        <4>2. req'[r] = n
          BY <1>3, <4>1, Zenon
        <4>3. q.repairs < MaxRepairs
          BY <1>1, <3>3
        <4> QED BY <4>2, <4>3
      <3> QED BY <3>2, <3>3
    <2>3. n.pc = "call" /\ n.todo = q.todo /\ n.repairs = q.repairs + 1
      BY <1>1, <2>1 DEF Request
    <2> HIDE DEF n
    <2>4. CASE q.repairs < MaxRepairs /\ req'[r] = n
      <3>1. /\ AtProvider(q) = (MaxRepairs - q.repairs) + 4
            /\ AtProvider(n) = (MaxRepairs - (q.repairs + 1)) + 4
        BY <2>1, <2>3 DEF AtProvider
      <3>2. AtProvider(n) \in Nat /\ AtProvider(n) < AtProvider(q) /\ n.repairs <= MaxRepairs
        BY <1>1, <2>3, <2>4, <3>1
      <3> QED BY <1>6, <2>3, <2>4, <3>2
    <2> QED BY <1>5, <2>2, <2>4
  <1>12. CASE RateLimited(r) \/ CountedFailure(r)
    <2> DEFINE n == req'[r]
               row == Seen(r, Cur(r))
               pcs == IF row.state = "NONE" THEN "insert" ELSE "count"
    <2>1. /\ n.pc = "ensure" \/ n.pc = "insert" \/ n.pc = "count"
          /\ n.todo = q.todo /\ n.repairs = q.repairs
      <3>1. CASE RateLimited(r)
        <4>1. PICK wait : req' = [req EXCEPT ![r] = [q EXCEPT !.pc = "ensure", !.wait = wait]]
          BY <3>1, Zenon DEF RateLimited, Become
        <4>2. n = [q EXCEPT !.pc = "ensure", !.wait = wait]
          BY <1>3, <4>1, Zenon
        <4> QED BY <1>1, <4>2 DEF Request
      <3>2. CASE CountedFailure(r)
        <4>1. req' = [req EXCEPT ![r] = [q EXCEPT !.pc = pcs, !.seen = row.count]]
          BY <3>2, Zenon DEF CountedFailure, Become
        <4>2. n = [q EXCEPT !.pc = pcs, !.seen = row.count]
          BY <1>3, <4>1, Zenon
        <4>3. pcs = "insert" \/ pcs = "count"
          OBVIOUS
        <4> HIDE DEF n, row, pcs
        <4> QED BY <1>1, <4>2, <4>3 DEF Request
      <3> QED BY <1>12, <3>1, <3>2
    <2> HIDE DEF n
    <2>2. AtProvider(q) >= 4
      <3>1. q.pc = "call"
        BY <1>12 DEF RateLimited, CountedFailure
      <3>2. AtProvider(q) = (MaxRepairs - q.repairs) + 4
        BY <3>1 DEF AtProvider
      <3> QED BY <1>1, <3>2
    <2>3. AtProvider(n) \in {2, 3}
      BY <2>1 DEF AtProvider
    <2>4. AtProvider(q) \in Nat
      BY <1>1, AtProviderType
    <2>5. AtProvider(n) \in Nat /\ AtProvider(n) < AtProvider(q)
      BY <2>2, <2>3, <2>4
    <2>6. req'[r] = n
      BY DEF n
    <2>7. n.pc \notin {"idle", "ended"} /\ n.repairs <= MaxRepairs
      BY <1>1, <2>1
    <2> QED BY <1>6, <2>1, <2>5, <2>6, <2>7
  <1>13. CASE EnsureBreaker(r)
    <2>1. PICK pc \in {"trip", "count"} :
             req'[r] = [q EXCEPT !.pc = pc]
      BY <1>3, <1>13 DEF EnsureBreaker
    <2> DEFINE n == [q EXCEPT !.pc = pc]
    <2>2. n.pc = pc /\ n.todo = q.todo /\ n.repairs = q.repairs /\ req'[r] = n
      BY <1>1, <2>1 DEF Request
    <2> HIDE DEF n
    <2>3. AtProvider(q) = 3
      BY <1>13 DEF AtProvider, EnsureBreaker
    <2>4. AtProvider(n) \in {1, 2}
      BY <2>2 DEF AtProvider
    <2> QED BY <1>1, <1>6, <2>2, <2>3, <2>4
  <1>14. CASE IncrementFailure(r)
    <2> DEFINE c == [q EXCEPT !.counted[Cur(r)] = @ + 1, !.wait = CooldownFloor]
    <2>1. Cur(r) \in Names
      BY <1>4, CurType
    <2>2. /\ c \in Request /\ c.pc = "count" /\ c.todo = q.todo
      BY <1>1, <1>14, <2>1, CountedType DEF IncrementFailure
    <2>3. c.repairs = q.repairs
      BY <1>1 DEF Request
    <2>4. req'[r] \in {[c EXCEPT !.pc = "trip"], Advance(c)}
      BY <1>3, <1>14 DEF IncrementFailure
    <2> HIDE DEF c
    <2>5. q.pc = "count"
      BY <1>14 DEF IncrementFailure
    <2>6. Work(c) = Work(q)
      BY <2>2, <2>3, <2>5 DEF Work, AtProvider
    <2>7. CASE req'[r] = [c EXCEPT !.pc = "trip"]
      <3> DEFINE n == [c EXCEPT !.pc = "trip"]
      <3>1. n.pc = "trip" /\ n.todo = q.todo /\ n.repairs = q.repairs /\ req'[r] = n
        BY <2>2, <2>3, <2>7 DEF Request
      <3> HIDE DEF n
      <3>2. AtProvider(n) = 1 /\ AtProvider(q) = 2
        BY <2>5, <3>1 DEF AtProvider
      <3> QED BY <1>1, <1>6, <3>1, <3>2
    <2>8. CASE req'[r] = Advance(c)
      BY <1>1, <1>4, <2>2, <2>3, <2>6, <2>8, AdvanceIsLess
    <2> QED BY <2>4, <2>7, <2>8
  <1> QED BY <1>7, <1>9, <1>10, <1>11, <1>12, <1>13, <1>14

\* Every step of a request leaves it less to do: of the call under way, or of its calls.
LEMMA StepIsLess ==
    ASSUME TypeOK, Control, RepairsBounded, NEW r \in Requests, Step(r)
    PROVE  Less(req'[r], req[r]) /\ req'[r].repairs <= MaxRepairs
  <1> DEFINE q == req[r]
  <1>1. q \in Request /\ q.repairs <= MaxRepairs /\ MaxRepairs \in Nat /\ q.calls \in Nat
    BY NumbersAssumption DEF TypeOK, RepairsBounded, Request
  <1>2. \A n : Become(r, n) => req'[r] = n
    BY DEF Become, TypeOK
  <1>3. CASE \/ SkipUnregistered(r) \/ HandleBreakers(r) \/ ClaimTrial(r)
             \/ KeyRejected(r) \/ Unavailable(r) \/ ShapeFailure(r)
             \/ RateLimited(r) \/ CountedFailure(r)
             \/ EnsureBreaker(r) \/ IncrementFailure(r) \/ TripCircuit(r)
    <2>1. req'[r].calls = req[r].calls
      BY <1>3, InsideKeeps
    <2>2. /\ Work(req'[r]) < Work(req[r])
          /\ req'[r].repairs <= MaxRepairs
      BY <1>3, InsideIsLess
    <2>3. Less(req'[r], req[r])
      BY <2>1, <2>2, Zenon DEF Less
    <2> QED BY <2>2, <2>3
  <1>4. ASSUME NEW cleared \in SUBSET Names, EndCall(r, cleared), q.pc \notin {"idle", "ended"}
        PROVE  Less(req'[r], req[r]) /\ req'[r].repairs <= MaxRepairs
    <2>1. req'[r] = Ended(q, cleared)
      BY <1>2, <1>4 DEF EndCall
    <2> HIDE DEF q
    <2>2. /\ req'[r].pc = "ended" /\ req'[r].calls = q.calls /\ req'[r].repairs = 0
      <3>1. \A c \in SUBSET Names :
               /\ Ended(q, c).pc = "ended" /\ Ended(q, c).repairs = 0
               /\ Ended(q, c).calls = q.calls
        BY <1>1, EndedType, Zenon
      <3> QED BY <1>4, <2>1, <3>1, Zenon
    <2>3. Work(req'[r]) = 1
      BY <2>2 DEF Work
    <2>4. Work(q) >= 2 /\ Work(q) \in Nat
      BY <1>1, <1>4, WorkType
    <2> QED BY <1>1, <2>2, <2>3, <2>4 DEF Less, q
  <1>5. CASE Succeed(r)
    <2> DEFINE cleared == IF q.trial /\ Seen(r, Cur(r)).state = "HALF_OPEN"
                          THEN {Cur(r)} ELSE {}
    <2>1. q.pc = "call" /\ EndCall(r, cleared)
      BY <1>5 DEF Succeed
    <2>2. Cur(r) \in Names
      BY <2>1, CurType DEF Control
    <2>3. cleared \in SUBSET Names
      BY <2>2
    <2> HIDE DEF cleared
    <2> QED BY <1>4, <2>1, <2>3
  <1>6. CASE Exhaust(r)
    BY <1>4, <1>6 DEF Exhaust
  <1>7. CASE NextCall(r)
    <2>1. PICK chain \in Chains :
             Become(r, [q EXCEPT !.pc = "gate", !.now = clock, !.todo = chain, !.calls = @ - 1])
      BY <1>7 DEF NextCall
    <2>2. req'[r] = [q EXCEPT !.pc = "gate", !.now = clock, !.todo = chain, !.calls = @ - 1]
      BY <1>2, <2>1
    <2>3. req'[r].calls = q.calls - 1 /\ req'[r].repairs = q.repairs
      BY <1>1, <2>2 DEF Request
    <2> QED BY <1>1, <2>3 DEF Less
  <1>8. CASE Commit(r)
    <2>1. q.pc = "ended" /\ req'[r] = Idle
      BY <1>2, <1>8 DEF Commit
    <2>2. Work(q) = 1 /\ Work(req'[r]) = 0 /\ req'[r].calls = 0 /\ req'[r].repairs = 0
      BY <2>1, IdleType DEF Work
    <2> QED BY <1>1, <2>2 DEF Less
  <1> QED BY <1>3, <1>5, <1>6, <1>7, <1>8 DEF Step

\* A step of a request changes the locals of no other.
LEMMA OthersStay ==
    ASSUME TypeOK, NEW r \in Requests,
           Begin(r) \/ Step(r) \/ Abort(r) \/ UndoCall(r) \/ DeadlockVictim(r),
           NEW s \in Requests, s # r
    PROVE  req'[s] = req[s]
  <1>1. \A q : Become(r, q) => req'[s] = req[s]
    BY DEF Become, TypeOK
  <1>2. CASE Begin(r) \/ NextCall(r) \/ Commit(r)
    BY <1>1, <1>2 DEF Begin, NextCall, Commit
  <1>3. CASE Abort(r) \/ UndoCall(r) \/ DeadlockVictim(r)
    BY <1>1, <1>3 DEF Abort, UndoCall, DeadlockVictim, Undo
  <1>4. CASE SkipUnregistered(r) \/ HandleBreakers(r) \/ ClaimTrial(r)
    BY <1>1, <1>4 DEF SkipUnregistered, HandleBreakers, ClaimTrial
  <1>5. CASE KeyRejected(r) \/ Succeed(r) \/ Unavailable(r) \/ ShapeFailure(r)
    BY <1>1, <1>5 DEF KeyRejected, Succeed, EndCall, Unavailable, ShapeFailure
  <1>6. CASE RateLimited(r) \/ CountedFailure(r) \/ EnsureBreaker(r)
    BY <1>1, <1>6 DEF RateLimited, CountedFailure, EnsureBreaker
  <1>7. CASE IncrementFailure(r) \/ TripCircuit(r) \/ Exhaust(r)
    BY <1>1, <1>7 DEF IncrementFailure, TripCircuit, Exhaust, EndCall
  <1> QED BY <1>2, <1>3, <1>4, <1>5, <1>6, <1>7 DEF Step

\* Every step of a request leaves it less to do (first fewer calls, then less of the one
\* under way), and no step of a peer, of PostgreSQL or of the clock leaves it more.
WorkShrinks ==
    \A r \in Requests :
        /\ Work(req[r]) \in Nat /\ req[r].calls \in Nat
        /\ Step(r) => Less(req'[r], req[r])
        /\ Begin(r) \/ NotMore(req'[r], req[r])

\* A request takes at most as many steps of its own as its calls and the chains they begin
\* with allow: for each provider the calls and repairs and the breaker statements of a
\* failure, then the end of the chain, and the calls an extraction may make
\* (route_llm_request, generate_structured, extract_job). Of RequestTerminates this is the
\* part that no fairness is needed for.
THEOREM RequestsRunOut == Spec => [][WorkShrinks]_vars
  <1>1. Init => RepairsBounded
    <2> SUFFICES ASSUME Init PROVE RepairsBounded
      OBVIOUS
    <2>1. \A r \in Requests : req[r].repairs = 0
      BY IdleType DEF Init
    <2>2. MaxRepairs \in Nat
      BY NumbersAssumption
    <2>3. 0 <= MaxRepairs
      BY <2>2
    <2> QED BY <2>1, <2>3 DEF RepairsBounded
  <1>2. ASSUME IInv, RepairsBounded, [Next]_vars
        PROVE  RepairsBounded' /\ [WorkShrinks]_vars
    <2>1. TypeOK /\ Control
      BY <1>2 DEF IInv
    <2>2. ASSUME NEW r \in Requests
          PROVE  /\ Work(req[r]) \in Nat /\ req[r].calls \in Nat
                 /\ req[r].repairs <= MaxRepairs
                 /\ Step(r) => Less(req'[r], req[r])
      <3>1. req[r] \in Request /\ req[r].repairs <= MaxRepairs
        BY <1>2, <2>1 DEF TypeOK, RepairsBounded
      <3>2. Work(req[r]) \in Nat /\ req[r].calls \in Nat
        BY <3>1, WorkType DEF Request
      <3>3. Step(r) => Less(req'[r], req[r])
        BY <1>2, <2>1, StepIsLess
      <3> QED BY <3>1, <3>2, <3>3
    <2>3. \A r \in Requests : req'[r] = req[r] => NotMore(req'[r], req[r])
      BY <2>2 DEF NotMore
    <2>4. CASE UNCHANGED vars \/ Tick
      <3>1. req' = req
        BY <2>4 DEF vars, Tick
      <3> QED BY <2>2, <2>3, <3>1 DEF RepairsBounded, WorkShrinks
    <2>5. ASSUME NEW r \in Requests,
                 Begin(r) \/ Step(r) \/ Abort(r) \/ UndoCall(r) \/ DeadlockVictim(r)
          PROVE  RepairsBounded' /\ WorkShrinks
      <3>1. \A s \in Requests : s # r => req'[s] = req[s]
        BY <2>1, <2>5, OthersStay
      <3>2. req[r] \in Request /\ \A n : Become(r, n) => req'[r] = n
        BY <2>1 DEF Become, TypeOK
      <3>3. ASSUME req'[r].repairs <= MaxRepairs, Begin(r) \/ NotMore(req'[r], req[r])
            PROVE  RepairsBounded' /\ WorkShrinks
        <4>1. RepairsBounded'
          BY <2>2, <3>1, <3>3 DEF RepairsBounded
        <4>2. \A s \in Requests : Begin(s) \/ NotMore(req'[s], req[s])
          BY <2>3, <3>1, <3>3
        <4> QED BY <2>2, <4>1, <4>2 DEF WorkShrinks
      <3>4. CASE Begin(r)
        <4>1. req'[r].repairs = 0
          <5>1. \E chain \in Chains, lane \in Lanes :
                   req'[r] = [Idle EXCEPT !.pc = "gate", !.lane = lane, !.now = clock,
                       !.todo = chain, !.calls = IF lane = "nested" THEN MaxCalls - 1 ELSE 0]
            BY <3>2, <3>4, Zenon DEF Begin
          <5> QED BY <5>1 DEF Idle
        <4>2. MaxRepairs \in Nat
          BY NumbersAssumption
        <4> QED BY <3>3, <3>4, <4>1, <4>2
      <3>5. CASE Step(r)
        <4>1. Less(req'[r], req[r]) /\ req'[r].repairs <= MaxRepairs
          BY <1>2, <2>1, <3>5, StepIsLess
        <4>2. req'[r] \in Request
          <5>1. IInv'
            BY <1>2, <3>5, StepKeeps
          <5> QED BY <5>1 DEF IInv, TypeOK
        <4>3. Work(req'[r]) \in Nat
          BY <4>1, <4>2, WorkType
        <4>4. NotMore(req'[r], req[r])
          BY <2>2, <4>1, <4>3 DEF Less, NotMore
        <4> QED BY <3>3, <4>1, <4>4
      <3>6. CASE Undo(r)
        <4>1. req'[r] = Idle
          BY <3>2, <3>6 DEF Undo
        <4>2. Work(req'[r]) = 0 /\ req'[r].repairs = 0 /\ req'[r].calls = 0
          BY <4>1, IdleType DEF Work
        <4>3. NotMore(req'[r], req[r])
          BY <2>2, <4>2 DEF NotMore
        <4>4. MaxRepairs \in Nat
          BY NumbersAssumption
        <4> QED BY <3>3, <4>2, <4>3, <4>4
      <3>7. CASE UndoCall(r)
        <4>1. req'[r] = Between(req[r]) /\ req[r].pc # "idle"
          BY <3>2, <3>7 DEF UndoCall
        <4>2. /\ req'[r].pc = "ended" /\ req'[r].calls = req[r].calls
              /\ req'[r].repairs = 0
          BY <3>2, <4>1, BetweenType
        <4>3. Work(req'[r]) = 1
          BY <4>2 DEF Work
        <4>4. Work(req[r]) >= 1
          BY <2>2, <3>2, <4>1, WorkType
        <4>5. NotMore(req'[r], req[r])
          BY <2>2, <4>2, <4>3, <4>4 DEF NotMore
        <4>6. MaxRepairs \in Nat
          BY NumbersAssumption
        <4> QED BY <3>3, <4>2, <4>5, <4>6
      <3> QED BY <2>5, <3>4, <3>5, <3>6, <3>7 DEF Abort, DeadlockVictim
    <2> QED BY <1>2, <2>4, <2>5 DEF Next
  <1> QED BY <1>1, <1>2, Invariance, PTL DEF Spec
============================================================================
