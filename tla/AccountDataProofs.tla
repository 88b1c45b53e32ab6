------------------------- MODULE AccountDataProofs -------------------------
(***************************************************************************)
(* Proofs about AccountData for any number of concurrent calls, any keys   *)
(* and orders of them, any provider ids, any names and chains of them, and *)
(* any number of requests in an extraction.                                *)
(***************************************************************************)
EXTENDS AccountData, FiniteSetTheorems, TLAPS

(***************************************************************************)
(* The inductive invariant.                                                *)
(***************************************************************************)
Requests == {"walk", "call", "failure", "usage"}

\* Left is what is left of order, and the rest of it is behind.
Ahead(q) ==
    /\ Len(q.left) <= Len(q.order)
    /\ \A i \in 1..Len(q.left) : q.left[i] = q.order[Len(q.order) - Len(q.left) + i]
Behind(q) == Len(q.order) - Len(q.left)
Passed(q, r) == \E i \in 1..Behind(q) : q.order[i] = r
PassedBefore(q, r) == \E i \in 1..(Behind(q) - 1) : q.order[i] = r

\* A request has come to the name when it records a use of its provider, and
\* once more when it comes to it with one recorded.
Comes(q) ==
    /\ Ahead(q) /\ Len(q.order) <= MaxNames
    /\ q.pc = "walk" => (Names(q.left, "breaker") => q.id \in Ids)
    /\ q.pc \in {"call", "failure", "usage"} => q.id \in Ids
    /\ q.pc \in {"call", "failure"} =>
          /\ Behind(q) >= 1 /\ q.order[Behind(q)] = "breaker"
          /\ q.used # {} => PassedBefore(q, "breaker")
    /\ q.pc = "usage" \/ q.used # {} => Passed(q, "breaker")

\* What a call has in hand at each of its steps.
Control(q) ==
    /\ q.pc = "idle" => q.op = "none"
    /\ q.pc = "upsert" => q.op = "settings" /\ q.left # <<>>
    /\ q.pc \in {"probe", "put"} => q.op = "profile"
    /\ q.pc \in {"count", "insert"} => q.op = "add"
    /\ q.pc \in {"dropBreaker", "dropRow"} => q.op = "delete"
    /\ q.pc \in Requests => q.op = "request" /\ Comes(q)
    /\ q.op = "settings" => Ahead(q) /\ q.order \in Seq(Keys) /\ q.left \in Seq(Keys)
    /\ q.op = "delete" \/ (q.op = "add" /\ q.pc = "commit") => q.id \in Ids
    /\ q.op = "request" => q.turns # 0
    /\ q.op # "request" => q.used = {} /\ q.draft # "row"
    /\ q.draft = "gone" => q.op = "delete" /\ q.pc # "dropBreaker"
    /\ q.draft = "row" /\ q.pc # "usage" => q.used # {}

\* Which rows a call may have locked.
Holds(q, r) ==
    /\ q.op # "none"
    /\ r \in Keys => q.op = "settings" /\ Passed(q, r)
    /\ r = "profile" => q.op = "profile" /\ q.pc = "commit"
    /\ r = "breaker" /\ q.op = "delete" => q.pc \in {"dropRow", "commit"}
    /\ r = "breaker" /\ q.op # "delete" => q.op = "request" /\ (q.pc = "commit" \/ Passed(q, r))
    /\ r \in Elsewhere => q.op = "request" /\ (q.pc = "commit" \/ Passed(q, r))
    /\ r \in Ids => q.op = "delete" /\ q.pc = "commit"
Held(c, q) == \A r \in Rows : lock[r] = c => Holds(q, r)

\* What a call that is about to commit has locked, and what it relies on.
Writes(c, q) ==
    /\ q.op = "profile" /\ q.pc = "commit" => lock["profile"] = c /\ (~q.exists => profile = 0)
    /\ q.op = "delete" /\ q.pc = "commit" => lock[q.id] = c /\ \A d \in Calls : q.id \notin call[d].used

Good(c, q) == Control(q) /\ Held(c, q) /\ Writes(c, q)
LocalsOK == \A c \in Calls : Good(c, call[c])

\* An add that has counted none is still right, unless another did so too.
Counted(q) == q.op = "add" /\ q.pc \in {"insert", "commit"}
CountsHold == (\E c \in Calls : Counted(call[c])) /\ "add" \notin raced => provider = {}

\* A delete that goes on without having seen the breaker's row.
Blind(q) == q.op = "delete" /\ q.pc \in {"dropRow", "commit"} /\ q.draft # "gone"

\* The breaker's row has a provider that no such delete is about to remove.
Covered == breaker /\ "delete" \notin raced =>
    \E i \in provider : \A c \in Calls : Blind(call[c]) => call[c].id # i

AccInv ==
    /\ TypeOK /\ IsFiniteSet(provider) /\ LocalsOK
    /\ ProfileCreatedOnce /\ RecordedProviderStays /\ UniqueUnlessRaced
    /\ CountsHold /\ Covered
-----------------------------------------------------------------------------
LEMMA BlankIsIdle ==
    /\ Blank \in Call /\ Blank.pc = "idle" /\ Blank.op = "none" /\ Blank.used = {}
    /\ Blank.draft = "none" /\ Blank.left = <<>> /\ Blank.order = <<>> /\ Blank.turns = 0
  BY TurnAssumption DEF Blank, Call, Ops, PCs

LEMMA BlankIsControlled == Control(Blank)
  BY BlankIsIdle DEF Control, Requests

LEMMA InitAccount == Init => AccInv
  <1> SUFFICES ASSUME Init PROVE AccInv
    OBVIOUS
  <1>1. TypeOK
    BY BlankIsIdle DEF Init, TypeOK
  <1>2. IsFiniteSet(provider) /\ Cardinality(provider) = 0
    BY FS_EmptySet DEF Init
  <1>3. LocalsOK
    <2> SUFFICES ASSUME NEW c \in Calls PROVE Good(c, call[c])
      BY DEF LocalsOK
    <2>1. call[c] = Blank /\ \A r \in Rows : lock[r] # c
      BY SentinelAssumption DEF Init
    <2> QED BY <2>1, BlankIsIdle, BlankIsControlled DEF Good, Held, Writes
  <1>4. ProfileCreatedOnce /\ RecordedProviderStays /\ UniqueUnlessRaced
    BY <1>2, BlankIsIdle DEF Init, ProfileCreatedOnce, RecordedProviderStays, UniqueUnlessRaced
  <1>5. CountsHold /\ Covered
    BY DEF Init, CountsHold, Covered
  <1> QED BY <1>1, <1>2, <1>3, <1>4, <1>5 DEF AccInv

LEMMA CallFacts ==
    ASSUME AccInv, NEW c \in Calls
    PROVE  call[c] \in Call /\ Good(c, call[c])
  BY DEF AccInv, TypeOK, LocalsOK
-----------------------------------------------------------------------------
(***************************************************************************)
(* A step of a call that goes on.  It may have locked rows that nobody     *)
(* else had, and recorded the use of a provider whose row is free.         *)
(***************************************************************************)
Takes(c) == /\ lock' \in [Rows -> Calls \cup {NoCall}]
            /\ \A r \in Rows : lock'[r] = lock[r] \/ (Free(c, r) /\ lock'[r] = c)

Records(c, q) == \/ q.used = call[c].used
                 \/ \E i \in provider : Free(c, i) /\ q.used = call[c].used \cup {i}

LEMMA WorkStep ==
    ASSUME AccInv, NEW c \in Calls, NEW q \in Call, Moves(c, q), UNCHANGED stored,
           Takes(c), Records(c, q), Control(q), Held(c, q)', Writes(c, q)',
           Counted(q) => Counted(call[c]) \/ provider = {},
           Blind(q) => (Blind(call[c]) /\ q.id = call[c].id) \/ ~breaker
    PROVE  AccInv'
  <1>1. call' \in [Calls -> Call] /\ \A d \in Calls : call'[d] = IF d = c THEN q ELSE call[d]
    BY DEF AccInv, TypeOK, Moves
  <1>2. TypeOK'
    BY <1>1 DEF AccInv, TypeOK, Takes, stored
  <1>3. UNCHANGED <<profile, provider, breaker, raced>>
    BY DEF stored
  <1>4. ASSUME NEW d \in Calls, d # c
        PROVE  Good(d, call[d])'
    <2>1. call'[d] = call[d] /\ Good(d, call[d]) /\ d # NoCall /\ call[d] \in Call
      BY <1>1, <1>4, CallFacts, SentinelAssumption
    <2>2. \A r \in Rows : lock[r] = d <=> lock'[r] = d
      BY <1>4, <2>1 DEF Takes, Free
    <2>3. Held(d, call[d])'
      BY <2>1, <2>2 DEF Good, Held, Holds, Passed
    <2>4. ASSUME call[d].op = "delete", call[d].pc = "commit"
          PROVE  lock'[call[d].id] = d /\ \A e \in Calls : call[d].id \notin call'[e].used
      <3>1. /\ call[d].id \in Rows /\ lock[call[d].id] = d
            /\ \A e \in Calls : call[d].id \notin call[e].used
        BY <2>1, <2>4 DEF Good, Control, Writes, Rows
      <3>2. \A i : Free(c, i) => i # call[d].id
        BY <1>4, <2>1, <3>1 DEF Free
      <3>3. call[d].id \notin q.used
        BY <3>1, <3>2 DEF Records
      <3> QED BY <1>1, <2>2, <3>1, <3>3
    <2>5. "profile" \in Rows
      BY DEF Rows
    <2>6. Writes(d, call[d])'
      BY <1>3, <2>1, <2>2, <2>4, <2>5 DEF Good, Writes
    <2> QED BY <2>1, <2>3, <2>6 DEF Good
  <1>5. Good(c, call[c])'
    BY <1>1 DEF Good, Held, Writes
  <1>6. LocalsOK'
    BY <1>4, <1>5 DEF LocalsOK
  <1>7. RecordedProviderStays'
    <2>1. q.used \subseteq provider
      BY DEF AccInv, RecordedProviderStays, Records
    <2> QED BY <1>1, <1>3, <2>1 DEF AccInv, RecordedProviderStays
  <1>8. CountsHold'
    <2>1. (\E d \in Calls : Counted(call'[d])) => provider = {} \/ \E d \in Calls : Counted(call[d])
      BY <1>1
    <2> QED BY <1>3, <2>1 DEF AccInv, CountsHold, Counted
  <1>9. Covered'
    <2> SUFFICES ASSUME breaker, "delete" \notin raced
                 PROVE  \E i \in provider : \A d \in Calls : Blind(call'[d]) => call'[d].id # i
      BY <1>3 DEF Covered, Blind
    <2>1. PICK i \in provider : \A d \in Calls : Blind(call[d]) => call[d].id # i
      BY DEF AccInv, Covered
    <2>2. \A d \in Calls : Blind(call'[d]) => call'[d].id # i
      BY <1>1, <2>1
    <2> QED BY <2>2
  <1>10. ProfileCreatedOnce' /\ UniqueUnlessRaced' /\ IsFiniteSet(provider)'
    BY <1>3 DEF AccInv, ProfileCreatedOnce, UniqueUnlessRaced
  <1> QED BY <1>2, <1>6, <1>7, <1>8, <1>9, <1>10 DEF AccInv

\* A step that locks nothing.
LEMMA QuietStep ==
    ASSUME AccInv, NEW c \in Calls, NEW q \in Call, Moves(c, q), UNCHANGED <<stored, lock>>,
           Records(c, q), Control(q),
           \/ call[c].pc = "idle"
           \/ /\ call[c].pc \notin {"commit", "dropRow"}
              /\ q.op = call[c].op /\ q.order = call[c].order /\ q.left = call[c].left,
           q.pc = "commit" => q.op \notin {"profile", "delete"},
           Counted(q) => Counted(call[c]) \/ provider = {},
           Blind(q) => ~breaker
    PROVE  AccInv'
  <1>1. Good(c, call[c])
    BY CallFacts
  <1>2. Takes(c)
    BY DEF AccInv, TypeOK, Takes
  <1>3. ASSUME NEW r \in Rows, lock[r] = c
        PROVE  Holds(q, r)
    <2>1. Holds(call[c], r) /\ Control(call[c])
      BY <1>1, <1>3 DEF Good, Held
    <2> QED BY <2>1 DEF Holds, Control, Passed, Behind
  <1>4. Held(c, q)'
    BY <1>3 DEF Held
  <1>5. Writes(c, q)'
    BY DEF Writes
  <1> QED BY <1>2, <1>4, <1>5, WorkStep
-----------------------------------------------------------------------------
(***************************************************************************)
(* The calls begin.                                                        *)
(***************************************************************************)
LEMMA BeginStep ==
    ASSUME AccInv, NEW c \in Calls, NEW q \in Call, Begins(c, q), Control(q), q.used = {},
           q.pc \notin {"commit", "insert", "dropRow"}
    PROVE  AccInv'
  <1>1. call[c].pc = "idle" /\ call[c].used = {}
    BY CallFacts DEF Begins, At, Good, Control
  <1> QED BY <1>1, QuietStep DEF Begins, Records, Counted, Blind

LEMMA BeginSteps ==
    ASSUME AccInv, NEW c \in Calls,
           \/ \E order \in Orders : UpdateSettings(c, order)
           \/ PutProfile(c)
           \/ AddProvider(c)
           \/ \E id \in Ids : DeleteProvider(c, id)
    PROVE  AccInv'
  <1>1. ASSUME NEW order \in Orders, UpdateSettings(c, order)
        PROVE  AccInv'
    <2>1. PICK q : q = [Blank EXCEPT !.op = "settings", !.pc = "upsert", !.order = order, !.left = order]
      OBVIOUS
    <2>2. order \in Seq(Keys) /\ order # <<>> /\ order \in Seq(Keys \cup Breakers)
      <3>1. order \in Seq(Keys) /\ order # <<>>
        BY OrderAssumption
      <3> QED BY <3>1
    <2>3. q \in Call
      BY <2>1, <2>2, BlankIsIdle DEF Call, Ops, PCs
    <2>4. /\ q.op = "settings" /\ q.pc = "upsert" /\ q.order = order /\ q.left = order
          /\ q.used = {} /\ q.draft = "none"
      BY <2>1 DEF Blank
    <2>5. Ahead(q)
      BY <2>2, <2>4 DEF Ahead
    <2>6. Control(q)
      BY <2>2, <2>4, <2>5 DEF Control, Requests
    <2> QED BY <1>1, <2>1, <2>3, <2>4, <2>6, BeginStep DEF UpdateSettings
  <1>2. ASSUME PutProfile(c)
        PROVE  AccInv'
    <2>1. PICK q : q = [Blank EXCEPT !.op = "profile", !.pc = "probe"]
      OBVIOUS
    <2>2. q \in Call
      BY <2>1, BlankIsIdle DEF Call, Ops, PCs
    <2>3. q.op = "profile" /\ q.pc = "probe" /\ q.used = {} /\ q.draft = "none"
      BY <2>1 DEF Blank
    <2>4. Control(q)
      BY <2>3 DEF Control, Requests
    <2> QED BY <1>2, <2>1, <2>2, <2>3, <2>4, BeginStep DEF PutProfile
  <1>3. ASSUME AddProvider(c)
        PROVE  AccInv'
    <2>1. PICK q : q = [Blank EXCEPT !.op = "add", !.pc = "count"]
      OBVIOUS
    <2>2. q \in Call
      BY <2>1, BlankIsIdle DEF Call, Ops, PCs
    <2>3. q.op = "add" /\ q.pc = "count" /\ q.used = {} /\ q.draft = "none"
      BY <2>1 DEF Blank
    <2>4. Control(q)
      BY <2>3 DEF Control, Requests
    <2> QED BY <1>3, <2>1, <2>2, <2>3, <2>4, BeginStep DEF AddProvider
  <1>4. ASSUME NEW id \in Ids, DeleteProvider(c, id)
        PROVE  AccInv'
    <2>1. PICK q : q = [Blank EXCEPT !.op = "delete", !.pc = "dropBreaker", !.id = id]
      OBVIOUS
    <2>2. q \in Call
      BY <2>1, BlankIsIdle DEF Call, Ops, PCs
    <2>3. q.op = "delete" /\ q.pc = "dropBreaker" /\ q.id = id /\ q.used = {} /\ q.draft = "none"
      BY <2>1 DEF Blank
    <2>4. Control(q)
      BY <2>3 DEF Control, Requests
    <2> QED BY <1>4, <2>1, <2>2, <2>3, <2>4, BeginStep DEF DeleteProvider
  <1> QED BY <1>1, <1>2, <1>3, <1>4
-----------------------------------------------------------------------------
(***************************************************************************)
(* Settings, the profile, and providers.                                   *)
(***************************************************************************)
LEMMA TailFacts ==
    ASSUME NEW S, NEW s \in Seq(S), s # <<>>
    PROVE  /\ Len(s) \in Nat /\ Len(s) > 0
           /\ Tail(s) \in Seq(S) /\ Len(Tail(s)) = Len(s) - 1
           /\ \A i \in 1..(Len(s) - 1) : Tail(s)[i] = s[i + 1]
           /\ Head(s) = s[1] /\ Head(s) \in S
  OBVIOUS

\* A call goes on to the next of the rows it named.
LEMMA OneOn ==
    ASSUME NEW S, NEW p, NEW q, p.order \in Seq(S), p.left \in Seq(S), p.left # <<>>, Ahead(p),
           q.order = p.order, q.left = Tail(p.left)
    PROVE  /\ Ahead(q) /\ Behind(p) \in Nat /\ Behind(q) = Behind(p) + 1
           /\ Behind(q) \in 1..Len(p.order)
           /\ q.order[Behind(q)] = Head(p.left) /\ Head(p.left) \in S
           /\ q.left \in Seq(S) /\ Len(q.left) = Len(p.left) - 1
  <1> DEFINE left == p.left
             order == p.order
             n == Len(order) - Len(left)
  <1>1. /\ Len(left) \in Nat /\ Len(left) > 0 /\ Len(order) \in Nat /\ Len(left) <= Len(order)
        /\ Tail(left) \in Seq(S) /\ Len(Tail(left)) = Len(left) - 1
        /\ \A i \in 1..(Len(left) - 1) : Tail(left)[i] = left[i + 1]
        /\ Head(left) = left[1] /\ Head(left) \in S
    BY TailFacts DEF Ahead
  <1>2. \A i \in 1..Len(left) : left[i] = order[n + i]
    BY DEF Ahead
  <1>3. /\ q.left = Tail(left) /\ q.order = order /\ Len(q.left) = Len(left) - 1
        /\ \A i \in 1..(Len(left) - 1) : q.left[i] = left[i + 1]
    BY <1>1
  <1>4. Behind(p) = n /\ n \in Nat /\ Behind(q) = n + 1 /\ n + 1 \in 1..Len(order)
    <2>1. Behind(p) = n /\ Behind(q) = Len(order) - Len(q.left)
      BY <1>3 DEF Behind
    <2> HIDE DEF left, order
    <2> QED BY <1>1, <1>3, <2>1
  <1> HIDE DEF left, order
  <1>5. Head(left) = order[n + 1]
    <2>1. 1 \in 1..Len(left)
      BY <1>1
    <2> QED BY <1>1, <1>2, <2>1
  <1>6. ASSUME NEW i \in 1..Len(q.left)
        PROVE  q.left[i] = q.order[Len(q.order) - Len(q.left) + i]
    <2>1. i \in 1..(Len(left) - 1) /\ i + 1 \in 1..Len(left) /\ n + (i + 1) = (n + 1) + i
      BY <1>1, <1>3, <1>4
    <2>2. left[i + 1] = order[n + (i + 1)] /\ q.left[i] = left[i + 1]
      BY <1>2, <1>3, <2>1
    <2>3. Len(q.order) - Len(q.left) + i = n + (i + 1)
      <3>1. Len(q.order) = Len(order) /\ Len(q.left) = Len(left) - 1
        BY <1>3
      <3>2. PICK x \in Nat, y \in Nat : x = Len(order) /\ y = Len(left)
        BY <1>1
      <3>3. x - (y - 1) + i = (x - y) + (i + 1)
        BY <2>1
      <3> QED BY <3>1, <3>2, <3>3
    <2> QED BY <1>3, <2>2, <2>3
  <1>7. Len(q.left) <= Len(q.order)
    BY <1>1, <1>3
  <1>8. Ahead(q)
    BY <1>6, <1>7 DEF Ahead
  <1> QED BY <1>1, <1>3, <1>4, <1>5, <1>8 DEF left, order

LEMMA OnePassed ==
    ASSUME NEW p, NEW q, q.order = p.order, Behind(p) \in Nat, Behind(q) = Behind(p) + 1
    PROVE  /\ Passed(q, q.order[Behind(q)])
           /\ \A r : Passed(p, r) => Passed(q, r) /\ PassedBefore(q, r)
  <1>1. Behind(q) \in 1..Behind(q)
    OBVIOUS
  <1>2. 1..Behind(p) \subseteq 1..Behind(q) /\ Behind(q) - 1 = Behind(p)
    OBVIOUS
  <1> QED BY <1>1, <1>2 DEF Passed, PassedBefore

LEMMA UpsertStep ==
    ASSUME AccInv, NEW c \in Calls, Upsert(c)
    PROVE  AccInv'
  <1> DEFINE left == call[c].left
             order == call[c].order
  <1>1. /\ call[c] \in Call /\ call[c].pc = "upsert" /\ call[c].op = "settings"
        /\ left # <<>> /\ Ahead(call[c]) /\ Good(c, call[c])
        /\ left \in Seq(Keys) /\ order \in Seq(Keys)
        /\ call[c].used = {} /\ call[c].draft # "row" /\ call[c].draft # "gone"
    BY CallFacts DEF Upsert, At, Good, Control, Call
  <1>2. PICK q, pc : /\ q = [call[c] EXCEPT !.left = Tail(left), !.pc = pc]
                     /\ pc = IF Len(left) = 1 THEN "commit" ELSE "upsert"
    OBVIOUS
  <1>3. /\ q.pc = pc /\ q.left = Tail(left) /\ q.order = order /\ q.op = "settings"
        /\ q.used = call[c].used /\ q.draft = call[c].draft
    BY <1>1, <1>2 DEF Call
  <1>4. Moves(c, q)
    BY <1>1, <1>2 DEF Upsert, Moves
  <1>5. /\ Ahead(q) /\ Behind(call[c]) \in Nat /\ Behind(q) = Behind(call[c]) + 1
        /\ q.order[Behind(q)] = Head(left) /\ Head(left) \in Keys
        /\ q.left \in Seq(Keys) /\ Len(q.left) = Len(left) - 1
    BY <1>1, <1>3, OneOn
  <1>6. Passed(q, Head(left)) /\ \A r : Passed(call[c], r) => Passed(q, r)
    BY <1>3, <1>5, OnePassed
  <1>7. pc \in {"commit", "upsert"} /\ (pc = "upsert" => q.left # <<>>)
    <2>1. Len(left) \in Nat /\ (q.left = <<>> => Len(q.left) = 0)
      BY <1>1
    <2> QED BY <1>2, <1>5, <2>1
  <1>8. q \in Call
    <2>1. q.left \in Seq(Keys \cup Breakers)
      BY <1>5
    <2> QED BY <1>1, <1>2, <1>3, <1>7, <2>1 DEF Call, PCs
  <1> HIDE DEF left, order
  <1>9. Control(q)
    <2>1. q.used = {} /\ q.draft # "row" /\ q.draft # "gone" /\ q.pc \in {"commit", "upsert"}
      BY <1>1, <1>3, <1>7
    <2>2. q.order \in Seq(Keys)
      BY <1>1, <1>3
    <2> QED BY <1>3, <1>5, <1>7, <2>1, <2>2 DEF Control, Requests
  <1>10. Free(c, Head(left)) /\ lock' = [lock EXCEPT ![Head(left)] = c] /\ UNCHANGED stored
    BY DEF Upsert, Locks, left
  <1>11. Takes(c)
    BY <1>10 DEF AccInv, TypeOK, Takes
  <1>12. Held(c, q)'
    <2> SUFFICES ASSUME NEW r \in Rows, lock'[r] = c PROVE r \in Keys /\ Passed(q, r)
      BY <1>3, RowAssumption DEF Held, Holds
    <2>1. CASE r = Head(left)
      BY <1>5, <1>6, <2>1
    <2>2. CASE r # Head(left)
      <3>1. lock[r] = c
        BY <1>10, <2>2 DEF AccInv, TypeOK
      <3>2. r \in Keys /\ Passed(call[c], r)
        BY <1>1, <3>1 DEF Good, Held, Holds, Rows, Breakers
      <3> QED BY <1>6, <3>2
    <2> QED BY <2>1, <2>2
  <1>13. Writes(c, q)' /\ Records(c, q) /\ ~Counted(q) /\ ~Blind(q)
    BY <1>3 DEF Writes, Records, Counted, Blind
  <1> QED BY <1>4, <1>8, <1>9, <1>10, <1>11, <1>12, <1>13, WorkStep

LEMMA ProbeStep ==
    ASSUME AccInv, NEW c \in Calls, ProbeProfile(c)
    PROVE  AccInv'
  <1>1. call[c] \in Call /\ call[c].pc = "probe" /\ call[c].op = "profile" /\ Control(call[c])
    BY CallFacts DEF ProbeProfile, At, Good, Control
  <1>2. PICK q : q = [call[c] EXCEPT !.pc = "put", !.exists = profile > 0]
    OBVIOUS
  <1>3. q \in Call
    <2>1. (profile > 0) \in BOOLEAN
      OBVIOUS
    <2>2. "put" \in PCs
      BY DEF PCs
    <2> QED BY <1>1, <1>2, <2>1, <2>2 DEF Call
  <1>4. /\ q.pc = "put" /\ q.op = "profile" /\ q.order = call[c].order /\ q.left = call[c].left
        /\ q.used = call[c].used /\ q.draft = call[c].draft
    BY <1>1, <1>2 DEF Call
  <1>5. Control(q)
    BY <1>1, <1>4 DEF Control, Requests
  <1> QED BY <1>1, <1>2, <1>3, <1>4, <1>5, QuietStep DEF ProbeProfile, Records, Counted, Blind

LEMMA PutStep ==
    ASSUME AccInv, NEW c \in Calls, Put(c), ~Raises(c)
    PROVE  AccInv'
  <1>1. call[c] \in Call /\ call[c].pc = "put" /\ call[c].op = "profile" /\ Good(c, call[c])
    BY CallFacts DEF Put, At, Good, Control
  <1>2. /\ call[c].exists \/ profile = 0
        /\ Locks(c, "profile") /\ Goes(c, "commit") /\ UNCHANGED stored
    BY DEF Put
  <1>3. PICK q : q = [call[c] EXCEPT !.pc = "commit"]
    OBVIOUS
  <1>4. q \in Call
    BY <1>1, <1>3 DEF Call, PCs
  <1>5. /\ q.pc = "commit" /\ q.op = "profile" /\ q.exists = call[c].exists
        /\ q.used = call[c].used /\ q.draft = call[c].draft
    BY <1>1, <1>3 DEF Call
  <1>6. Control(q)
    BY <1>1, <1>5 DEF Good, Control, Requests
  <1>7. "profile" \in Rows /\ lock' = [lock EXCEPT !["profile"] = c] /\ Free(c, "profile")
    BY <1>2 DEF Rows, Locks
  <1>8. Takes(c) /\ lock'["profile"] = c
    BY <1>7 DEF AccInv, TypeOK, Takes
  <1>9. Held(c, q)'
    <2> SUFFICES ASSUME NEW r \in Rows, lock'[r] = c, r # "profile" PROVE FALSE
      BY <1>5, RowAssumption DEF Held, Holds
    <2>1. lock[r] = c
      BY <1>7 DEF AccInv, TypeOK
    <2> QED BY <1>1, <2>1 DEF Good, Held, Holds, Rows, Breakers
  <1>10. Writes(c, q)'
    BY <1>2, <1>5, <1>8 DEF Writes, stored
  <1> QED BY <1>2, <1>3, <1>4, <1>5, <1>6, <1>8, <1>9, <1>10, WorkStep DEF Goes, Records, Counted, Blind

LEMMA CountStep ==
    ASSUME AccInv, NEW c \in Calls, Count(c), ~Raises(c)
    PROVE  AccInv'
  <1>1. call[c] \in Call /\ call[c].pc = "count" /\ call[c].op = "add" /\ Control(call[c])
    BY CallFacts DEF Count, At, Good, Control
  <1>2. provider = {} /\ Goes(c, "insert") /\ UNCHANGED <<stored, lock>>
    BY DEF Count
  <1>3. PICK q : q = [call[c] EXCEPT !.pc = "insert"]
    OBVIOUS
  <1>4. q \in Call
    BY <1>1, <1>3 DEF Call, PCs
  <1>5. /\ q.pc = "insert" /\ q.op = "add" /\ q.order = call[c].order /\ q.left = call[c].left
        /\ q.used = call[c].used /\ q.draft = call[c].draft
    BY <1>1, <1>3 DEF Call
  <1>6. Control(q)
    BY <1>1, <1>5 DEF Control, Requests
  <1> QED BY <1>1, <1>2, <1>3, <1>4, <1>5, <1>6, QuietStep DEF Goes, Records, Blind

LEMMA InsertStep ==
    ASSUME AccInv, NEW c \in Calls, InsertProvider(c)
    PROVE  AccInv'
  <1>1. call[c] \in Call /\ call[c].pc = "insert" /\ call[c].op = "add" /\ Control(call[c])
    BY CallFacts DEF InsertProvider, At, Good, Control
  <1>2. PICK id \in Ids : Moves(c, [call[c] EXCEPT !.pc = "commit", !.id = id])
    <2>1. PICK unused \in SUBSET Ids :
              /\ unused # {}
              /\ Moves(c, [call[c] EXCEPT !.pc = "commit", !.id = CHOOSE id \in unused : TRUE])
      BY DEF InsertProvider
    <2>2. (CHOOSE id \in unused : TRUE) \in Ids
      BY <2>1
    <2> QED BY <2>1, <2>2
  <1>3. PICK q : q = [call[c] EXCEPT !.pc = "commit", !.id = id]
    OBVIOUS
  <1>4. q \in Call
    BY <1>1, <1>3 DEF Call, PCs
  <1>5. /\ q.pc = "commit" /\ q.op = "add" /\ q.order = call[c].order /\ q.left = call[c].left
        /\ q.used = call[c].used /\ q.draft = call[c].draft /\ q.id = id
    BY <1>1, <1>3 DEF Call
  <1>6. Control(q)
    BY <1>1, <1>5 DEF Control, Requests
  <1> QED BY <1>1, <1>2, <1>3, <1>4, <1>5, <1>6, QuietStep
          DEF InsertProvider, Records, Counted, Blind

LEMMA DropBreakerStep ==
    ASSUME AccInv, NEW c \in Calls, DropBreaker(c), ~Raises(c)
    PROVE  AccInv'
  <1>1. call[c] \in Call /\ call[c].pc = "dropBreaker" /\ call[c].op = "delete" /\ Good(c, call[c])
    BY CallFacts DEF DropBreaker, At, Good, Control
  <1>2. CASE breaker
    <2>1. PICK q : q = [call[c] EXCEPT !.pc = "dropRow", !.draft = "gone"]
      OBVIOUS
    <2>2. q \in Call
      BY <1>1, <2>1 DEF Call, PCs
    <2>3. /\ q.pc = "dropRow" /\ q.op = "delete" /\ q.draft = "gone" /\ q.id = call[c].id
          /\ q.used = call[c].used
      BY <1>1, <2>1 DEF Call
    <2>4. Control(q)
      BY <1>1, <2>3 DEF Good, Control, Requests
    <2>5. Locks(c, "breaker") /\ Moves(c, q) /\ UNCHANGED stored
      BY <1>2, <2>1 DEF DropBreaker
    <2>6. Takes(c)
      BY <2>5 DEF AccInv, TypeOK, Takes, Locks
    <2>7. Held(c, q)'
      <3> SUFFICES ASSUME NEW r \in Rows, lock'[r] = c, r # "breaker" PROVE FALSE
        BY <2>3, RowAssumption DEF Held, Holds
      <3>1. lock[r] = c
        BY <2>5 DEF AccInv, TypeOK, Locks
      <3> QED BY <1>1, <3>1 DEF Good, Held, Holds, Rows, Breakers
    <2>8. Writes(c, q)'
      BY <2>3 DEF Writes
    <2> QED BY <2>2, <2>3, <2>4, <2>5, <2>6, <2>7, <2>8, WorkStep DEF Records, Counted, Blind
  <1>3. CASE ~breaker
    <2>1. PICK q : q = [call[c] EXCEPT !.pc = "dropRow"]
      OBVIOUS
    <2>2. q \in Call
      BY <1>1, <2>1 DEF Call, PCs
    <2>3. /\ q.pc = "dropRow" /\ q.op = "delete" /\ q.draft = call[c].draft /\ q.id = call[c].id
          /\ q.used = call[c].used /\ q.order = call[c].order /\ q.left = call[c].left
      BY <1>1, <2>1 DEF Call
    <2>4. Control(q)
      BY <1>1, <2>3 DEF Good, Control, Requests
    <2>5. Moves(c, q) /\ UNCHANGED <<stored, lock>>
      BY <1>3, <2>1 DEF DropBreaker, Goes
    <2> QED BY <1>1, <1>3, <2>2, <2>3, <2>4, <2>5, QuietStep DEF Records, Counted
  <1> QED BY <1>2, <1>3

LEMMA DropRowStep ==
    ASSUME AccInv, NEW c \in Calls, DropRow(c)
    PROVE  AccInv'
  <1>1. /\ call[c] \in Call /\ call[c].pc = "dropRow" /\ call[c].op = "delete" /\ call[c].used = {}
        /\ call[c].id \in Ids /\ Good(c, call[c])
    BY CallFacts DEF DropRow, At, Good, Control
  <1>2. PICK q : q = [call[c] EXCEPT !.pc = "commit"]
    OBVIOUS
  <1>3. q \in Call
    BY <1>1, <1>2 DEF Call, PCs
  <1>4. /\ q.pc = "commit" /\ q.op = "delete" /\ q.draft = call[c].draft /\ q.id = call[c].id
        /\ q.used = call[c].used
    BY <1>1, <1>2 DEF Call
  <1>5. Control(q)
    BY <1>1, <1>4 DEF Good, Control, Requests
  <1>6. Free(c, q.id) /\ lock' = [lock EXCEPT ![q.id] = c] /\ Moves(c, q) /\ UNCHANGED stored
    BY <1>2, <1>4 DEF DropRow, Locks, Goes
  <1>7. q.id \in Rows /\ q.id \in Ids
    BY <1>1, <1>4 DEF Rows
  <1>8. Takes(c) /\ lock'[q.id] = c
    BY <1>6, <1>7 DEF AccInv, TypeOK, Takes
  <1>9. Held(c, q)'
    <2> SUFFICES ASSUME NEW r \in Rows, lock'[r] = c PROVE Holds(q, r)
      BY DEF Held
    <2>1. CASE r = q.id
      BY <1>4, <1>7, <2>1, RowAssumption DEF Holds
    <2>2. CASE r # q.id
      <3>1. lock[r] = c
        BY <1>6, <2>2 DEF AccInv, TypeOK
      <3>2. r = "breaker"
        BY <1>1, <3>1 DEF Good, Held, Holds, Rows, Breakers
      <3> QED BY <1>4, <3>2, RowAssumption DEF Holds
    <2> QED BY <2>1, <2>2
  <1>10. \A d \in Calls : q.id \notin call'[d].used
    BY <1>1, <1>4, <1>6 DEF DropRow, Others, Moves, AccInv, TypeOK
  <1>11. Writes(c, q)'
    BY <1>4, <1>8, <1>10 DEF Writes
  <1>12. Blind(q) => Blind(call[c]) /\ q.id = call[c].id
    BY <1>1, <1>4 DEF Blind
  <1> QED BY <1>3, <1>4, <1>5, <1>6, <1>8, <1>9, <1>11, <1>12, WorkStep DEF Records, Counted
-----------------------------------------------------------------------------
(***************************************************************************)
(* Requests.  A request locks the breakers' rows it has come to.           *)
(***************************************************************************)
Keeps(q, p) == q.op = "request" /\ (q.pc = "commit" \/ \A r : Passed(p, r) => Passed(q, r))

LEMMA RequestStep ==
    ASSUME AccInv, NEW c \in Calls, NEW q \in Call, call[c].pc \in Requests, Keeps(q, call[c]),
           Moves(c, q), UNCHANGED stored, Records(c, q), Control(q),
           UNCHANGED lock \/ \E row \in Breakers : Passed(q, row) /\ Locks(c, row)
    PROVE  AccInv'
  <1>1. call[c].op = "request" /\ Good(c, call[c]) /\ call[c].pc # "commit"
    BY CallFacts DEF Good, Control, Requests
  <1>2. q.op = "request" /\ ~Counted(q) /\ ~Blind(q)
    BY DEF Keeps, Counted, Blind
  <1>3. Takes(c)
    BY DEF AccInv, TypeOK, Takes, Locks
  <1>4. Held(c, q)'
    <2> SUFFICES ASSUME NEW r \in Rows, lock'[r] = c PROVE Holds(q, r)
      BY DEF Held
    <2>1. CASE lock[r] = c
      <3>1. r \in Breakers /\ Passed(call[c], r)
        BY <1>1, <2>1 DEF Good, Held, Holds, Rows, Breakers
      <3>2. q.pc = "commit" \/ Passed(q, r)
        BY <3>1 DEF Keeps
      <3> QED BY <1>2, <3>1, <3>2, RowAssumption DEF Holds, Breakers
    <2>2. CASE lock[r] # c
      <3>1. r \in Breakers /\ Passed(q, r)
        BY <2>2 DEF AccInv, TypeOK, Locks
      <3> QED BY <1>2, <3>1, RowAssumption DEF Holds, Breakers
    <2> QED BY <2>1, <2>2
  <1>5. Writes(c, q)'
    BY <1>2 DEF Writes
  <1> QED BY <1>2, <1>3, <1>4, <1>5, WorkStep

LEMMA RequestFacts ==
    ASSUME AccInv, NEW c \in Calls, call[c].pc \in Requests
    PROVE  /\ call[c] \in Call /\ call[c].op = "request" /\ call[c].turns # 0
           /\ call[c].draft # "gone" /\ Comes(call[c]) /\ Ahead(call[c])
           /\ call[c].order \in Seq(Keys \cup Breakers) /\ call[c].left \in Seq(Keys \cup Breakers)
           /\ call[c].pc \in {"call", "failure", "usage"} => call[c].id \in Ids
           /\ call[c].draft = "row" /\ call[c].pc # "usage" => call[c].used # {}
  <1>1. call[c] \in Call /\ Control(call[c])
    BY CallFacts DEF Good
  <1>2. Comes(call[c])
    BY <1>1 DEF Control
  <1> QED BY <1>1, <1>2 DEF Control, Comes, Call, Requests

\* The locals of a request, put together from what it has come to.
LEMMA RequestControl ==
    ASSUME NEW q, q.op = "request", q.pc \in Requests, Comes(q), q.turns # 0,
           q.draft # "gone", q.draft = "row" /\ q.pc # "usage" => q.used # {}
    PROVE  Control(q)
  BY DEF Control, Requests

\* A new chain, put behind what the call has come to.
LEMMA Chained ==
    ASSUME NEW p \in Call, NEW q, NEW chain \in Chains, p.left = <<>>,
           q.order = p.order \o chain, q.left = chain
    PROVE  /\ q.order \in Seq(Keys \cup Breakers) /\ q.left \in Seq(Keys \cup Breakers)
           /\ Ahead(q) /\ Len(q.order) = Len(p.order) + Len(chain)
           /\ \A r : Passed(p, r) => Passed(q, r)
  <1> DEFINE order == p.order
  <1>1. order \in Seq(Keys \cup Breakers) /\ chain \in Seq(Keys \cup Breakers)
    <2>1. chain \in Seq(Breakers)
      BY ChainAssumption DEF Breakers
    <2> QED BY <2>1 DEF Call
  <1>2. /\ Len(order) \in Nat /\ Len(chain) \in Nat /\ order \o chain \in Seq(Keys \cup Breakers)
        /\ Len(order \o chain) = Len(order) + Len(chain)
        /\ \A i \in 1..Len(order) : (order \o chain)[i] = order[i]
        /\ \A i \in 1..Len(chain) : (order \o chain)[Len(order) + i] = chain[i]
    BY <1>1
  <1>3. q.order = order \o chain /\ Len(p.left) = 0
    OBVIOUS
  <1> HIDE DEF order
  <1>4. Behind(q) = Len(order) /\ Behind(p) = Len(order)
    BY <1>2, <1>3 DEF Behind, order
  <1>5. Ahead(q)
    <2>1. \A i \in 1..Len(q.left) : q.left[i] = q.order[Len(q.order) - Len(q.left) + i]
      BY <1>2, <1>3, <1>4 DEF Behind
    <2> QED BY <1>2, <1>3, <2>1 DEF Ahead
  <1>6. \A r : Passed(p, r) => Passed(q, r)
    BY <1>2, <1>3, <1>4 DEF Passed, order
  <1> QED BY <1>1, <1>2, <1>3, <1>5, <1>6 DEF order

LEMMA ResolveFacts ==
    ASSUME AccInv, NEW c \in Calls, NEW p \in Call, Resolve(c, p), p.left = <<>>, p.op = "request",
           p.turns # 0, p.draft # "gone", p.draft = "row" => p.used # {},
           p.used # {} => Passed(p, "breaker")
    PROVE  \E q \in Call : /\ Moves(c, q) /\ Control(q) /\ Keeps(q, p) /\ q.pc = "walk"
                           /\ q.used = p.used /\ q.draft = p.draft /\ q.turns = p.turns
                           /\ Behind(q) = Len(p.order)
  <1>1. PICK chain \in Chains :
            /\ Len(p.order) + Len(chain) <= MaxNames
            /\ Names(chain, "breaker") => provider # {}
            /\ Moves(c, [p EXCEPT !.pc = "walk", !.order = p.order \o chain, !.left = chain,
                                  !.id = IF Names(chain, "breaker") THEN Best ELSE NoId])
    BY DEF Resolve, Call
  <1>2. PICK q, id : /\ id = IF Names(chain, "breaker") THEN Best ELSE NoId
                     /\ q = [p EXCEPT !.pc = "walk", !.order = p.order \o chain, !.left = chain, !.id = id]
    OBVIOUS
  <1>3. id \in Ids \cup {NoId} /\ (Names(chain, "breaker") => id \in Ids)
    BY <1>1, <1>2 DEF Best, AccInv, TypeOK
  <1>4. /\ q.pc = "walk" /\ q.order = p.order \o chain /\ q.left = chain /\ q.id = id /\ q.op = "request"
        /\ q.used = p.used /\ q.draft = p.draft /\ q.turns = p.turns
    BY <1>2 DEF Call
  <1>5. /\ q.order \in Seq(Keys \cup Breakers) /\ q.left \in Seq(Keys \cup Breakers)
        /\ Ahead(q) /\ Len(q.order) = Len(p.order) + Len(chain)
        /\ \A r : Passed(p, r) => Passed(q, r)
    BY <1>4, Chained
  <1>6. q \in Call
    BY <1>2, <1>3, <1>4, <1>5 DEF Call, PCs
  <1>7. Comes(q)
    <2>1. q.used # {} => Passed(q, "breaker")
      BY <1>4, <1>5
    <2> QED BY <1>1, <1>3, <1>4, <1>5, <2>1 DEF Comes
  <1>8. Control(q)
    BY <1>4, <1>7, RequestControl DEF Requests
  <1>9. Behind(q) = Len(p.order)
    <2>1. Len(p.order) \in Nat /\ Len(chain) \in Nat
      BY ChainAssumption DEF Call
    <2> QED BY <1>4, <1>5, <2>1 DEF Behind
  <1>10. Moves(c, q)
    BY <1>1, <1>2
  <1> QED BY <1>4, <1>5, <1>6, <1>8, <1>9, <1>10 DEF Keeps

LEMMA RequestBegins ==
    ASSUME AccInv, NEW c \in Calls, Request(c)
    PROVE  AccInv'
  <1>1. call[c].pc = "idle" /\ call[c].used = {} /\ UNCHANGED <<stored, lock>>
    BY CallFacts DEF Request, At, Good, Control
  <1>2. PICK p : p = [Blank EXCEPT !.op = "request", !.turns = 1]
    OBVIOUS
  <1>3. p \in Call
    <2>1. 1 \in 0..MaxTurns
      BY TurnAssumption
    <2> QED BY <1>2, <2>1, BlankIsIdle DEF Call, Ops
  <1>4. p.op = "request" /\ p.turns = 1 /\ p.used = {} /\ p.draft = "none" /\ p.left = <<>>
    BY <1>2 DEF Blank
  <1>5. Resolve(c, p)
    BY <1>2 DEF Request
  <1>6. PICK q \in Call : Moves(c, q) /\ Control(q) /\ q.op = "request" /\ q.pc = "walk" /\ q.used = {}
    BY <1>3, <1>4, <1>5, ResolveFacts DEF Keeps
  <1> QED BY <1>1, <1>6, QuietStep DEF Records, Counted, Blind

\* A step of the walk: one more name is behind.
LEMMA WalkOn ==
    ASSUME AccInv, NEW c \in Calls, NEW row, Turn(c, row), NEW pc \in {"walk", "call"},
           NEW q, q = [call[c] EXCEPT !.pc = pc, !.left = Rest(c)], pc = "call" => row = "breaker"
    PROVE  /\ q \in Call /\ Control(q) /\ Keeps(q, call[c]) /\ Passed(q, row)
           /\ q.used = call[c].used /\ q.turns = call[c].turns /\ q.pc = pc
           /\ Behind(call[c]) \in Nat /\ Behind(q) = Behind(call[c]) + 1
  <1> DEFINE p == call[c]
  <1>1. p.pc = "walk" /\ p.pc \in Requests /\ p.left # <<>> /\ Head(p.left) = row
    BY DEF Turn, At, Requests
  <1>2. /\ p \in Call /\ p.op = "request" /\ p.turns # 0 /\ p.draft # "gone" /\ Comes(p) /\ Ahead(p)
        /\ p.order \in Seq(Keys \cup Breakers) /\ p.left \in Seq(Keys \cup Breakers)
        /\ p.draft = "row" => p.used # {}
    BY <1>1, RequestFacts
  <1>3. /\ q.pc = pc /\ q.left = Tail(p.left) /\ q.order = p.order /\ q.op = "request"
        /\ q.used = p.used /\ q.draft = p.draft /\ q.turns = p.turns /\ q.id = p.id
    BY <1>2 DEF Call, Rest
  <1>4. /\ Ahead(q) /\ Behind(p) \in Nat /\ Behind(q) = Behind(p) + 1 /\ Behind(q) \in 1..Len(p.order)
        /\ q.order[Behind(q)] = row /\ q.left \in Seq(Keys \cup Breakers) /\ Len(q.left) = Len(p.left) - 1
    <2>1. /\ p.order \in Seq(Keys \cup Breakers) /\ p.left \in Seq(Keys \cup Breakers)
          /\ p.left # <<>> /\ Ahead(p) /\ q.order = p.order /\ q.left = Tail(p.left)
      BY <1>1, <1>2, <1>3
    <2>2. PICK S : S = Keys \cup Breakers
      OBVIOUS
    <2>3. p.order \in Seq(S) /\ p.left \in Seq(S)
      BY <2>1, <2>2
    <2> HIDE DEF p
    <2>4. /\ Ahead(q) /\ Behind(p) \in Nat /\ Behind(q) = Behind(p) + 1
          /\ Behind(q) \in 1..Len(p.order) /\ q.order[Behind(q)] = Head(p.left)
          /\ q.left \in Seq(S) /\ Len(q.left) = Len(p.left) - 1
      BY ONLY <2>1, <2>3, OneOn, ZenonT(60)
    <2> QED BY <1>1, <2>2, <2>4
  <1>5. Passed(q, row) /\ \A r : Passed(p, r) => Passed(q, r) /\ PassedBefore(q, r)
    <2>1. /\ q.order = p.order /\ Behind(p) \in Nat /\ Behind(q) = Behind(p) + 1
          /\ q.order[Behind(q)] = row
      BY <1>3, <1>4
    <2> HIDE DEF p
    <2>2. /\ Passed(q, q.order[Behind(q)])
          /\ \A r : Passed(p, r) => Passed(q, r) /\ PassedBefore(q, r)
      BY ONLY <2>1, OnePassed, ZenonT(60)
    <2> QED BY <2>1, <2>2
  <1>6. q \in Call
    BY <1>2, <1>4 DEF Call, PCs, Rest
  <1>7. Names(q.left, "breaker") \/ row = "breaker" => Names(p.left, "breaker")
    <2>1. /\ DOMAIN p.left = 1..Len(p.left) /\ DOMAIN q.left = 1..Len(q.left) /\ Len(p.left) \in Nat
          /\ Len(p.left) > 0 /\ Head(p.left) = p.left[1]
          /\ \A i \in 1..(Len(p.left) - 1) : q.left[i] = p.left[i + 1]
      BY <1>1, <1>2, <1>3, <1>4, TailFacts
    <2> HIDE DEF p
    <2>2. \A i \in 1..(Len(p.left) - 1) : i + 1 \in 1..Len(p.left)
      BY <2>1
    <2>3. 1 \in 1..Len(p.left)
      BY <2>1
    <2> QED BY <1>1, <1>4, <2>1, <2>2, <2>3 DEF Names
  <1>8. Comes(q)
    <2>1. Len(q.order) <= MaxNames /\ (p.used # {} => Passed(p, "breaker"))
          /\ (Names(p.left, "breaker") => p.id \in Ids)
      BY <1>1, <1>2, <1>3 DEF Comes
    <2>2. q.pc = "walk" => (Names(q.left, "breaker") => q.id \in Ids)
      BY <1>3, <1>7, <2>1
    <2>3. q.pc = "call" => q.id \in Ids /\ q.order[Behind(q)] = "breaker" /\ Behind(q) >= 1
      BY <1>3, <1>4, <1>7, <2>1
    <2>4. q.used # {} => Passed(q, "breaker") /\ PassedBefore(q, "breaker")
      BY <1>3, <1>5, <2>1
    <2> QED BY <1>3, <1>4, <2>1, <2>2, <2>3, <2>4 DEF Comes
  <1>9. Control(q)
    BY <1>2, <1>3, <1>8, RequestControl DEF Requests
  <1> QED BY <1>3, <1>4, <1>5, <1>6, <1>9 DEF Keeps

LEMMA GateStep ==
    ASSUME AccInv, NEW c \in Calls, Gate(c)
    PROVE  AccInv'
  <1>1. Turn(c, "breaker") /\ UNCHANGED stored /\ call[c].pc \in Requests
    BY DEF Gate, Turn, At, Requests
  <1>2. PICK pc \in {"walk", "call"} :
            /\ Moves(c, [call[c] EXCEPT !.pc = pc, !.left = Rest(c)])
            /\ UNCHANGED lock \/ Locks(c, "breaker")
    <2>1. [call[c] EXCEPT !.left = Rest(c)] = [call[c] EXCEPT !.pc = "walk", !.left = Rest(c)]
      BY <1>1, RequestFacts DEF Turn, At, Call
    <2> QED BY <2>1 DEF Gate
  <1>3. PICK q : q = [call[c] EXCEPT !.pc = pc, !.left = Rest(c)]
    OBVIOUS
  <1>4. /\ q \in Call /\ Control(q) /\ Keeps(q, call[c]) /\ Passed(q, "breaker")
        /\ q.used = call[c].used
    BY <1>1, <1>3, WalkOn
  <1>5. "breaker" \in Breakers /\ Moves(c, q)
    BY <1>2, <1>3 DEF Breakers
  <1> QED BY <1>1, <1>2, <1>4, <1>5, RequestStep DEF Records

LEMMA DetourStep ==
    ASSUME AccInv, NEW c \in Calls, Detour(c)
    PROVE  AccInv'
  <1>1. PICK row \in Elsewhere : Turn(c, row) /\ Locks(c, row)
    BY DEF Detour
  <1>2. UNCHANGED stored /\ call[c].pc \in Requests
    BY <1>1 DEF Detour, Turn, At, Requests
  <1>3. PICK q : q = [call[c] EXCEPT !.pc = "walk", !.left = Rest(c)]
    OBVIOUS
  <1>4. [call[c] EXCEPT !.left = Rest(c)] = q
    BY <1>1, <1>2, <1>3, RequestFacts DEF Turn, At, Call
  <1>5. /\ q \in Call /\ Control(q) /\ Keeps(q, call[c]) /\ Passed(q, row)
        /\ q.used = call[c].used
    BY <1>1, <1>3, WalkOn
  <1>6. row \in Breakers /\ Moves(c, q)
    BY <1>1, <1>4 DEF Breakers, Detour
  <1> QED BY <1>1, <1>2, <1>5, <1>6, RequestStep DEF Records

\* An answer leaves nothing of the chain.
LEMMA Answered ==
    ASSUME NEW S, NEW p, NEW q, p.order \in Seq(S), p.left \in Seq(S), Ahead(p),
           q.order = p.order, q.left \in {p.left, <<>>}
    PROVE  /\ Ahead(q) /\ Behind(p) \in Nat /\ Behind(q) \in Nat /\ Behind(p) <= Behind(q)
           /\ Behind(q) <= Len(p.order)
           /\ \A r : Passed(p, r) => Passed(q, r)
  <1> DEFINE n == Len(p.order)
             k == Len(p.left)
  <1>1. n \in Nat /\ k \in Nat /\ k <= n /\ Behind(p) = n - k
    BY DEF Ahead, Behind
  <1>2. CASE q.left = p.left
    <2>1. Ahead(q) /\ Behind(q) = Behind(p)
      BY <1>2 DEF Ahead, Behind
    <2>2. \A r : Passed(p, r) => Passed(q, r)
      BY <2>1 DEF Passed
    <2> HIDE DEF n, k
    <2>3. n - k <= n /\ n - k \in Nat
      BY <1>1
    <2> QED BY <1>1, <2>1, <2>2, <2>3 DEF n
  <1>3. CASE q.left = <<>>
    <2>1. Len(q.left) = 0 /\ Len(q.order) = n
      BY <1>3
    <2> HIDE DEF n, k
    <2>2. Behind(q) = n /\ Ahead(q)
      BY <1>1, <2>1 DEF Behind, Ahead
    <2>3. 1..Behind(p) \subseteq 1..Behind(q)
      BY <1>1, <2>2
    <2>4. n - k <= n /\ n - k \in Nat
      BY <1>1
    <2> QED BY <1>1, <2>2, <2>3, <2>4 DEF Passed, n
  <1> QED BY <1>2, <1>3

LEMMA ChatStep ==
    ASSUME AccInv, NEW c \in Calls, Chat(c)
    PROVE  AccInv'
  <1> DEFINE p == call[c]
  <1>1. p.pc = "call" /\ p.pc \in Requests /\ UNCHANGED <<stored, lock>>
    BY DEF Chat, At, Requests
  <1>2. /\ p \in Call /\ p.op = "request" /\ p.turns # 0 /\ p.draft # "gone" /\ Comes(p) /\ Ahead(p)
        /\ p.order \in Seq(Keys \cup Breakers) /\ p.left \in Seq(Keys \cup Breakers) /\ p.id \in Ids
        /\ p.draft = "row" => p.used # {}
    BY <1>1, RequestFacts
  <1>3. Seen(c) \in BOOLEAN
    BY DEF Seen, AccInv, TypeOK
  <1>4. PICK q :
            /\ Moves(c, q)
            /\ \/ \E left \in {p.left, <<>>} : q = [p EXCEPT !.pc = "usage", !.left = left]
               \/ \E exists \in BOOLEAN : q = [p EXCEPT !.pc = "failure", !.exists = exists]
    BY <1>3 DEF Chat
  <1>5. q \in Call
    <2>1. CASE \E left \in {p.left, <<>>} : q = [p EXCEPT !.pc = "usage", !.left = left]
      <3>1. PICK left \in {p.left, <<>>} : q = [p EXCEPT !.pc = "usage", !.left = left]
        BY <2>1
      <3>2. left \in Seq(Keys \cup Breakers)
        <4>1. <<>> \in Seq(Keys \cup Breakers)
          OBVIOUS
        <4> QED BY <1>2, <3>1, <4>1
      <3> QED BY <1>2, <3>1, <3>2 DEF Call, PCs
    <2>2. CASE \E exists \in BOOLEAN : q = [p EXCEPT !.pc = "failure", !.exists = exists]
      BY <1>2, <2>2 DEF Call, PCs
    <2> QED BY <1>4, <2>1, <2>2
  <1>6. /\ q.op = "request" /\ q.order = p.order /\ q.left \in {p.left, <<>>} /\ q.used = p.used
        /\ q.draft = p.draft /\ q.turns = p.turns /\ q.id = p.id
        /\ q.pc \in {"usage", "failure"} /\ (q.pc = "failure" => q.left = p.left)
    BY <1>2, <1>4 DEF Call
  <1>7. Ahead(q) /\ \A r : Passed(p, r) => Passed(q, r)
    BY <1>2, <1>6, Answered
  <1>8. /\ Behind(p) >= 1 /\ p.order[Behind(p)] = "breaker" /\ Len(p.order) <= MaxNames
        /\ p.used # {} => PassedBefore(p, "breaker")
    BY <1>1, <1>2 DEF Comes
  <1>9. Passed(p, "breaker")
    <2>1. Behind(p) \in Nat
      BY <1>2, <1>6, Answered
    <2>2. Behind(p) \in 1..Behind(p)
      BY <1>8, <2>1
    <2> QED BY <1>8, <2>2 DEF Passed
  <1> HIDE DEF p
  <1>10. Comes(q)
    <2>1. Passed(q, "breaker")
      BY <1>7, <1>9
    <2>2. q.pc = "failure" => Behind(q) = Behind(p) /\ (PassedBefore(p, "breaker") => PassedBefore(q, "breaker"))
      BY <1>6 DEF Behind, PassedBefore
    <2> QED BY <1>2, <1>6, <1>7, <1>8, <2>1, <2>2 DEF Comes
  <1>11. Control(q)
    BY <1>2, <1>6, <1>10, RequestControl DEF Requests
  <1> QED BY <1>1, <1>4, <1>5, <1>6, <1>7, <1>11, RequestStep DEF Records, Keeps, p

LEMMA FailureStep ==
    ASSUME AccInv, NEW c \in Calls, Failure(c)
    PROVE  AccInv'
  <1> DEFINE p == call[c]
  <1>1. /\ p.pc = "failure" /\ p.pc \in Requests /\ UNCHANGED stored
        /\ UNCHANGED lock \/ Locks(c, "breaker")
    BY DEF Failure, At, Requests
  <1>2. /\ p \in Call /\ p.op = "request" /\ p.turns # 0 /\ p.draft # "gone" /\ Comes(p) /\ Ahead(p)
        /\ p.order \in Seq(Keys \cup Breakers) /\ p.left \in Seq(Keys \cup Breakers) /\ p.id \in Ids
    BY <1>1, RequestFacts
  <1>3. PICK draft, q :
            /\ draft \in {p.draft, "row"} /\ Moves(c, q)
            /\ q = [p EXCEPT !.pc = "usage", !.exists = FALSE, !.draft = draft]
    BY DEF Failure
  <1>4. q \in Call
    BY <1>2, <1>3 DEF Call, PCs
  <1>5. /\ q.pc = "usage" /\ q.op = "request" /\ q.order = p.order /\ q.left = p.left /\ q.used = p.used
        /\ q.draft = draft /\ q.turns = p.turns /\ q.id = p.id
    BY <1>2, <1>3 DEF Call
  <1>6. Behind(q) = Behind(p) /\ Ahead(q) /\ \A r : Passed(p, r) => Passed(q, r)
    BY <1>2, <1>5 DEF Behind, Ahead, Passed
  <1>7. Passed(q, "breaker") /\ Len(q.order) <= MaxNames
    <2>1. Behind(p) >= 1 /\ p.order[Behind(p)] = "breaker" /\ Len(p.order) <= MaxNames
      BY <1>1, <1>2 DEF Comes
    <2>2. Behind(p) \in Nat
      BY <1>2, <1>5, Answered
    <2>3. Behind(p) \in 1..Behind(p)
      BY <2>1, <2>2
    <2> QED BY <1>5, <1>6, <2>1, <2>3 DEF Passed
  <1>8. Comes(q)
    BY <1>2, <1>5, <1>6, <1>7 DEF Comes
  <1>9. Control(q)
    BY <1>2, <1>3, <1>5, <1>8, RequestControl DEF Requests
  <1>10. "breaker" \in Breakers
    BY DEF Breakers
  <1> QED BY <1>1, <1>3, <1>4, <1>5, <1>6, <1>7, <1>9, <1>10, RequestStep DEF Records, Keeps

LEMMA UsageStep ==
    ASSUME AccInv, NEW c \in Calls, Usage(c), ~Raises(c)
    PROVE  AccInv'
  <1> DEFINE p == call[c]
             id == p.id
  <1>1. /\ p.pc = "usage" /\ p.pc \in Requests /\ UNCHANGED <<stored, lock>>
        /\ Free(c, id) /\ id \in provider /\ provider \subseteq Ids
    BY DEF Usage, At, Requests, AccInv, TypeOK
  <1>2. p \in Call /\ p.op = "request" /\ p.turns # 0 /\ p.draft # "gone" /\ Comes(p)
    BY <1>1, RequestFacts
  <1>3. PICK q : Moves(c, q) /\ q = [p EXCEPT !.pc = "walk", !.used = p.used \cup {id}]
    BY <1>1, <1>2 DEF Usage, Call
  <1>4. q \in Call
    BY <1>1, <1>2, <1>3 DEF Call, PCs
  <1>5. /\ q.pc = "walk" /\ q.op = "request" /\ q.order = p.order /\ q.left = p.left
        /\ q.used = p.used \cup {id} /\ q.draft = p.draft /\ q.turns = p.turns /\ q.id = p.id
    BY <1>2, <1>3 DEF Call
  <1>6. Behind(q) = Behind(p) /\ (Ahead(p) => Ahead(q)) /\ \A r : Passed(p, r) => Passed(q, r)
    BY <1>5 DEF Behind, Ahead, Passed
  <1>7. Comes(q)
    BY <1>1, <1>2, <1>5, <1>6 DEF Comes
  <1>8. Control(q)
    BY <1>2, <1>5, <1>7, RequestControl DEF Requests
  <1>9. Records(c, q)
    BY <1>1, <1>5 DEF Records
  <1> QED BY <1>1, <1>3, <1>4, <1>5, <1>6, <1>8, <1>9, RequestStep DEF Keeps

LEMMA MoreStep ==
    ASSUME AccInv, NEW c \in Calls, More(c)
    PROVE  AccInv'
  <1> DEFINE p == call[c]
  <1>1. p.pc = "walk" /\ p.pc \in Requests /\ UNCHANGED <<stored, lock>> /\ p.left = <<>>
    BY DEF More, At, Requests
  <1>2. /\ p \in Call /\ p.op = "request" /\ p.turns # 0 /\ p.draft # "gone" /\ Comes(p)
        /\ p.draft = "row" => p.used # {}
    BY <1>1, RequestFacts
  <1>3. p.turns \in Nat /\ MaxTurns \in Nat
    BY <1>2, TurnAssumption DEF Call
  <1>4. CASE Moves(c, [p EXCEPT !.pc = "commit", !.id = NoId, !.order = <<>>])
    <2>1. PICK q : q = [p EXCEPT !.pc = "commit", !.id = NoId, !.order = <<>>]
      OBVIOUS
    <2>2. q \in Call
      <3>1. <<>> \in Seq(Keys \cup Breakers) /\ "commit" \in PCs
        BY DEF PCs
      <3> QED BY <1>2, <2>1, <3>1 DEF Call
    <2>3. /\ q.pc = "commit" /\ q.op = "request" /\ q.used = p.used /\ q.draft = p.draft
          /\ q.turns = p.turns
      BY <1>2, <2>1 DEF Call
    <2>4. Control(q)
      BY <1>2, <2>3 DEF Control, Requests
    <2> QED BY <1>1, <1>4, <2>1, <2>2, <2>3, <2>4, RequestStep DEF Records, Keeps
  <1>5. CASE ~Moves(c, [p EXCEPT !.pc = "commit", !.id = NoId, !.order = <<>>])
    <2>1. PICK s : s = [p EXCEPT !.turns = p.turns + 1]
      OBVIOUS
    <2>2. p.turns < MaxTurns /\ Resolve(c, s)
      BY <1>2, <1>5, <2>1 DEF More, Call
    <2>3. s \in Call
      <3>1. p.turns + 1 \in 0..MaxTurns
        BY <1>3, <2>2
      <3> QED BY <1>2, <2>1, <3>1 DEF Call
    <2>4. /\ s.op = "request" /\ s.left = <<>> /\ s.order = p.order /\ s.used = p.used
          /\ s.draft = p.draft /\ s.turns = p.turns + 1
      BY <1>1, <1>2, <2>1 DEF Call
    <2>5. \A r : Passed(p, r) <=> Passed(s, r)
      BY <1>1, <2>4 DEF Passed, Behind
    <2>6. p.used # {} => Passed(p, "breaker")
      BY <1>2 DEF Comes
    <2>7. s.turns # 0
      BY <1>3, <2>4
    <2>8. PICK q \in Call : Moves(c, q) /\ Control(q) /\ Keeps(q, s) /\ q.used = s.used
      BY <1>2, <2>2, <2>3, <2>4, <2>5, <2>6, <2>7, ResolveFacts
    <2>9. Keeps(q, p)
      BY <2>5, <2>8 DEF Keeps
    <2> QED BY <1>1, <2>4, <2>8, <2>9, RequestStep DEF Records
  <1> QED BY <1>4, <1>5
-----------------------------------------------------------------------------
(***************************************************************************)
(* A transaction ends.                                                     *)
(***************************************************************************)
LEMMA EndFacts ==
    ASSUME AccInv, NEW c \in Calls, Ends(c)
    PROVE  /\ call' \in [Calls -> Call] /\ lock' \in [Rows -> Calls \cup {NoCall}]
           /\ call'[c] = Blank /\ \A d \in Calls \ {c} : call'[d] = call[d]
           /\ \A r \in Rows : lock'[r] # c
           /\ \A d \in Calls \ {c} : \A r \in Rows : lock'[r] = d <=> lock[r] = d
           /\ \A d \in Calls : call'[d].used \subseteq call[d].used
           /\ \A d \in Calls : Counted(call'[d]) => d # c /\ Counted(call[d])
           /\ \A d \in Calls : Blind(call'[d]) => d # c /\ Blind(call[d])
  <1>1. /\ call' \in [Calls -> Call] /\ lock' \in [Rows -> Calls \cup {NoCall}]
        /\ call'[c] = Blank /\ \A d \in Calls \ {c} : call'[d] = call[d]
    BY BlankIsIdle DEF AccInv, TypeOK, Ends, Moves
  <1>2. /\ \A r \in Rows : lock'[r] # c
        /\ \A d \in Calls \ {c} : \A r \in Rows : lock'[r] = d <=> lock[r] = d
    BY SentinelAssumption DEF Ends
  <1>3. \A d \in Calls : call'[d].used \subseteq call[d].used
    BY <1>1, BlankIsIdle
  <1>4. \A d \in Calls : /\ Counted(call'[d]) => d # c /\ Counted(call[d])
                         /\ Blind(call'[d]) => d # c /\ Blind(call[d])
    BY <1>1, BlankIsIdle DEF Counted, Blind
  <1> QED BY <1>1, <1>2, <1>3, <1>4

\* The locals of the others are as they should be, if c has not created the
\* profile under one of them.
LEMMA EndStep ==
    ASSUME AccInv, NEW c \in Calls, Ends(c), TypeOK', IsFiniteSet(provider)',
           profile' = profile \/ (call[c].op = "profile" /\ call[c].pc = "commit")
    PROVE  LocalsOK'
  <1>1. ASSUME NEW d \in Calls, d # c
        PROVE  Good(d, call[d])'
    <2>1. call'[d] = call[d] /\ Good(d, call[d])
      BY <1>1, EndFacts, CallFacts
    <2>2. \A r \in Rows : lock'[r] = d <=> lock[r] = d
      BY <1>1, EndFacts
    <2>3. Held(d, call[d])'
      BY <2>1, <2>2 DEF Good, Held, Holds, Passed
    <2>4. ASSUME call[d].op = "delete", call[d].pc = "commit"
          PROVE  lock'[call[d].id] = d /\ \A e \in Calls : call[d].id \notin call'[e].used
      <3>1. /\ call[d].id \in Rows /\ lock[call[d].id] = d
            /\ \A e \in Calls : call[d].id \notin call[e].used
        BY <2>1, <2>4 DEF Good, Control, Writes, Rows
      <3> QED BY <2>2, <3>1, EndFacts
    <2>5. ASSUME call[d].op = "profile", call[d].pc = "commit"
          PROVE  lock'["profile"] = d /\ (~call[d].exists => profile' = 0)
      <3>1. "profile" \in Rows /\ lock["profile"] = d /\ (~call[d].exists => profile = 0)
        BY <2>1, <2>5 DEF Good, Writes, Rows
      <3>2. ~(call[c].op = "profile" /\ call[c].pc = "commit")
        BY <1>1, <3>1, CallFacts DEF Good, Writes
      <3> QED BY <2>2, <3>1, <3>2
    <2> QED BY <2>1, <2>3, <2>4, <2>5 DEF Good, Writes
  <1>2. Good(c, call[c])'
    <2>1. Control(Blank) /\ call'[c] = Blank /\ \A r \in Rows : lock'[r] # c
      BY EndFacts, BlankIsControlled
    <2> QED BY <2>1, BlankIsIdle DEF Good, Held, Writes
  <1> QED BY <1>1, <1>2 DEF LocalsOK

LEMMA RaisesStep ==
    ASSUME AccInv, NEW c \in Calls, Raises(c)
    PROVE  AccInv'
  <1>1. Ends(c) /\ UNCHANGED <<profile, provider, breaker, raced>>
    BY DEF Raises, stored
  <1>2. TypeOK' /\ IsFiniteSet(provider)'
    BY <1>1, EndFacts DEF AccInv, TypeOK
  <1>3. LocalsOK'
    BY <1>1, <1>2, EndStep
  <1>4. ProfileCreatedOnce' /\ UniqueUnlessRaced'
    BY <1>1 DEF AccInv, ProfileCreatedOnce, UniqueUnlessRaced
  <1>5. RecordedProviderStays'
    BY <1>1, EndFacts DEF AccInv, RecordedProviderStays
  <1>6. CountsHold'
    BY <1>1, EndFacts DEF AccInv, CountsHold
  <1>7. Covered'
    <2> SUFFICES ASSUME breaker, "delete" \notin raced
                 PROVE  \E i \in provider : \A d \in Calls : Blind(call'[d]) => call'[d].id # i
      BY <1>1 DEF Covered, Blind
    <2>1. PICK i \in provider : \A d \in Calls : Blind(call[d]) => call[d].id # i
      BY DEF AccInv, Covered
    <2>2. \A d \in Calls : Blind(call'[d]) => call'[d].id # i
      BY <1>1, <2>1, EndFacts
    <2> QED BY <2>2
  <1> QED BY <1>2, <1>3, <1>4, <1>5, <1>6, <1>7 DEF AccInv

LEMMA CommitProfileStep ==
    ASSUME AccInv, NEW c \in Calls, At(c, "commit"), call[c].op = "profile", Ends(c), CommitProfile(c)
    PROVE  AccInv'
  <1>1. UNCHANGED <<provider, breaker, raced>> /\ call[c].pc = "commit"
    BY DEF CommitProfile, At
  <1>2. profile' \in Nat /\ profile' <= 1
    <2>1. ~call[c].exists => profile = 0
      BY <1>1, CallFacts DEF Good, Writes
    <2>2. profile \in Nat /\ profile <= 1
      BY DEF AccInv, TypeOK, ProfileCreatedOnce
    <2> QED BY <2>1, <2>2 DEF CommitProfile
  <1>3. TypeOK' /\ IsFiniteSet(provider)'
    BY <1>1, <1>2, EndFacts DEF AccInv, TypeOK
  <1>4. LocalsOK'
    BY <1>1, <1>3, EndStep
  <1>5. ProfileCreatedOnce' /\ UniqueUnlessRaced'
    BY <1>1, <1>2 DEF AccInv, ProfileCreatedOnce, UniqueUnlessRaced
  <1>6. RecordedProviderStays'
    BY <1>1, EndFacts DEF AccInv, RecordedProviderStays
  <1>7. CountsHold'
    BY <1>1, EndFacts DEF AccInv, CountsHold
  <1>8. Covered'
    <2> SUFFICES ASSUME breaker, "delete" \notin raced
                 PROVE  \E i \in provider : \A d \in Calls : Blind(call'[d]) => call'[d].id # i
      BY <1>1 DEF Covered, Blind
    <2>1. PICK i \in provider : \A d \in Calls : Blind(call[d]) => call[d].id # i
      BY DEF AccInv, Covered
    <2>2. \A d \in Calls : Blind(call'[d]) => call'[d].id # i
      BY <2>1, EndFacts
    <2> QED BY <2>2
  <1> QED BY <1>3, <1>4, <1>5, <1>6, <1>7, <1>8 DEF AccInv

LEMMA CommitAddStep ==
    ASSUME AccInv, NEW c \in Calls, At(c, "commit"), call[c].op = "add", Ends(c), CommitAdd(c)
    PROVE  AccInv'
  <1> DEFINE id == call[c].id
             counted == \E d \in Others(c) : call[d].op = "add" /\ call[d].pc # "count"
  <1>1. /\ UNCHANGED <<profile, breaker>> /\ call[c].pc = "commit" /\ id \in Ids
        /\ provider' = provider \cup {id} /\ raced' = raced \cup (IF counted THEN {"add"} ELSE {})
    BY CallFacts DEF CommitAdd, At, Good, Control
  <1>2. IsFiniteSet(provider')
    BY <1>1, FS_AddElement DEF AccInv
  <1>3. provider = {} => Cardinality(provider') = 1
    BY <1>1, FS_Singleton
  <1>4. (\E d \in Calls : Counted(call'[d])) => counted
    <2> SUFFICES ASSUME NEW d \in Calls, Counted(call'[d]) PROVE d \in Others(c) /\ call[d].op = "add" /\ call[d].pc # "count"
      OBVIOUS
    <2>1. d # c /\ Counted(call[d])
      BY EndFacts
    <2> QED BY <2>1 DEF Others, Counted
  <1>5. "add" \notin raced => provider = {}
    BY <1>1 DEF AccInv, CountsHold, Counted
  <1> HIDE DEF counted
  <1>6. TypeOK' /\ IsFiniteSet(provider)'
    BY <1>1, <1>2, EndFacts DEF AccInv, TypeOK
  <1>7. LocalsOK'
    BY <1>1, <1>6, EndStep
  <1>8. UniqueUnlessRaced'
    BY <1>1, <1>3, <1>5 DEF UniqueUnlessRaced
  <1>9. CountsHold'
    BY <1>1, <1>4 DEF CountsHold
  <1>10. RecordedProviderStays' /\ ProfileCreatedOnce'
    BY <1>1, EndFacts DEF AccInv, RecordedProviderStays, ProfileCreatedOnce
  <1>11. Covered'
    <2> SUFFICES ASSUME breaker, "delete" \notin raced
                 PROVE  \E i \in provider' : \A d \in Calls : Blind(call'[d]) => call'[d].id # i
      BY <1>1 DEF Covered, Blind
    <2>1. PICK i \in provider : \A d \in Calls : Blind(call[d]) => call[d].id # i
      BY DEF AccInv, Covered
    <2>2. i \in provider' /\ \A d \in Calls : Blind(call'[d]) => call'[d].id # i
      BY <1>1, <2>1, EndFacts
    <2> QED BY <2>2
  <1> QED BY <1>6, <1>7, <1>8, <1>9, <1>10, <1>11 DEF AccInv

LEMMA CommitDeleteStep ==
    ASSUME AccInv, NEW c \in Calls, At(c, "commit"), call[c].op = "delete", Ends(c), CommitDelete(c)
    PROVE  AccInv'
  <1> DEFINE id == call[c].id
  <1>1. /\ UNCHANGED profile /\ call[c].pc = "commit"
        /\ provider' = provider \ {id} /\ (breaker' <=> breaker /\ call[c].draft # "gone")
        /\ raced' \subseteq raced
        /\ "add" \in raced /\ "add" \notin raced' =>
              /\ Cardinality(provider') <= 1
              /\ ~\E d \in Calls : call[d].op = "add" /\ call[d].pc # "count"
        /\ "delete" \in raced /\ "delete" \notin raced' => call[c].draft = "gone"
    BY DEF CommitDelete, At
  <1>2. breaker' \in BOOLEAN
    BY DEF CommitDelete
  <1>3. /\ IsFiniteSet(provider') /\ Cardinality(provider') <= Cardinality(provider)
        /\ Cardinality(provider) \in Nat /\ Cardinality(provider') \in Nat
    BY <1>1, FS_Subset, FS_CardinalityType DEF AccInv
  <1>4. TypeOK' /\ IsFiniteSet(provider)'
    BY <1>1, <1>2, <1>3, EndFacts DEF AccInv, TypeOK
  <1>5. LocalsOK'
    BY <1>1, <1>4, EndStep
  <1>6. UniqueUnlessRaced'
    BY <1>1, <1>3 DEF AccInv, UniqueUnlessRaced
  <1>7. CountsHold'
    <2> SUFFICES ASSUME NEW d \in Calls, Counted(call'[d]), "add" \notin raced' PROVE provider' = {}
      BY DEF CountsHold, Counted
    <2>1. Counted(call[d])
      BY EndFacts
    <2>2. "add" \notin raced
      BY <1>1, <2>1 DEF Counted
    <2> QED BY <1>1, <2>1, <2>2 DEF AccInv, CountsHold
  <1>8. RecordedProviderStays' /\ ProfileCreatedOnce'
    <2>1. \A d \in Calls : id \notin call[d].used
      BY <1>1, CallFacts DEF Good, Writes
    <2> QED BY <1>1, <2>1, EndFacts DEF AccInv, RecordedProviderStays, ProfileCreatedOnce
  <1>9. Covered'
    <2> SUFFICES ASSUME breaker, call[c].draft # "gone", "delete" \notin raced
                 PROVE  \E i \in provider' : \A d \in Calls : Blind(call'[d]) => call'[d].id # i
      BY <1>1 DEF Covered, Blind
    <2>1. PICK i \in provider : \A d \in Calls : Blind(call[d]) => call[d].id # i
      BY DEF AccInv, Covered
    <2>2. i # id
      BY <1>1, <2>1 DEF Blind
    <2>3. i \in provider' /\ \A d \in Calls : Blind(call'[d]) => call'[d].id # i
      BY <1>1, <2>1, <2>2, EndFacts
    <2> QED BY <2>3
  <1> QED BY <1>4, <1>5, <1>6, <1>7, <1>8, <1>9 DEF AccInv

LEMMA CommitRequestStep ==
    ASSUME AccInv, NEW c \in Calls, At(c, "commit"), call[c].op = "request", Ends(c), CommitRequest(c)
    PROVE  AccInv'
  <1> DEFINE passed == call[c].draft = "row" /\ \E d \in Others(c) : At(d, "dropRow")
  <1>1. /\ UNCHANGED <<profile, provider>> /\ call[c].pc = "commit"
        /\ (breaker' <=> breaker \/ call[c].draft = "row")
        /\ raced' = raced \cup (IF passed THEN {"delete"} ELSE {})
    BY DEF CommitRequest, At
  <1>2. breaker' \in BOOLEAN
    BY DEF CommitRequest
  <1>3. "delete" \notin raced' => "delete" \notin raced /\ ~passed
    BY <1>1
  <1>4. raced' \in SUBSET {"add", "delete"} /\ ("add" \in raced' <=> "add" \in raced)
    BY <1>1 DEF AccInv, TypeOK
  <1>5. TypeOK' /\ IsFiniteSet(provider)'
    BY <1>1, <1>2, <1>4, EndFacts DEF AccInv, TypeOK
  <1>6. LocalsOK'
    BY <1>1, <1>5, EndStep
  <1>7. UniqueUnlessRaced' /\ ProfileCreatedOnce'
    BY <1>1, <1>4 DEF AccInv, UniqueUnlessRaced, ProfileCreatedOnce
  <1>8. CountsHold'
    BY <1>1, <1>4, EndFacts DEF AccInv, CountsHold
  <1>9. RecordedProviderStays'
    BY <1>1, EndFacts DEF AccInv, RecordedProviderStays
  <1>10. Covered'
    <2> SUFFICES ASSUME breaker', "delete" \notin raced, ~passed
                 PROVE  \E i \in provider : \A d \in Calls : Blind(call'[d]) => call'[d].id # i
      BY <1>1, <1>3 DEF Covered, Blind
    <2>1. CASE breaker
      <3>1. PICK i \in provider : \A d \in Calls : Blind(call[d]) => call[d].id # i
        BY <2>1 DEF AccInv, Covered
      <3>2. \A d \in Calls : Blind(call'[d]) => call'[d].id # i
        BY <3>1, EndFacts
      <3> QED BY <3>2
    <2>2. CASE ~breaker
      <3>1. call[c].draft = "row" /\ call[c].used # {}
        BY <1>1, <2>2, CallFacts DEF Good, Control
      <3>2. PICK i \in call[c].used : i \in provider
        BY <3>1 DEF AccInv, RecordedProviderStays
      <3>3. ASSUME NEW d \in Calls, Blind(call'[d])
            PROVE  call'[d].id # i
        <4>1. d # c /\ call'[d] = call[d] /\ Blind(call[d])
          BY <3>3, EndFacts
        <4>2. call[d].pc = "commit"
          BY <3>1, <4>1 DEF Blind, Others, At
        <4> QED BY <3>2, <4>1, <4>2, CallFacts DEF Blind, Good, Writes
      <3> QED BY <3>2, <3>3
    <2> QED BY <2>1, <2>2
  <1> QED BY <1>5, <1>6, <1>7, <1>8, <1>9, <1>10 DEF AccInv

LEMMA CommitStep ==
    ASSUME AccInv, NEW c \in Calls, Commit(c)
    PROVE  AccInv'
  <1>1. CASE UNCHANGED stored
    BY <1>1, RaisesStep DEF Commit, Raises
  <1> QED BY <1>1, CommitProfileStep, CommitAddStep, CommitDeleteStep, CommitRequestStep DEF Commit
-----------------------------------------------------------------------------
LEMMA NextAccount ==
    ASSUME AccInv, [Next]_vars
    PROVE  AccInv'
  <1>1. CASE UNCHANGED vars
    BY <1>1 DEF AccInv, TypeOK, LocalsOK, Good, Held, Writes, Holds, Passed, ProfileCreatedOnce,
                RecordedProviderStays, UniqueUnlessRaced, CountsHold, Covered, Blind, Counted, vars
  <1>2. ASSUME NEW c \in Calls, Step(c) \/ Abort(c)
        PROVE  AccInv'
    <2>1. CASE Raises(c)
      BY <2>1, RaisesStep
    <2> QED BY <1>2, <2>1, UpsertStep, ProbeStep, PutStep, CountStep, InsertStep, DropBreakerStep,
               DropRowStep, GateStep, DetourStep, ChatStep, FailureStep, UsageStep, MoreStep, CommitStep
               DEF Step, Victim, Abort
  <1> QED BY <1>1, <1>2, BeginSteps, RequestBegins DEF Next

LEMMA Invariance == Spec => []AccInv
  <1> QED BY InitAccount, NextAccount, PTL DEF Spec
-----------------------------------------------------------------------------
(***************************************************************************)
(* Who waits for whom.                                                     *)
(***************************************************************************)
\* The row that a call asks for, of those it named.
Asks(q, r) ==
    \/ q.pc \in {"upsert", "walk"} /\ q.left # <<>> /\ r = Head(q.left)
    \/ q.pc = "failure" /\ r = "breaker"

WaitsFor(c, d) ==
    /\ call[c].pc # "commit"
    /\ \/ \E r \in Keys \cup Breakers : Asks(call[c], r) /\ lock[r] = d
       \/ call[d].pc = "commit"
       \/ call[c].pc = "dropRow" /\ call[c].id \in call[d].used
       \/ call[c].pc = "dropBreaker" /\ lock["breaker"] = d

LEMMA AwaitsFacts ==
    ASSUME AccInv, NEW c \in Calls, NEW d \in Awaits(c)
    PROVE  d \in Calls /\ d # c /\ WaitsFor(c, d)
  <1>1. d \in Calls /\ d # c /\ Good(d, call[d]) /\ Good(c, call[c])
    BY CallFacts DEF Awaits, Others
  <1>2. CASE At(c, "dropRow") /\ call[c].id \in call[d].used
    BY <1>1, <1>2 DEF WaitsFor, At
  <1>3. ASSUME NEW r \in Wanted(c), lock[r] = d
        PROVE  WaitsFor(c, d)
    <2>1. CASE call[c].pc = "upsert"
      <3>1. Wanted(c) = {Head(call[c].left)}
        BY <2>1 DEF Wanted, At, Turn
      <3>2. call[c].left \in Seq(Keys) /\ call[c].left # <<>>
        BY <1>1, <2>1 DEF Good, Control
      <3>3. r = Head(call[c].left) /\ r \in Keys
        BY <3>1, <3>2, TailFacts
      <3> QED BY <1>3, <2>1, <3>2, <3>3 DEF WaitsFor, Asks
    <2>2. CASE call[c].pc = "put"
      <3>1. r = "profile" /\ r \in Rows
        BY <2>2 DEF Wanted, At, Rows, Turn
      <3> QED BY <1>1, <1>3, <2>2, <3>1 DEF Good, Held, Holds, WaitsFor
    <2>3. CASE call[c].pc \in {"dropRow", "usage"}
      <3>1. r = call[c].id
        BY <2>3 DEF Wanted, At, Turn
      <3>2. r \in Ids /\ r \in Rows
        BY <1>1, <2>3, <3>1 DEF Good, Control, Comes, Requests, Rows
      <3> QED BY <1>1, <1>3, <2>3, <3>2 DEF Good, Held, Holds, WaitsFor
    <2>4. CASE call[c].pc \in {"dropBreaker", "failure"}
      <3>1. r = "breaker" /\ r \in Breakers
        BY <2>4 DEF Wanted, At, Turn, Breakers
      <3> QED BY <1>3, <2>4, <3>1 DEF WaitsFor, Asks
    <2>5. CASE call[c].pc = "walk"
      <3>1. call[c].left # <<>> /\ r = Head(call[c].left) /\ r \in Breakers
        BY <2>5 DEF Wanted, At, Turn, Breakers
      <3> QED BY <1>3, <2>5, <3>1 DEF WaitsFor, Asks
    <2>6. call[c].pc \in {"upsert", "put", "dropRow", "usage", "dropBreaker", "failure", "walk"}
      BY DEF Wanted, At, Turn
    <2> QED BY <2>1, <2>2, <2>3, <2>4, <2>5, <2>6
  <1> QED BY <1>1, <1>2, <1>3 DEF Awaits

\* The row asked for has its place in the order.
LEMMA AskedPlace ==
    ASSUME AccInv, NEW c \in Calls, NEW r \in Keys \cup Breakers, Asks(call[c], r)
    PROVE  /\ call[c].op \in {"settings", "request"} /\ call[c].pc # "commit"
           /\ Behind(call[c]) \in Nat /\ Behind(call[c]) <= Len(call[c].order)
           /\ call[c].order \in Seq(Keys \cup Breakers)
           /\ IF call[c].pc = "failure"
              THEN Behind(call[c]) >= 1 /\ call[c].order[Behind(call[c])] = r
              ELSE Behind(call[c]) + 1 <= Len(call[c].order) /\ call[c].order[Behind(call[c]) + 1] = r
  <1> DEFINE p == call[c]
  <1>1. p \in Call /\ Control(p)
    BY CallFacts DEF Good
  <1>2. /\ p.pc \in {"upsert", "walk", "failure"} /\ p.op \in {"settings", "request"} /\ Ahead(p)
        /\ p.pc = "failure" => Comes(p) /\ r = "breaker"
        /\ p.pc # "failure" => p.left # <<>> /\ r = Head(p.left)
    BY <1>1 DEF Asks, Control, Comes, Requests
  <1>3. p.order \in Seq(Keys \cup Breakers) /\ p.left \in Seq(Keys \cup Breakers)
    BY <1>1 DEF Call
  <1>4. Behind(p) \in Nat /\ Behind(p) <= Len(p.order)
    <2>1. PICK q : q = p
      OBVIOUS
    <2> QED BY <1>2, <1>3, <2>1, Answered
  <1>5. CASE p.pc = "failure"
    <2>1. Behind(p) >= 1 /\ p.order[Behind(p)] = r
      BY <1>2, <1>5 DEF Comes
    <2> QED BY <1>2, <1>3, <1>4, <1>5, <2>1
  <1>6. CASE p.pc # "failure"
    <2>1. PICK q : q = [p EXCEPT !.left = Tail(p.left)]
      OBVIOUS
    <2>2. q.order = p.order /\ q.left = Tail(p.left)
      BY <1>1, <2>1 DEF Call
    <2> HIDE DEF p
    <2>3. p.left # <<>> /\ Ahead(p) /\ r = Head(p.left)
      BY <1>2, <1>6
    <2>4. Behind(q) = Behind(p) + 1 /\ Behind(q) \in 1..Len(p.order) /\ q.order[Behind(q)] = Head(p.left)
      BY <1>3, <2>2, <2>3, OneOn, ZenonT(60)
    <2>5. Behind(p) + 1 \in 1..Len(p.order) /\ p.order[Behind(p) + 1] = r
      BY <2>2, <2>3, <2>4
    <2> QED BY <1>2, <1>3, <1>4, <1>6, <2>5 DEF p
  <1> QED BY <1>5, <1>6

\* What a call has locked it named before what it asks for.
LEMMA NamedBefore ==
    ASSUME AccInv, NEW c \in Calls, NEW r \in Keys \cup Breakers, Asks(call[c], r),
           NEW k \in Keys \cup Breakers, lock[k] = c, k # r
    PROVE  Before(k, r, call[c].order)
  <1> DEFINE p == call[c]
             n == Behind(p)
  <1>1. /\ p.op \in {"settings", "request"} /\ p.pc # "commit" /\ n \in Nat /\ n <= Len(p.order)
        /\ p.order \in Seq(Keys \cup Breakers)
        /\ IF p.pc = "failure" THEN n >= 1 /\ p.order[n] = r
                               ELSE n + 1 <= Len(p.order) /\ p.order[n + 1] = r
    BY AskedPlace
  <1>2. Passed(p, k)
    BY <1>1, CallFacts DEF Good, Held, Holds, Rows, Breakers
  <1>3. PICK i \in 1..n : p.order[i] = k
    BY <1>2 DEF Passed
  <1>4. DOMAIN p.order = 1..Len(p.order) /\ Len(p.order) \in Nat
    BY <1>1
  <1> HIDE DEF p, n
  <1>5. i \in DOMAIN p.order /\ (i < n \/ i = n)
    BY <1>1, <1>4
  <1>6. CASE p.pc = "failure"
    <2>1. i < n /\ n \in DOMAIN p.order
      BY <1>1, <1>3, <1>4, <1>5, <1>6
    <2> QED BY <1>1, <1>3, <1>5, <1>6, <2>1 DEF Before, p
  <1>7. CASE p.pc # "failure"
    <2>1. i < n + 1 /\ n + 1 \in DOMAIN p.order
      BY <1>1, <1>4, <1>7
    <2> QED BY <1>1, <1>3, <1>5, <1>7, <2>1 DEF Before, p
  <1> QED BY <1>6, <1>7

\* A call that asks for the breaker with a use recorded comes to the name again.
LEMMA AsksAgain ==
    ASSUME AccInv, NEW c \in Calls, Asks(call[c], "breaker"), call[c].used # {}
    PROVE  Returns(c)
  <1> DEFINE p == call[c]
             n == Behind(p)
  <1>1. "breaker" \in Keys \cup Breakers
    BY DEF Breakers
  <1>2. /\ n \in Nat /\ n <= Len(p.order) /\ p.order \in Seq(Keys \cup Breakers)
        /\ IF p.pc = "failure" THEN n >= 1 /\ p.order[n] = "breaker"
                               ELSE n + 1 <= Len(p.order) /\ p.order[n + 1] = "breaker"
    BY <1>1, AskedPlace
  <1>3. Comes(p) /\ p.pc \in {"walk", "failure"}
    BY CallFacts DEF Good, Control, Asks, Requests
  <1>4. DOMAIN p.order = 1..Len(p.order) /\ Len(p.order) \in Nat
    BY <1>2
  <1>5. CASE p.pc = "failure"
    <2>1. PICK i \in 1..(n - 1) : p.order[i] = "breaker"
      BY <1>3, <1>5 DEF Comes, PassedBefore
    <2> HIDE DEF p, n
    <2>2. i \in DOMAIN p.order /\ n \in DOMAIN p.order /\ i < n
      BY <1>2, <1>4, <1>5
    <2> QED BY <1>2, <1>5, <2>1, <2>2 DEF Returns, Before, p
  <1>6. CASE p.pc # "failure"
    <2>1. PICK i \in 1..n : p.order[i] = "breaker"
      BY <1>3 DEF Comes, Passed
    <2> HIDE DEF p, n
    <2>2. i \in DOMAIN p.order /\ n + 1 \in DOMAIN p.order /\ i < n + 1
      BY <1>2, <1>4, <1>6
    <2> QED BY <1>2, <1>6, <2>1, <2>2 DEF Returns, Before, p
  <1> QED BY <1>5, <1>6

\* A call that has used a provider and waits, waits for a row it named.
LEMMA UserAsks ==
    ASSUME AccInv, NEW c \in Calls, NEW d \in Calls, WaitsFor(c, d), call[d].pc # "commit",
           call[c].op # "delete"
    PROVE  \E r \in Keys \cup Breakers : Asks(call[c], r) /\ lock[r] = d
  <1>1. Control(call[c])
    BY CallFacts DEF Good
  <1> QED BY <1>1 DEF WaitsFor, Control

\* A call that waits for a delete, which waits for it.
LEMMA DeleteKnown ==
    ASSUME AccInv, NEW c \in Calls, NEW d \in Calls, WaitsFor(c, d), WaitsFor(d, c), c # d,
           call[d].op = "delete"
    PROVE  Returns(c)
  <1>1. /\ Control(call[c]) /\ Control(call[d]) /\ Held(c, call[c]) /\ Held(d, call[d])
        /\ call[c].pc # "commit" /\ call[d].pc # "commit"
    BY CallFacts DEF Good, WaitsFor
  <1>2. "breaker" \in Rows /\ "breaker" \in Breakers
    BY DEF Rows, Breakers
  <1>3. CASE call[c].op = "delete"
    <2>1. call[c].used = {} /\ call[d].used = {}
      BY <1>1, <1>3 DEF Control
    <2>2. ASSUME NEW x \in {c, d}
          PROVE  \A r : ~Asks(call[x], r)
      BY <1>1, <1>3 DEF Asks, Control, Requests
    <2>3. call[c].pc = "dropBreaker" /\ lock["breaker"] = d /\ call[d].pc = "dropBreaker" /\ lock["breaker"] = c
      BY <1>1, <2>1, <2>2 DEF WaitsFor
    <2> QED BY <2>3
  <1>4. CASE call[c].op # "delete"
    <2>1. PICK r \in Keys \cup Breakers : Asks(call[c], r) /\ lock[r] = d
      BY <1>1, <1>4, UserAsks
    <2>2. r = "breaker" /\ call[d].pc = "dropRow"
      <3>1. r \in Rows /\ Holds(call[d], r)
        BY <1>1, <2>1 DEF Held, Rows
      <3> QED BY <1>1, <3>1 DEF Holds, Breakers
    <2>3. call[c].used # {}
      BY <1>1, <2>2 DEF WaitsFor, Asks
    <2> QED BY <2>1, <2>2, <2>3, AsksAgain
  <1> QED BY <1>3, <1>4

LEMMA PairsKnown ==
    ASSUME AccInv, NEW c \in Calls, NEW d \in Calls, WaitsFor(c, d), WaitsFor(d, c), c # d
    PROVE  \/ Crossed(c, d)
           \/ \E x, y \in {c, d} : call[x].op = "delete" /\ Returns(y)
  <1>1. CASE call[d].op = "delete"
    BY <1>1, DeleteKnown
  <1>2. CASE call[c].op = "delete"
    BY <1>2, DeleteKnown
  <1>3. CASE call[c].op # "delete" /\ call[d].op # "delete"
    <2>1. call[c].pc # "commit" /\ call[d].pc # "commit"
      BY DEF WaitsFor
    <2>2. PICK l \in Keys \cup Breakers : Asks(call[c], l) /\ lock[l] = d
      BY <1>3, <2>1, UserAsks
    <2>3. PICK k \in Keys \cup Breakers : Asks(call[d], k) /\ lock[k] = c
      BY <1>3, <2>1, UserAsks
    <2>4. k # l
      BY <2>2, <2>3
    <2>5. Before(k, l, call[c].order)
      BY <2>2, <2>3, <2>4, NamedBefore
    <2>6. Before(l, k, call[d].order)
      BY <2>2, <2>3, <2>4, NamedBefore
    <2> QED BY <2>4, <2>5, <2>6 DEF Crossed
  <1> QED BY <1>1, <1>2, <1>3

LEMMA DeadlocksAreKnown == AccInv => DeadlocksKnown
  <1> SUFFICES ASSUME AccInv, NEW c \in Calls, NEW d \in Calls, c # d, Circle({c, d})
               PROVE  \/ Crossed(c, d)
                      \/ \E x, y \in {c, d} : call[x].op = "delete" /\ Returns(y)
    BY DEF DeadlocksKnown
  <1>1. d \in Awaits(c) /\ c \in Awaits(d)
    BY DEF Circle, Awaits, Others
  <1> QED BY <1>1, AwaitsFacts, PairsKnown
-----------------------------------------------------------------------------
(***************************************************************************)
(* Type correctness of the tables, the locks and every call.               *)
(***************************************************************************)
THEOREM AccountTypes == Spec => []TypeOK
  <1>1. AccInv => TypeOK
    BY DEF AccInv
  <1> QED BY <1>1, Invariance, PTL

(***************************************************************************)
(* delete_provider leaves no breaker behind, but for the race of a request *)
(* that commits one while a delete is past it: no other order of adds,     *)
(* deletes, requests and crashes does.                                     *)
(***************************************************************************)
THEOREM OrphansComeFromRaces == Spec => []OrphanOnlyByRace
  <1>1. AccInv => OrphanOnlyByRace
    BY DEF AccInv, Covered, OrphanOnlyByRace
  <1> QED BY <1>1, Invariance, PTL

(***************************************************************************)
(* Only adds that counted at once give a name two providers                *)
(* (count_providers_by_name).                                              *)
(***************************************************************************)
THEOREM DuplicatesComeFromRaces == Spec => []UniqueUnlessRaced
  <1>1. AccInv => UniqueUnlessRaced
    BY DEF AccInv
  <1> QED BY <1>1, Invariance, PTL

(***************************************************************************)
(* One of any number of racing first PUTs creates the profile.             *)
(***************************************************************************)
THEOREM OneUserProfile == Spec => []ProfileCreatedOnce
  <1>1. AccInv => ProfileCreatedOnce
    BY DEF AccInv
  <1> QED BY <1>1, Invariance, PTL

(***************************************************************************)
(* A provider outlives the uncommitted usage rows of it (the foreign key   *)
(* of llm_usage, as delete_provider meets it).                             *)
(***************************************************************************)
THEOREM UsedProvidersStay == Spec => []RecordedProviderStays
  <1>1. AccInv => RecordedProviderStays
    BY DEF AccInv
  <1> QED BY <1>1, Invariance, PTL

(***************************************************************************)
(* Two calls deadlock over rows they name in crossed orders, the keys of   *)
(* two updates or the names of two chains, or as a delete and a request    *)
(* that comes to the name again, and in no other way.                      *)
(***************************************************************************)
THEOREM OnlyKnownDeadlocks == Spec => []DeadlocksKnown
  <1> QED BY DeadlocksAreKnown, Invariance, PTL
-----------------------------------------------------------------------------
(***************************************************************************)
(* What is left of a call: its statements to come, were nothing to make    *)
(* it wait or raise.  A request is one of them, and four a name it comes   *)
(* to.                                                                     *)
(***************************************************************************)
Stage(pc) == CASE pc = "usage" -> 2 [] pc = "failure" -> 3 [] pc = "call" -> 4 [] OTHER -> 1

Work(q) ==
    CASE q.pc = "idle" -> 0
      [] q.pc = "commit" -> 1
      [] q.pc \in {"put", "insert", "dropRow"} -> 2
      [] q.pc \in {"probe", "count", "dropBreaker"} -> 3
      [] q.pc = "upsert" -> 1 + Len(q.left)
      [] OTHER -> 1 + (MaxTurns - q.turns) + 4 * (MaxNames - Behind(q)) + Stage(q.pc)

Budget(q) == IF q.op = "settings" THEN 1 + Len(q.order) ELSE 2 + MaxTurns + 4 * MaxNames

LEMMA BoundsAreNat == MaxTurns \in Nat /\ MaxTurns >= 1 /\ MaxNames \in Nat
  BY TurnAssumption, ChainAssumption

\* What is left of a request.
LEMMA RequestWork ==
    ASSUME NEW q \in Call, Control(q), q.pc \in Requests
    PROVE  /\ q.turns \in 1..MaxTurns /\ Behind(q) \in 0..MaxNames /\ Stage(q.pc) \in 1..4
           /\ Stage(q.pc) > 1 => Behind(q) >= 1
           /\ Work(q) = 1 + (MaxTurns - q.turns) + 4 * (MaxNames - Behind(q)) + Stage(q.pc)
           /\ Budget(q) = 2 + MaxTurns + 4 * MaxNames
  <1>1. /\ q.op = "request" /\ q.turns # 0 /\ q.turns \in 0..MaxTurns /\ Comes(q)
        /\ Ahead(q) /\ Len(q.order) <= MaxNames
    BY DEF Control, Call, Comes
  <1>2. q.turns \in 1..MaxTurns
    BY <1>1, BoundsAreNat
  <1>3. Behind(q) \in 0..MaxNames
    <2>1. PICK x \in Nat, y \in Nat : x = Len(q.order) /\ y = Len(q.left)
      BY DEF Call
    <2>2. y <= x /\ x <= MaxNames
      BY <1>1, <2>1 DEF Ahead
    <2>3. x - y \in 0..MaxNames
      BY <2>2, BoundsAreNat
    <2> QED BY <2>1, <2>3 DEF Behind
  <1>4. Stage(q.pc) \in 1..4 /\ (Stage(q.pc) > 1 => q.pc \in {"call", "failure", "usage"})
    BY DEF Stage
  <1>5. q.pc \in {"call", "failure", "usage"} => Behind(q) >= 1
    <2>1. Passed(q, "breaker") => Behind(q) >= 1
      BY <1>3 DEF Passed
    <2> QED BY <1>1, <2>1 DEF Comes
  <1>6. Work(q) = 1 + (MaxTurns - q.turns) + 4 * (MaxNames - Behind(q)) + Stage(q.pc)
    BY DEF Work, Requests
  <1>7. Budget(q) = 2 + MaxTurns + 4 * MaxNames
    BY <1>1 DEF Budget
  <1> QED BY <1>2, <1>3, <1>4, <1>5, <1>6, <1>7

LEMMA WorkType ==
    ASSUME NEW q \in Call, Control(q)
    PROVE  /\ Work(q) \in 0..Budget(q)
           /\ q.pc # "idle" => Work(q) # 0
  <1>1. q.pc \in PCs /\ Len(q.left) \in Nat /\ Len(q.order) \in Nat
    BY DEF Call
  <1>2. CASE q.pc = "upsert"
    <2>1. Work(q) = 1 + Len(q.left) /\ Budget(q) = 1 + Len(q.order) /\ Len(q.left) <= Len(q.order)
      BY <1>2 DEF Work, Budget, Control, Ahead
    <2> QED BY <1>1, <2>1
  <1>3. CASE q.pc = "idle"
    <2>1. Work(q) = 0
      BY <1>3 DEF Work
    <2> QED BY <1>1, <1>3, <2>1, BoundsAreNat DEF Budget
  <1>4. CASE q.pc = "commit"
    <2>1. Work(q) = 1
      BY <1>4 DEF Work
    <2> QED BY <1>1, <2>1, BoundsAreNat DEF Budget
  <1>5. CASE q.pc \in {"put", "insert", "dropRow", "probe", "count", "dropBreaker"}
    <2>1. Work(q) \in {2, 3} /\ q.op # "settings"
      BY <1>5 DEF Work, Control
    <2> QED BY <2>1, BoundsAreNat DEF Budget
  <1>6. CASE q.pc \in Requests
    <2>1. PICK t \in Nat, b \in Nat, s \in Nat :
              /\ 1 <= t /\ t <= MaxTurns /\ b <= MaxNames /\ 1 <= s /\ s <= 4 /\ (s > 1 => b >= 1)
              /\ Work(q) = 1 + (MaxTurns - t) + 4 * (MaxNames - b) + s
              /\ Budget(q) = 2 + MaxTurns + 4 * MaxNames
      <3>1. q.turns \in Nat /\ Behind(q) \in Nat /\ Stage(q.pc) \in Nat
        BY <1>6, RequestWork
      <3> QED BY <1>6, <3>1, RequestWork
    <2> QED BY <2>1, BoundsAreNat
  <1> QED BY <1>1, <1>2, <1>3, <1>4, <1>5, <1>6 DEF PCs, Requests

LEMMA MovesTo ==
    ASSUME TypeOK, NEW c \in Calls, NEW q, Moves(c, q)
    PROVE  /\ call'[c] = q
           /\ \A d \in Others(c) : call'[d] = call[d]
  BY DEF TypeOK, Moves, Others

LEMMA EndsIdle ==
    ASSUME TypeOK, NEW c \in Calls, Ends(c) \/ Raises(c)
    PROVE  Work(call'[c]) = 0
  <1>1. call'[c] = Blank
    BY MovesTo DEF Ends, Raises
  <1> QED BY <1>1, BlankIsIdle DEF Work

\* What a request goes on with: the rest of the name it has come to, the next
\* name, or the next request.
Onward(q, r) ==
    /\ q.pc \in Requests /\ r.pc \in Requests
    /\ \/ r.turns = q.turns /\ Behind(r) >= Behind(q) /\ Stage(r.pc) < Stage(q.pc)
       \/ r.turns = q.turns /\ Behind(r) = Behind(q) + 1 /\ q.pc = "walk"
       \/ r.turns = q.turns + 1 /\ Behind(r) = Behind(q) /\ q.pc = "walk" /\ r.pc = "walk"

LEMMA OnwardIsLess ==
    ASSUME NEW q \in Call, Control(q), NEW r \in Call, Control(r), Onward(q, r)
    PROVE  Work(r) < Work(q)
  <1>1. PICK t \in Nat, b \in Nat, s \in Nat :
            /\ t = q.turns /\ b = Behind(q) /\ s = Stage(q.pc) /\ 1 <= s
            /\ Work(q) = 1 + (MaxTurns - t) + 4 * (MaxNames - b) + s
    <2>1. q.turns \in Nat /\ Behind(q) \in Nat /\ Stage(q.pc) \in Nat
      BY RequestWork DEF Onward
    <2> QED BY <2>1, RequestWork DEF Onward
  <1>2. PICK u \in Nat, a \in Nat, z \in Nat :
            /\ u = r.turns /\ a = Behind(r) /\ z = Stage(r.pc) /\ z <= 4
            /\ Work(r) = 1 + (MaxTurns - u) + 4 * (MaxNames - a) + z
    <2>1. r.turns \in Nat /\ Behind(r) \in Nat /\ Stage(r.pc) \in Nat
      BY RequestWork DEF Onward
    <2> QED BY <2>1, RequestWork DEF Onward
  <1>3. \/ u = t /\ a >= b /\ z < s
        \/ u = t /\ a = b + 1 /\ s = 1
        \/ u = t + 1 /\ a = b /\ s = 1 /\ z = 1
    <2>1. (q.pc = "walk" => s = 1) /\ (r.pc = "walk" => z = 1)
      BY <1>1, <1>2 DEF Stage
    <2> QED BY <1>1, <1>2, <2>1 DEF Onward
  <1> QED BY <1>1, <1>2, <1>3, BoundsAreNat

\* The next name.
LEMMA TurnIsOnward ==
    ASSUME AccInv, NEW c \in Calls, Gate(c) \/ Detour(c)
    PROVE  Onward(call[c], call'[c])
  <1> DEFINE p == call[c]
  <1>1. PICK row : Turn(c, row) /\ (Gate(c) => row = "breaker")
    BY DEF Gate, Detour
  <1>2. p.pc = "walk" /\ p.pc \in Requests /\ [p EXCEPT !.left = Rest(c)] = [p EXCEPT !.pc = "walk", !.left = Rest(c)]
    <2>1. p.pc = "walk" /\ p.pc \in Requests
      BY <1>1 DEF Turn, At, Requests
    <2> QED BY <2>1, RequestFacts DEF Call
  <1>3. PICK pc \in {"walk", "call"} : Moves(c, [p EXCEPT !.pc = pc, !.left = Rest(c)]) /\ (pc = "call" => row = "breaker")
    <2>1. CASE Gate(c)
      BY <1>1, <1>2, <2>1 DEF Gate
    <2>2. CASE Detour(c)
      BY <1>2, <2>2 DEF Detour
    <2> QED BY <2>1, <2>2
  <1>4. PICK q : q = [p EXCEPT !.pc = pc, !.left = Rest(c)]
    OBVIOUS
  <1>5. q.turns = p.turns /\ q.pc = pc /\ Behind(q) = Behind(p) + 1
    BY <1>1, <1>3, <1>4, WalkOn
  <1>6. call'[c] = q
    BY <1>3, <1>4, MovesTo DEF AccInv
  <1>7. q.pc \in Requests
    BY <1>3, <1>5 DEF Requests
  <1> QED BY <1>2, <1>5, <1>6, <1>7 DEF Onward

\* The rest of a name.
LEMMA CallIsOnward ==
    ASSUME AccInv, NEW c \in Calls, Chat(c) \/ Failure(c) \/ (Usage(c) /\ ~Raises(c))
    PROVE  Onward(call[c], call'[c])
  <1> DEFINE p == call[c]
  <1>1. p.pc \in {"call", "failure", "usage"} /\ p.pc \in Requests
    BY DEF Chat, Failure, Usage, At, Requests
  <1>2. /\ p \in Call /\ Ahead(p)
        /\ p.order \in Seq(Keys \cup Breakers) /\ p.left \in Seq(Keys \cup Breakers)
    BY <1>1, RequestFacts
  <1>3. PICK q : Moves(c, q) /\ (Chat(c) \/ Failure(c) \/ (Usage(c) /\ ~Raises(c)))
    BY DEF Chat, Failure, Usage
  <1>4. call'[c] = q
    BY <1>3, MovesTo DEF AccInv
  <1>5. /\ q.order = p.order /\ q.left \in {p.left, <<>>} /\ q.turns = p.turns
        /\ q.pc \in Requests /\ Stage(q.pc) < Stage(p.pc)
    <2>1. CASE Chat(c)
      <3>1. CASE \E left \in {p.left, <<>>} : Moves(c, [p EXCEPT !.pc = "usage", !.left = left])
        <4>1. PICK left \in {p.left, <<>>} : q = [p EXCEPT !.pc = "usage", !.left = left]
          BY <1>4, <3>1, MovesTo DEF AccInv
        <4> QED BY <1>2, <2>1, <4>1 DEF Call, Requests, Stage, Chat, At
      <3>2. CASE \E exists \in {FALSE, Seen(c)} : Moves(c, [p EXCEPT !.pc = "failure", !.exists = exists])
        <4>1. PICK exists \in {FALSE, Seen(c)} : q = [p EXCEPT !.pc = "failure", !.exists = exists]
          BY <1>4, <3>2, MovesTo DEF AccInv
        <4> QED BY <1>2, <2>1, <4>1 DEF Call, Requests, Stage, Chat, At
      <3> QED BY <2>1, <3>1, <3>2 DEF Chat
    <2>2. CASE Failure(c)
      <3>1. PICK draft : q = [p EXCEPT !.pc = "usage", !.exists = FALSE, !.draft = draft]
        BY <1>4, <2>2, MovesTo DEF Failure, AccInv
      <3> QED BY <1>2, <2>2, <3>1 DEF Call, Requests, Stage, Failure, At
    <2>3. CASE Usage(c) /\ ~Raises(c)
      <3>1. q = [p EXCEPT !.pc = "walk", !.used = p.used \cup {p.id}]
        BY <1>4, <2>3, MovesTo DEF Usage, AccInv
      <3> QED BY <1>2, <2>3, <3>1 DEF Call, Requests, Stage, Usage, At
    <2> QED BY <1>3, <2>1, <2>2, <2>3
  <1>6. Behind(q) >= Behind(p)
    BY <1>2, <1>5, Answered
  <1> QED BY <1>1, <1>4, <1>5, <1>6 DEF Onward

\* The next request, or the commit.
LEMMA MoreIsLess ==
    ASSUME AccInv, AccInv', NEW c \in Calls, More(c)
    PROVE  Work(call'[c]) < Work(call[c])
  <1> DEFINE p == call[c]
  <1>1. p.pc = "walk" /\ p.pc \in Requests /\ p.left = <<>> /\ TypeOK
    BY DEF More, At, Requests, AccInv
  <1>2. /\ p \in Call /\ Control(p) /\ p.op = "request" /\ p.turns # 0 /\ p.draft # "gone"
        /\ Comes(p) /\ (p.draft = "row" => p.used # {})
    BY <1>1, RequestFacts, CallFacts DEF Good
  <1>3. p.turns \in Nat /\ MaxTurns \in Nat
    BY <1>2, TurnAssumption DEF Call
  <1>4. CASE Moves(c, [p EXCEPT !.pc = "commit", !.id = NoId, !.order = <<>>])
    <2>1. PICK q : q = [p EXCEPT !.pc = "commit", !.id = NoId, !.order = <<>>] /\ call'[c] = q
      BY <1>1, <1>4, MovesTo
    <2>2. Work(q) = 1
      BY <1>2, <2>1 DEF Work, Call
    <2>3. Work(p) > 1
      <3>1. PICK t \in Nat, b \in Nat : t <= MaxTurns /\ b <= MaxNames
                /\ Work(p) = 1 + (MaxTurns - t) + 4 * (MaxNames - b) + 1
        <4>1. p.turns \in Nat /\ Behind(p) \in Nat /\ Stage(p.pc) = 1
          BY <1>1, <1>2, RequestWork DEF Stage
        <4> QED BY <1>1, <1>2, <4>1, RequestWork
      <3> QED BY <3>1, BoundsAreNat
    <2> QED BY <2>1, <2>2, <2>3
  <1>5. CASE ~Moves(c, [p EXCEPT !.pc = "commit", !.id = NoId, !.order = <<>>])
    <2>1. PICK s : s = [p EXCEPT !.turns = p.turns + 1]
      OBVIOUS
    <2>2. p.turns < MaxTurns /\ Resolve(c, s)
      BY <1>2, <1>5, <2>1 DEF More, Call
    <2>3. s \in Call
      <3>1. p.turns + 1 \in 0..MaxTurns
        BY <1>3, <2>2
      <3> QED BY <1>2, <2>1, <3>1 DEF Call
    <2>4. /\ s.op = "request" /\ s.left = <<>> /\ s.order = p.order /\ s.used = p.used
          /\ s.draft = p.draft /\ s.turns = p.turns + 1
      BY <1>1, <1>2, <2>1 DEF Call
    <2>5. \A r : Passed(p, r) <=> Passed(s, r)
      BY <1>1, <2>4 DEF Passed, Behind
    <2>6. p.used # {} => Passed(p, "breaker")
      BY <1>2 DEF Comes
    <2>7. s.turns # 0
      BY <1>3, <2>4
    <2>8. PICK q \in Call : Moves(c, q) /\ Control(q) /\ q.pc = "walk" /\ q.turns = s.turns
                            /\ Behind(q) = Len(s.order)
      BY <1>2, <2>2, <2>3, <2>4, <2>5, <2>6, <2>7, ResolveFacts
    <2>9. Behind(p) = Len(p.order)
      <3>1. Len(p.left) = 0 /\ Len(p.order) \in Nat
        BY <1>1, <1>2 DEF Call
      <3> QED BY <3>1 DEF Behind
    <2>10. Onward(p, q)
      BY <1>1, <2>4, <2>8, <2>9 DEF Onward, Requests
    <2>11. call'[c] = q
      BY <1>1, <2>8, MovesTo
    <2> QED BY <1>2, <2>8, <2>10, <2>11, OnwardIsLess
  <1> QED BY <1>4, <1>5

LEMMA StepIsLess ==
    ASSUME AccInv, AccInv', NEW c \in Calls, Step(c)
    PROVE  Work(call'[c]) < Work(call[c])
  <1> DEFINE q == call[c]
             n == call'[c]
  <1>1. TypeOK /\ q \in Call /\ Control(q)
    BY CallFacts DEF AccInv, Good
  <1>2. Work(q) \in 0..Budget(q) /\ (q.pc # "idle" => Work(q) # 0) /\ Work(q) \in Nat
    <2>1. Work(q) \in 0..Budget(q) /\ (q.pc # "idle" => Work(q) # 0)
      BY <1>1, WorkType
    <2> QED BY <2>1
  <1>3. call'[c] \in Call /\ Control(call'[c])
    BY DEF AccInv, TypeOK, LocalsOK, Good
  <1>4. ASSUME NEW pc, Goes(c, pc)
        PROVE  n.pc = pc /\ n.turns = q.turns
    <2>1. n = [q EXCEPT !.pc = pc]
      BY <1>1, <1>4, MovesTo DEF Goes
    <2> QED BY <1>1, <2>1 DEF Call
  <1>5. ASSUME Raises(c), q.pc # "idle"
        PROVE  Work(n) < Work(q)
    <2>1. Work(n) = 0
      BY <1>1, <1>5, EndsIdle
    <2> QED BY <1>2, <1>5, <2>1
  <1> SUFFICES Work(n) < Work(q)
    OBVIOUS
  <1> HIDE DEF n
  <1>6. CASE Upsert(c)
    <2>1. q.pc = "upsert" /\ q.left # <<>>
      BY <1>1, <1>6 DEF Upsert, At, Control
    <2>2. /\ Len(q.left) \in Nat /\ Len(Tail(q.left)) = Len(q.left) - 1 /\ Len(q.left) > 0
      <3>1. q.left \in Seq(Keys \cup Breakers)
        BY <1>1 DEF Call
      <3> QED BY <2>1, <3>1, TailFacts
    <2>3. n = [q EXCEPT !.left = Tail(q.left), !.pc = IF Len(q.left) = 1 THEN "commit" ELSE "upsert"]
      BY <1>1, <1>6, <2>1, MovesTo DEF Upsert, n
    <2>4. n.left = Tail(q.left) /\ n.pc = IF Len(q.left) = 1 THEN "commit" ELSE "upsert"
      BY <1>1, <2>3 DEF Call
    <2>5. Work(q) = 1 + Len(q.left)
      BY <2>1 DEF Work
    <2>6. Work(n) = IF Len(q.left) = 1 THEN 1 ELSE 1 + Len(Tail(q.left))
      BY <2>4 DEF Work
    <2> QED BY <2>2, <2>5, <2>6
  <1>7. CASE ProbeProfile(c)
    <2>1. q.pc = "probe" /\ n = [q EXCEPT !.pc = "put", !.exists = profile > 0]
      BY <1>1, <1>7, MovesTo DEF ProbeProfile, At, n
    <2>2. n.pc = "put"
      BY <1>1, <2>1 DEF Call
    <2> QED BY <2>1, <2>2 DEF Work
  <1>8. CASE Put(c)
    <2>1. q.pc = "put" /\ (Goes(c, "commit") \/ Raises(c))
      BY <1>8 DEF Put, At
    <2>2. ASSUME Goes(c, "commit") PROVE Work(n) < Work(q)
      BY <1>4, <2>1, <2>2 DEF Work
    <2> QED BY <1>5, <2>1, <2>2
  <1>9. CASE Count(c)
    <2>1. q.pc = "count" /\ (Goes(c, "insert") \/ Raises(c))
      BY <1>9 DEF Count, At
    <2>2. ASSUME Goes(c, "insert") PROVE Work(n) < Work(q)
      BY <1>4, <2>1, <2>2 DEF Work
    <2> QED BY <1>5, <2>1, <2>2
  <1>10. CASE InsertProvider(c)
    <2>1. PICK id : q.pc = "insert" /\ n = [q EXCEPT !.pc = "commit", !.id = id]
      BY <1>1, <1>10, MovesTo DEF InsertProvider, At, n
    <2>2. n.pc = "commit"
      BY <1>1, <2>1 DEF Call
    <2> QED BY <2>1, <2>2 DEF Work
  <1>11. CASE DropBreaker(c)
    <2>1. q.pc = "dropBreaker" /\ TypeOK
      BY <1>1, <1>11 DEF DropBreaker, At
    <2>2. CASE Raises(c)
      BY <1>5, <2>1, <2>2
    <2>3. CASE ~Raises(c)
      <3>1. n = [q EXCEPT !.pc = "dropRow", !.draft = "gone"] \/ Goes(c, "dropRow")
        BY <1>11, <2>1, <2>3, MovesTo DEF DropBreaker, n
      <3>2. n.pc = "dropRow"
        BY <1>1, <1>4, <3>1 DEF Call
      <3> QED BY <2>1, <3>2 DEF Work
    <2> QED BY <2>2, <2>3
  <1>12. CASE DropRow(c)
    <2>1. q.pc = "dropRow" /\ n.pc = "commit"
      BY <1>4, <1>12 DEF DropRow, At
    <2> QED BY <2>1 DEF Work
  <1>13. CASE Gate(c) \/ Detour(c)
    BY <1>1, <1>3, <1>13, TurnIsOnward, OnwardIsLess DEF n
  <1>14. CASE Chat(c) \/ Failure(c) \/ (Usage(c) /\ ~Raises(c))
    BY <1>1, <1>3, <1>14, CallIsOnward, OnwardIsLess DEF n
  <1>15. CASE Usage(c) /\ Raises(c)
    BY <1>5, <1>15 DEF Usage, At
  <1>16. CASE More(c)
    BY <1>16, MoreIsLess DEF n
  <1>17. CASE Commit(c)
    <2>1. q.pc = "commit" /\ Work(n) = 0
      BY <1>1, <1>17, EndsIdle DEF Commit, At, n
    <2> QED BY <2>1 DEF Work
  <1>18. CASE Victim(c)
    <2>1. Raises(c)
      BY <1>18 DEF Victim
    <2>2. q.pc # "idle"
      <3>1. PICK set \in SUBSET Calls : c \in set /\ Circle(set)
        BY <1>18 DEF Victim
      <3>2. PICK d \in Others(c) : (\E r \in Wanted(c) : lock[r] = d) \/ At(c, "dropRow")
        BY <3>1 DEF Circle, Awaits
      <3>3. ASSUME q.pc = "idle" PROVE FALSE
        <4>1. Wanted(c) = {}
          BY <3>3 DEF Wanted, At, Turn
        <4> QED BY <3>2, <3>3, <4>1 DEF At
      <3> QED BY <3>3
    <2> QED BY <1>5, <2>1, <2>2
  <1> QED BY <1>6, <1>7, <1>8, <1>9, <1>10, <1>11, <1>12, <1>13, <1>14, <1>15, <1>16, <1>17, <1>18
          DEF Step

LEMMA OthersStay ==
    ASSUME TypeOK, NEW c \in Calls, Step(c) \/ Abort(c)
    PROVE  \A d \in Others(c) : call'[d] = call[d]
  <1>1. \E q : Moves(c, q)
    BY DEF Step, Abort, Upsert, ProbeProfile, Put, Count, InsertProvider, DropBreaker, DropRow, Gate,
           Detour, Chat, Failure, Usage, More, Resolve, Commit, Victim, Ends, Raises, Goes
  <1> QED BY <1>1, MovesTo

\* Every step of a call leaves it less to do, no step of a peer changes what it
\* has to do, and only the start of a call gives it something to do.
WorkShrinks == \A c \in Calls :
    /\ Work(call[c]) \in 0..Budget(call[c])
    /\ Step(c) => Work(call'[c]) < Work(call[c])
    /\ At(c, "idle") \/ Work(call'[c]) <= Work(call[c])

(***************************************************************************)
(* A call takes at most as many steps of its own as it has keys to upsert  *)
(* and a commit, or one a request, four a name it comes to and a commit:   *)
(* nothing in the services or the router starts over what was done.  Of    *)
(* CallEnds this is the part that no fairness is needed for.               *)
(***************************************************************************)
THEOREM CallsRunOut == Spec => [][WorkShrinks]_vars
  <1>1. ASSUME AccInv, AccInv', [Next]_vars
        PROVE  [WorkShrinks]_vars
    <2>1. TypeOK /\ \A c \in Calls : call[c] \in Call /\ Control(call[c])
      BY <1>1, CallFacts DEF AccInv, Good
    <2>2. \A c \in Calls : Work(call[c]) \in 0..Budget(call[c])
      BY <2>1, WorkType
    <2>3. \A c \in Calls : Work(call[c]) \in Nat
      BY <2>2
    <2>4. \A c \in Calls : Step(c) => Work(call'[c]) < Work(call[c])
      BY <1>1, StepIsLess
    <2>5. ASSUME NEW c \in Calls, Step(c) \/ Abort(c)
          PROVE  \A d \in Calls : Work(call'[d]) <= Work(call[d])
      <3>1. \A d \in Others(c) : Work(call'[d]) <= Work(call[d])
        <4>1. \A d \in Others(c) : call'[d] = call[d] /\ d \in Calls
          BY <2>1, <2>5, OthersStay DEF Others
        <4> QED BY <2>3, <4>1
      <3>2. Work(call'[c]) <= Work(call[c])
        <4>1. CASE Step(c)
          <5>1. Work(call'[c]) < Work(call[c]) /\ Work(call[c]) \in Nat
            BY <2>3, <2>4, <4>1
          <5>2. Work(call'[c]) \in Nat
            <6>1. call'[c] \in Call /\ Control(call'[c])
              BY <1>1 DEF AccInv, TypeOK, LocalsOK, Good
            <6> HIDE DEF WorkShrinks
            <6>2. Work(call'[c]) \in 0..Budget(call'[c])
              BY <6>1, WorkType
            <6> QED BY <6>2
          <5> QED BY <5>1, <5>2
        <4>2. CASE Abort(c)
          <5>1. Work(call'[c]) = 0
            BY <2>1, <4>2, EndsIdle DEF Abort
          <5> QED BY <2>3, <5>1
        <4> QED BY <2>5, <4>1, <4>2
      <3> QED BY <3>1, <3>2 DEF Others
    <2>6. CASE \E c \in Calls : Step(c) \/ Abort(c)
      BY <2>2, <2>4, <2>5, <2>6 DEF WorkShrinks
    <2>7. ASSUME NEW c \in Calls, NEW q, Begins(c, q)
          PROVE  WorkShrinks
      <3>1. \A d \in Others(c) : call'[d] = call[d]
        BY <2>1, <2>7, MovesTo DEF Begins
      <3>2. \A d \in Calls : At(d, "idle") \/ Work(call'[d]) <= Work(call[d])
        BY <2>3, <2>7, <3>1 DEF Begins, Others
      <3> QED BY <2>2, <2>4, <3>2 DEF WorkShrinks
    <2>8. CASE UNCHANGED vars
      <3>1. \A c \in Calls : Work(call'[c]) <= Work(call[c])
        BY <2>3, <2>8 DEF vars
      <3> QED BY <2>2, <2>4, <3>1 DEF WorkShrinks
    <2>9. ASSUME NEW c \in Calls, Request(c)
          PROVE  WorkShrinks
      <3>1. PICK q : At(c, "idle") /\ Moves(c, q)
        BY <2>9 DEF Request, Resolve
      <3>2. \A d \in Others(c) : call'[d] = call[d]
        BY <2>1, <3>1, MovesTo
      <3>3. \A d \in Calls : At(d, "idle") \/ Work(call'[d]) <= Work(call[d])
        BY <2>3, <3>1, <3>2 DEF Others
      <3> QED BY <2>2, <2>4, <3>3 DEF WorkShrinks
    <2> QED BY <1>1, <2>6, <2>7, <2>8, <2>9 DEF Next, UpdateSettings, PutProfile, AddProvider,
               DeleteProvider
  <1> QED BY <1>1, Invariance, PTL DEF Spec
=============================================================================
