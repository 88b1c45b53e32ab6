---------------------------- MODULE AccountData ----------------------------
(***************************************************************************)
(* What the owner of an account edits, and the requests that use it while  *)
(* it is edited: SettingsService (auth/settings_service.py),               *)
(* UserProfileService (auth/user_profile_service.py), LlmProviderService   *)
(* (llm/service.py), and the provider rows of route_llm_request.           *)
(*                                                                         *)
(* One user is modelled, and in full one provider name, the name here; of  *)
(* the other names a request comes to, the breakers' rows it locks.  A     *)
(* call is one PostgreSQL transaction (READ COMMITTED): what it wrote is   *)
(* seen by others when it commits, and a row it wrote stays locked until   *)
(* then.  test_provider writes nothing and locks nothing.                  *)
(***************************************************************************)
EXTENDS Naturals, Sequences, FiniteSets

CONSTANTS
    Calls,       \* concurrent calls of the services
    Extractions, \* the calls whose requests extract_job makes
    NoCall,      \* "nobody has this row locked"
    Keys,        \* settings keys
    Orders,      \* the orders in which a client may name keys to update
    Ids, NoId,   \* provider ids, reused when nothing shows one any more
    Elsewhere,   \* the breakers' rows of the other names
    Chains,      \* the chains a request may resolve, as the breakers' rows of their names
    MaxNames,    \* bound: the names a call comes to in all its requests
    MaxTurns     \* bound: the requests an extraction makes in its transaction

ASSUME SentinelAssumption == Extractions \subseteq Calls /\ NoCall \notin Calls /\ NoId \notin Ids
ASSUME RowAssumption ==
    /\ Keys \cap Ids = {} /\ Elsewhere \cap (Keys \cup Ids) = {}
    /\ {"profile", "breaker"} \cap (Keys \cup Ids \cup Elsewhere) = {}
ASSUME OrderAssumption == Orders \subseteq Seq(Keys) \ {<<>>}
ASSUME ChainAssumption ==
    Chains \subseteq Seq({"breaker"} \cup Elsewhere) /\ <<>> \in Chains /\ MaxNames \in Nat
ASSUME TurnAssumption == MaxTurns \in Nat \ {0}

VARIABLES
    profile,   \* how many rows of user_profiles the user has, as committed
    provider,  \* llm_providers, as committed
    breaker,   \* whether rate_limit_state has a row for the name, as committed
    lock,      \* the call that has written a row and not ended
    call,      \* the locals of every call
    raced      \* history: the races that explain what is stored now

vars == <<profile, provider, breaker, lock, call, raced>>
stored == <<profile, provider, breaker, raced>>

Breakers == {"breaker"} \cup Elsewhere
Rows == Keys \cup {"profile"} \cup Breakers \cup Ids

PCs == {"idle", "upsert", "probe", "put", "count", "insert", "dropBreaker", "dropRow",
        "walk", "call", "failure", "usage", "commit"}

Ops == {"none", "settings", "profile", "add", "delete", "request"}

\* order and left: the rows named, keys to upsert or breakers of chains, and those
\* still to come; exists: whether a row was found when the call looked; draft: what
\* it did to the breaker's row of the name; used: the providers it has usage rows
\* of, each a share lock on its row; turns: the requests it made.
Call == [op : Ops, pc : PCs, order : Seq(Keys \cup Breakers), left : Seq(Keys \cup Breakers),
         exists : BOOLEAN, id : Ids \cup {NoId}, draft : {"none", "row", "gone"},
         used : SUBSET Ids, turns : 0..MaxTurns]
Blank == [op |-> "none", pc |-> "idle", order |-> <<>>, left |-> <<>>, exists |-> FALSE,
          id |-> NoId, draft |-> "none", used |-> {}, turns |-> 0]

TypeOK ==
    /\ profile \in Nat
    /\ provider \in SUBSET Ids /\ breaker \in BOOLEAN
    /\ lock \in [Rows -> Calls \cup {NoCall}]
    /\ call \in [Calls -> Call]
    /\ raced \in SUBSET {"add", "delete"}

Init ==
    /\ profile = 0
    /\ provider = {} /\ breaker = FALSE
    /\ lock = [r \in Rows |-> NoCall]
    /\ call = [c \in Calls |-> Blank]
    /\ raced = {}

At(c, pc) == call[c].pc = pc
Moves(c, locals) == call' = [call EXCEPT ![c] = locals]
Goes(c, pc) == Moves(c, [call[c] EXCEPT !.pc = pc])
Begins(c, locals) == At(c, "idle") /\ Moves(c, locals) /\ UNCHANGED <<stored, lock>>
Others(c) == Calls \ {c}

Free(c, r) == lock[r] \in {c, NoCall}
Locks(c, r) == Free(c, r) /\ lock' = [lock EXCEPT ![r] = c]

\* The transaction is over: its row locks are gone.
Ends(c) ==
    /\ lock' = [r \in Rows |-> IF lock[r] = c THEN NoCall ELSE lock[r]]
    /\ Moves(c, Blank)

\* Mutant: what raised leaves its transaction open.
RaisesOpen(c) == Moves(c, Blank) /\ UNCHANGED <<stored, lock>>

\* Anything raised, and the transaction rolls back; or it has written nothing.
Raises(c) == Ends(c) /\ UNCHANGED stored
-----------------------------------------------------------------------------
(***************************************************************************)
(* SettingsService.update: one upsert a key, in the client's order.  It    *)
(* replaces whole values, so what matters of it is what it locks.          *)
(***************************************************************************)
UpdateSettings(c, order) ==
    Begins(c, [Blank EXCEPT !.op = "settings", !.pc = "upsert", !.order = order, !.left = order])

Upsert(c) ==
    /\ At(c, "upsert")
    /\ Locks(c, Head(call[c].left))
    /\ Moves(c, [call[c] EXCEPT !.left = Tail(@),
                                !.pc = IF Len(call[c].left) = 1 THEN "commit" ELSE @])
    /\ UNCHANGED stored

(***************************************************************************)
(* UserProfileService.update: a look, then an INSERT or an UPDATE.  The    *)
(* INSERT waits for another's, and raises when that one commits; an UPDATE *)
(* of no field is no SQL, so a PUT without fields raises on a second call. *)
(***************************************************************************)
PutProfile(c) == Begins(c, [Blank EXCEPT !.op = "profile", !.pc = "probe"])

ProbeProfile(c) ==
    /\ At(c, "probe")
    /\ Moves(c, [call[c] EXCEPT !.pc = "put", !.exists = profile > 0])
    /\ UNCHANGED <<stored, lock>>

\* Mutant: an index on user_id that is not unique.
PutTwice(c) ==
    /\ At(c, "put")
    /\ Locks(c, "profile") /\ Goes(c, "commit") /\ UNCHANGED stored

Put(c) ==
    /\ At(c, "put")
    /\ \/ /\ call[c].exists \/ profile = 0
          /\ Locks(c, "profile") /\ Goes(c, "commit") /\ UNCHANGED stored
       \/ call[c].exists /\ Raises(c)
       \/ ~call[c].exists /\ profile > 0 /\ Free(c, "profile") /\ Raises(c)

(***************************************************************************)
(* LlmProviderService.add_provider: a count, then an INSERT.  No index     *)
(* makes a name unique (count_providers_by_name).                          *)
(***************************************************************************)
AddProvider(c) == Begins(c, [Blank EXCEPT !.op = "add", !.pc = "count"])

\* Mutant: the count is not looked at.
CountIgnored(c) == At(c, "count") /\ Goes(c, "insert") /\ UNCHANGED <<stored, lock>>

Count(c) ==
    /\ At(c, "count")
    /\ IF provider # {} THEN Raises(c) ELSE Goes(c, "insert") /\ UNCHANGED <<stored, lock>>

InsertProvider(c) ==
    /\ At(c, "insert")
    /\ LET unused == {id \in Ids \ provider : \A d \in Calls : call[d].id # id /\ id \notin call[d].used} IN
       /\ unused # {}
       /\ Moves(c, [call[c] EXCEPT !.pc = "commit", !.id = CHOOSE id \in unused : TRUE])
    /\ UNCHANGED <<stored, lock>>

(***************************************************************************)
(* LlmProviderService.delete_provider: the breaker's row of the name, then *)
(* the provider's, whose DELETE waits for every uncommitted usage row of   *)
(* it.  Rows another call deleted or has not committed are not seen, and   *)
(* nothing looks at the number of rows deleted.  The repository looks for  *)
(* the provider once more, and deletes nothing when it is gone.            *)
(***************************************************************************)
DeleteProvider(c, id) ==
    /\ id \in provider
    /\ Begins(c, [Blank EXCEPT !.op = "delete", !.pc = "dropBreaker", !.id = id])

\* Mutant: the breaker's row is left to the next delete.
DropNoBreaker(c) ==
    At(c, "dropBreaker") /\ Goes(c, "dropRow") /\ UNCHANGED <<stored, lock>>

DropBreaker(c) ==
    /\ At(c, "dropBreaker")
    /\ \/ /\ breaker /\ Locks(c, "breaker") /\ UNCHANGED stored
          /\ Moves(c, [call[c] EXCEPT !.pc = "dropRow", !.draft = "gone"])
       \/ ~breaker /\ Goes(c, "dropRow") /\ UNCHANGED <<stored, lock>>
       \/ call[c].id \notin provider /\ Raises(c)

\* Mutant: a usage row without its foreign key.
DropRowUsed(c) ==
    /\ At(c, "dropRow")
    /\ Locks(c, call[c].id) /\ Goes(c, "commit") /\ UNCHANGED stored

DropRow(c) ==
    /\ At(c, "dropRow")
    /\ \A d \in Others(c) : call[c].id \notin call[d].used
    /\ Locks(c, call[c].id) /\ Goes(c, "commit") /\ UNCHANGED stored
-----------------------------------------------------------------------------
(***************************************************************************)
(* route_llm_request, as far as these rows go; LlmRouter has the breaker's *)
(* states.  It walks a chain of names in one transaction.  Alone that is   *)
(* its own; extract_job has several requests in its own, one after the     *)
(* other, and keeps what they locked.  A request that raises there is      *)
(* undone to its savepoint and the extraction goes on, as it does from a   *)
(* request that resolved no provider.                                      *)
(***************************************************************************)
\* _resolve_chain: settings, or the caller, order the names that have providers,
\* and may repeat one; of a name's providers it takes the one of the best priority,
\* and nothing changes a priority.
Names(chain, row) == \E i \in DOMAIN chain : chain[i] = row
Best == CHOOSE id \in provider : TRUE

Resolve(c, locals) ==
    \E chain \in Chains :
        /\ Len(locals.order) + Len(chain) <= MaxNames
        /\ Names(chain, "breaker") => provider # {}
        /\ Moves(c, [locals EXCEPT !.pc = "walk", !.order = @ \o chain, !.left = chain,
                                   !.id = IF Names(chain, "breaker") THEN Best ELSE NoId])

Request(c) ==
    /\ At(c, "idle")
    /\ Resolve(c, [Blank EXCEPT !.op = "request", !.turns = 1])
    /\ UNCHANGED <<stored, lock>>

Seen(c) == breaker \/ call[c].draft = "row"
Turn(c, row) == At(c, "walk") /\ call[c].left # <<>> /\ Head(call[c].left) = row
Rest(c) == Tail(call[c].left)

\* _handle_breakers: an open breaker is skipped, or its row claimed.
Gate(c) ==
    /\ Turn(c, "breaker")
    /\ \/ Moves(c, [call[c] EXCEPT !.pc = "call", !.left = Rest(c)]) /\ UNCHANGED lock
       \/ Seen(c) /\ Moves(c, [call[c] EXCEPT !.left = Rest(c)]) /\ UNCHANGED lock
       \/ Seen(c) /\ Moves(c, [call[c] EXCEPT !.pc = "call", !.left = Rest(c)]) /\ Locks(c, "breaker")
    /\ UNCHANGED stored

\* The turn of another name that writes its breaker's row; one that does not is
\* left out of the chain, as is what an answer leaves of it.
Detour(c) ==
    /\ \E row \in Elsewhere : Turn(c, row) /\ Locks(c, row)
    /\ Moves(c, [call[c] EXCEPT !.left = Rest(c)])
    /\ UNCHANGED stored

\* Mutant: usage is recorded before the breaker's row is written.
UsageFirst(c) ==
    /\ At(c, "call")
    /\ Free(c, call[c].id) /\ call[c].id \in provider
    /\ \E pc \in {"failure", "walk"} :
          Moves(c, [call[c] EXCEPT !.pc = pc, !.exists = Seen(c), !.used = @ \cup {call[c].id}])
    /\ UNCHANGED <<stored, lock>>

\* The provider answers, which ends the walk, or is unavailable, or fails;
\* _handle_count_failure looks for the row, the branch for a 429 does not.
Chat(c) ==
    /\ At(c, "call")
    /\ \/ \E left \in {call[c].left, <<>>} : Moves(c, [call[c] EXCEPT !.pc = "usage", !.left = left])
       \/ \E exists \in {FALSE, Seen(c)} :
             Moves(c, [call[c] EXCEPT !.pc = "failure", !.exists = exists])
    /\ UNCHANGED <<stored, lock>>

\* ensure_breaker if no row was seen, and the UPDATE that counts or trips.  An
\* UPDATE of a row that is gone, or not committed yet, changes nothing.
Failure(c) ==
    /\ At(c, "failure")
    /\ Moves(c, [call[c] EXCEPT !.pc = "usage", !.exists = FALSE,
                                !.draft = IF call[c].exists \/ breaker THEN @ ELSE "row"])
    /\ IF call[c].exists /\ ~Seen(c) THEN UNCHANGED lock ELSE Locks(c, "breaker")
    /\ UNCHANGED stored

\* insert_usage: the foreign key waits for a DELETE of the provider, and raises
\* when there is none any more.
Usage(c) ==
    /\ At(c, "usage")
    /\ Free(c, call[c].id)
    /\ IF call[c].id \notin provider THEN Raises(c)
       ELSE /\ Moves(c, [call[c] EXCEPT !.pc = "walk", !.used = @ \cup {call[c].id}])
            /\ UNCHANGED <<stored, lock>>

\* Mutant: the calls of an extraction are not counted.
MoreUncounted(c) ==
    /\ At(c, "walk") /\ call[c].left = <<>>
    /\ \/ Moves(c, [call[c] EXCEPT !.pc = "commit", !.id = NoId, !.order = <<>>])
       \/ Resolve(c, [call[c] EXCEPT !.turns = @ + 1])
    /\ UNCHANGED <<stored, lock>>

\* One has answered, or no name is left: the request ends, and what called it
\* commits, naming no more rows, or makes another, as extract_job does.
More(c) ==
    /\ At(c, "walk") /\ call[c].left = <<>>
    /\ \/ Moves(c, [call[c] EXCEPT !.pc = "commit", !.id = NoId, !.order = <<>>])
       \/ /\ c \in Extractions /\ call[c].turns < MaxTurns
          /\ Resolve(c, [call[c] EXCEPT !.turns = @ + 1])
    /\ UNCHANGED <<stored, lock>>
-----------------------------------------------------------------------------
(***************************************************************************)
(* What a transaction wrote is committed as a whole.  Two races leave a    *)
(* trace that only their names explain: an add that commits while another  *)
(* has counted, until one row is left and nobody has; and a request that   *)
(* commits a breaker's row while a delete is past it, until one deletes    *)
(* that row.                                                               *)
(***************************************************************************)
CommitProfile(c) ==
    /\ profile' = IF call[c].exists THEN profile ELSE profile + 1
    /\ UNCHANGED <<provider, breaker, raced>>

CommitAdd(c) ==
    LET counted == \E d \in Others(c) : call[d].op = "add" /\ call[d].pc # "count" IN
    /\ provider' = provider \cup {call[c].id}
    /\ raced' = raced \cup (IF counted THEN {"add"} ELSE {})
    /\ UNCHANGED <<profile, breaker>>

CommitDelete(c) ==
    LET counted == \E d \in Calls : call[d].op = "add" /\ call[d].pc # "count" IN
    /\ provider' = provider \ {call[c].id}
    /\ breaker' = (breaker /\ call[c].draft # "gone")
    /\ raced' = raced \ ((IF Cardinality(provider') <= 1 /\ ~counted THEN {"add"} ELSE {})
                         \cup (IF call[c].draft = "gone" THEN {"delete"} ELSE {}))
    /\ UNCHANGED <<profile>>

CommitRequest(c) ==
    LET passed == call[c].draft = "row" /\ \E d \in Others(c) : At(d, "dropRow") IN
    /\ breaker' = (breaker \/ call[c].draft = "row")
    /\ raced' = raced \cup (IF passed THEN {"delete"} ELSE {})
    /\ UNCHANGED <<profile, provider>>

Commit(c) ==
    /\ At(c, "commit")
    /\ Ends(c)
    /\ \/ call[c].op = "settings" /\ UNCHANGED stored
       \/ call[c].op = "profile" /\ CommitProfile(c)
       \/ call[c].op = "add" /\ CommitAdd(c)
       \/ call[c].op = "delete" /\ CommitDelete(c)
       \/ call[c].op = "request" /\ CommitRequest(c)

(***************************************************************************)
(* The calls c may be waiting for; PostgreSQL ends one of a set of calls   *)
(* that wait for each other.                                               *)
(***************************************************************************)
Wanted(c) ==
    CASE At(c, "upsert") -> {Head(call[c].left)}
      [] At(c, "put") -> {"profile"}
      [] At(c, "dropRow") \/ At(c, "usage") -> {call[c].id}
      [] At(c, "dropBreaker") /\ breaker -> {"breaker"}
      [] \E row \in Elsewhere : Turn(c, row) -> {Head(call[c].left)}
      [] Turn(c, "breaker") /\ Seen(c) -> {"breaker"}
      [] At(c, "failure") /\ (Seen(c) \/ ~call[c].exists) -> {"breaker"}
      [] OTHER -> {}

Awaits(c) == {d \in Others(c) :
                 \/ \E r \in Wanted(c) : lock[r] = d
                 \/ At(c, "dropRow") /\ call[c].id \in call[d].used}

Circle(set) == set # {} /\ \A c \in set : Awaits(c) \cap set # {}

Victim(c) == (\E set \in SUBSET Calls : c \in set /\ Circle(set)) /\ Raises(c)

\* The death of the server, or a connection lost.
Abort(c) == ~At(c, "idle") /\ Raises(c)

Step(c) ==
    \/ Upsert(c) \/ ProbeProfile(c) \/ Put(c) \/ Count(c) \/ InsertProvider(c)
    \/ DropBreaker(c) \/ DropRow(c) \/ Gate(c) \/ Detour(c) \/ Chat(c)
    \/ Failure(c) \/ Usage(c) \/ More(c) \/ Commit(c) \/ Victim(c)

Next == \E c \in Calls :
    \/ \E order \in Orders : UpdateSettings(c, order)
    \/ PutProfile(c) \/ AddProvider(c) \/ (\E id \in Ids : DeleteProvider(c, id)) \/ Request(c)
    \/ Step(c) \/ Abort(c)

Spec == Init /\ [][Next]_vars

\* A call that waits for a row is the next to get it: PostgreSQL queues them.
FairSpec == Spec /\ \A c \in Calls : SF_vars(Step(c))
-----------------------------------------------------------------------------
(***************************************************************************)
(* delete_provider deletes "a provider and its rate_limit_state rows       *)
(* atomically" (llm_router_repository.py): with no provider left there is  *)
(* no breaker either, but for the one race that gets a row past it, a      *)
(* request that commits the name's first row while the delete waits.       *)
(***************************************************************************)
OrphanOnlyByRace == breaker /\ provider = {} => "delete" \in raced

(***************************************************************************)
(* A name has one provider (ProviderDuplicateError), but for two adds that *)
(* counted before either committed: no index says so.                      *)
(***************************************************************************)
UniqueUnlessRaced == Cardinality(provider) > 1 => "add" \in raced

(***************************************************************************)
(* Of all the PUTs that race to be the first, one creates the profile:     *)
(* what their look missed, the index on user_id stops.                     *)
(***************************************************************************)
ProfileCreatedOnce == profile <= 1

(***************************************************************************)
(* A provider cannot be deleted under a request that has recorded its use  *)
(* and not committed: the row and what refers to it go together.           *)
(***************************************************************************)
RecordedProviderStays == \A c \in Calls : call[c].used \subseteq provider

(***************************************************************************)
(* Two calls wait for each other in two ways only.  They name rows in      *)
(* crossed orders: updates do with keys, requests with the names of their  *)
(* chains, an extraction with those of all its requests.  Or one is a      *)
(* delete, and the other comes to the name again after recording a use, in *)
(* an extraction or by a chain that repeats it.  A request that comes to   *)
(* it once never deadlocks with a delete: it writes the breaker before the *)
(* usage, in the order of delete_provider.                                 *)
(***************************************************************************)
Before(k, l, order) == \E i, j \in DOMAIN order : i < j /\ order[i] = k /\ order[j] = l

Crossed(c, d) == \E k, l \in Keys \cup Breakers :
    k # l /\ Before(k, l, call[c].order) /\ Before(l, k, call[d].order)

Returns(c) == Before("breaker", "breaker", call[c].order)

DeadlocksKnown == \A c, d \in Calls :
    c # d /\ Circle({c, d}) =>
        \/ Crossed(c, d)
        \/ \E x, y \in {c, d} : call[x].op = "delete" /\ Returns(y)

(***************************************************************************)
(* Every call ends, those that were waiting for each other included.       *)
(***************************************************************************)
CallEnds == \A c \in Calls : []<>At(c, "idle")
=============================================================================
