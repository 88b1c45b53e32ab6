--------------------------- MODULE CircuitBreaker ---------------------------
(***************************************************************************)
(* What the rows of rate_limit_state promise to everyone who reads them,   *)
(* whichever requests produce them: the circuit breaker of the router's    *)
(* design (D16).  A router call moves the rows of its transaction, and a   *)
(* transaction of one call or several (an extraction's) publishes them.    *)
(* LlmRouter implements this specification.                                *)
(***************************************************************************)
EXTENDS Integers

CONSTANTS Names, TripThreshold

VARIABLES
    clock,
    breaker,  \* the rows as committed
    own       \* the rows as the calls of the transactions under way have left them

Null == -1
NoRow == [state |-> "NONE", count |-> 0, cooldown |-> Null]
ClosedRow == [state |-> "CLOSED", count |-> 0, cooldown |-> Null]

Init ==
    /\ clock = 0
    /\ breaker = [p \in Names |-> NoRow]
    /\ own = [p \in Names |-> NoRow]

\* Failures short of the threshold: the breaker is, or stays, closed.
Counts(old, new) ==
    /\ old.state \in {"NONE", "CLOSED"} /\ new.state = "CLOSED"
    /\ old.count <= new.count /\ new.count < TripThreshold
    /\ new.cooldown = Null

\* A 429, or a failure at the threshold: the breaker opens and says until when.
Trips(old, new) ==
    /\ old.state \in {"NONE", "CLOSED"} /\ new.state = "OPEN"
    /\ old.count <= new.count
    /\ new.cooldown # Null

\* The one trial that an expired cooldown allows: the breaker closes and forgets, opens
\* again, or waits half-open for the next trial.
Probes(old, new) ==
    /\ old.state \in {"OPEN", "HALF_OPEN"} /\ old.cooldown <= clock
    /\ \/ new = ClosedRow
       \/ /\ new.state \in {"OPEN", "HALF_OPEN"}
          /\ old.count <= new.count
          /\ new.cooldown # Null

\* A request admitted before the breaker opened fails late.
CountsLate(old, new) ==
    /\ old.state = "HALF_OPEN" /\ old.count <= new.count
    /\ new = [old EXCEPT !.count = new.count]

Moves(old, new) ==
    new = old \/ Counts(old, new) \/ Trips(old, new) \/ Probes(old, new) \/ CountsLate(old, new)

\* A call ends inside its transaction: it may have touched several providers.
EndCall ==
    /\ DOMAIN own' = Names
    /\ \A p \in Names : Moves(own[p], own'[p])
    /\ UNCHANGED <<clock, breaker>>

\* A transaction commits what its calls have made of the rows it holds ...
Commit ==
    /\ \E held \in SUBSET Names :
          breaker' = [p \in Names |-> IF p \in held THEN own[p] ELSE breaker[p]]
    /\ UNCHANGED <<clock, own>>

\* ... or rolls it back.
Rollback ==
    /\ \E held \in SUBSET Names :
          own' = [p \in Names |-> IF p \in held THEN breaker[p] ELSE own[p]]
    /\ UNCHANGED <<clock, breaker>>

Tick == clock' = clock + 1 /\ UNCHANGED <<breaker, own>>

Next == Tick \/ EndCall \/ Commit \/ Rollback

Spec == Init /\ [][Next]_<<clock, breaker, own>>
============================================================================
