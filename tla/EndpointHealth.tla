--------------------------- MODULE EndpointHealth ---------------------------
(***************************************************************************)
(* The health columns of one row of the endpoints table, and the statement *)
(* that moves them after a delivery.  The table itself belongs to the      *)
(* modules that use these operators: CircuitBreaker, where operators race  *)
(* with deliveries, and DeliveryEngine, where the breaker decides which    *)
(* deliveries may be claimed.                                              *)
(***************************************************************************)
EXTENDS Integers

CONSTANT MaxFailures      \* CIRCUIT_BREAKER_MAX_FAILURES

\* Config.Validate rejects a threshold that is not positive.
ASSUME MaxFailuresAssumption == MaxFailures \in Nat \ {0}

EndpointStatus == {"active", "inactive"}

Health == [status : EndpointStatus, failures : 0..MaxFailures]

\* A new endpoint, and one an operator has just re-activated.
CleanSlate == [status |-> "active", failures |-> 0]

\* Mutant: a success forgets to end the streak.
ResetStreakForgotten(h) == h

\* A delivery succeeded: the streak ends, whatever the status of the row.
ResetStreak(h) == [h EXCEPT !.failures = 0]

\* Mutant: trips one failure too late.
CountFailureOffByOne(h) ==
    IF h.status # "active" THEN h
    ELSE [status   |-> IF h.failures >= MaxFailures
                       THEN "inactive" ELSE h.status,
          failures |-> h.failures + 1]

\* A delivery failed: only an active row counts it, and the count that reaches
\* the threshold switches the row off in the same statement.
CountFailure(h) ==
    IF h.status # "active" THEN h
    ELSE [status   |-> IF h.failures + 1 >= MaxFailures
                       THEN "inactive" ELSE h.status,
          failures |-> h.failures + 1]

RecordDeliveryResult(h, success) ==
    IF success THEN ResetStreak(h) ELSE CountFailure(h)

\* What the breaker promises of every row: an endpoint that is still active has
\* not used up its failures.
Consistent(h) == h.status = "active" => h.failures < MaxFailures
=============================================================================
