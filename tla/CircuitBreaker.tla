--------------------------- MODULE CircuitBreaker ---------------------------
(***************************************************************************)
(* The endpoints table under its two kinds of writer.  Workers report      *)
(* delivery results in one UPDATE each, computed from the row.  HTTP       *)
(* handlers change an endpoint in two statements: UpdateEndpoint reads the *)
(* row, edits the copy and writes every mutable column back, the failure   *)
(* counter and the status among them; DeleteEndpoint reads to check the    *)
(* tenant and then deletes.  Nothing locks the row or compares versions    *)
(* between the two statements.                                             *)
(***************************************************************************)
EXTENDS EndpointHealth, FiniteSets

CONSTANTS
    Endpoints,
    Apps,
    Owner,         \* application_id of each endpoint
    Requests,      \* HTTP handlers that may run at the same time
    Limits,        \* values of rate_limit, which stands for every plain field
    DefaultLimit,  \* the one CreateEndpoint assigns
    Patches,       \* the bodies operators send: which fields they name
    MaxResults,    \* bound: delivery results reported
    MaxCalls       \* bound: HTTP requests begun

\* A body that leaves a field out: nil pointers in UpdateEndpointParams.
KeepStatus == "keep"
KeepLimit == 0

Patch == [status : EndpointStatus \cup {KeepStatus}, limit : Limits \cup {KeepLimit}]

ASSUME BreakerAssumption ==
    /\ Owner \in [Endpoints -> Apps]
    /\ DefaultLimit \in Limits
    /\ Patches \subseteq Patch
    /\ Limits \subseteq 1..1000
    /\ MaxResults \in Nat
    /\ MaxCalls \in Nat

VARIABLES
    row,       \* the endpoints table
    req,       \* what each handler has read and is about to do
    streak,    \* history: failures reported since the last success
    tripped,   \* history: the breaker has switched it off, and since then no
               \* operator has asked for active and no delivery has succeeded
    overwritten,  \* history: a body that names no status has replaced newer health
    results, calls    \* the bounds used up so far

history == <<streak, tripped, overwritten>>
bounds  == <<results, calls>>
vars    == <<row, req, history, bounds>>

Row == [life : {"absent", "live", "deleted"}, health : Health, limit : Limits]

Idle == [op |-> "idle"]

Request ==
    {Idle}
    \cup [op : {"update"}, endpoint : Endpoints, patch : Patch, read : Row]
    \cup [op : {"delete"}, endpoint : Endpoints]

-----------------------------------------------------------------------------
(* Operators                                                               *)

CreateEndpoint(e) ==
    /\ calls < MaxCalls
    /\ calls' = calls + 1
    /\ row[e].life = "absent"
    /\ row' = [row EXCEPT ![e] =
                 [life |-> "live", health |-> CleanSlate, limit |-> DefaultLimit]]
    /\ UNCHANGED <<req, history, results>>

\* GetByID and the tenant check: an endpoint of another application, or none,
\* is a 404 and ends the request.
GetEndpoint(app, e) == row[e].life = "live" /\ Owner[e] = app

UpdateRead(r, app, e, p) ==
    /\ calls < MaxCalls
    /\ calls' = calls + 1
    /\ req[r] = Idle
    /\ GetEndpoint(app, e)
    /\ req' = [req EXCEPT ![r] = [op |-> "update", endpoint |-> e,
                                  patch |-> p, read |-> row[e]]]
    /\ UNCHANGED <<row, history, results>>

\* Mutant: reactivation keeps the old count.
PatchedHealthNoReset(h, p) ==
    IF p.status = KeepStatus THEN h ELSE [h EXCEPT !.status = p.status]

\* Mutant: a body that names no status is taken for one that says active.
PatchedHealthDefaultsToActive(h, p) ==
    IF p.status = "inactive" THEN [h EXCEPT !.status = "inactive"] ELSE CleanSlate

\* Reactivation gives the endpoint a clean slate; every other body keeps the
\* counter it read, and the status if it names none.
PatchedHealth(h, p) ==
    CASE p.status = KeepStatus -> h
      [] p.status = "active"   -> CleanSlate
      [] p.status = "inactive" -> [h EXCEPT !.status = "inactive"]

\* UPDATE endpoints SET <every mutable column> WHERE id: 404 if it is gone.
UpdateWrite(r) ==
    /\ req[r].op = "update"
    /\ LET e == req[r].endpoint
           p == req[r].patch
       IN  /\ row' = IF row[e].life # "live" THEN row
                     ELSE [row EXCEPT
                             ![e].health = PatchedHealth(req[r].read.health, p),
                             ![e].limit = IF p.limit = KeepLimit
                                          THEN req[r].read.limit ELSE p.limit]
           /\ tripped' = IF p.status = "active"
                         THEN [tripped EXCEPT ![e] = FALSE] ELSE tripped
           /\ overwritten' =
                [overwritten EXCEPT
                   ![e] = /\ p.status # "active"
                          /\ \/ @
                             \/ /\ p.status = KeepStatus
                                /\ row[e].health # req[r].read.health]
    /\ req' = [req EXCEPT ![r] = Idle]
    /\ UNCHANGED <<streak, bounds>>

DeleteRead(r, app, e) ==
    /\ calls < MaxCalls
    /\ calls' = calls + 1
    /\ req[r] = Idle
    /\ GetEndpoint(app, e)
    /\ req' = [req EXCEPT ![r] = [op |-> "delete", endpoint |-> e]]
    /\ UNCHANGED <<row, history, results>>

DeleteWrite(r) ==
    /\ req[r].op = "delete"
    /\ row' = [row EXCEPT ![req[r].endpoint].life = "deleted"]
    /\ req' = [req EXCEPT ![r] = Idle]
    /\ UNCHANGED <<history, bounds>>

\* A body that does not validate, a statement that fails or a client that goes
\* away ends the request between its two statements.
Abandon(r) ==
    /\ req[r] # Idle
    /\ req' = [req EXCEPT ![r] = Idle]
    /\ UNCHANGED <<row, history, bounds>>

Operator ==
    \/ \E e \in Endpoints : CreateEndpoint(e)
    \/ \E r \in Requests, app \in Apps, e \in Endpoints :
         \/ \E p \in Patches : UpdateRead(r, app, e, p)
         \/ DeleteRead(r, app, e)
    \/ \E r \in Requests : UpdateWrite(r) \/ DeleteWrite(r) \/ Abandon(r)

-----------------------------------------------------------------------------
(* Workers                                                                 *)

\* A worker reports a delivery.  No row answers to the id of a deleted endpoint,
\* and that is not an error.
Report(e, success) ==
    /\ results < MaxResults
    /\ results' = results + 1
    /\ row[e].life # "absent"
    /\ LET before == row[e].health
           after  == RecordDeliveryResult(before, success)
       IN  /\ row' = IF row[e].life = "live"
                     THEN [row EXCEPT ![e].health = after] ELSE row
           /\ tripped' = [tripped EXCEPT
                            ![e] = /\ ~success
                                   /\ \/ @
                                      \/ /\ row[e].life = "live"
                                         /\ before.status = "active"
                                         /\ after.status = "inactive"]
    /\ streak' = [streak EXCEPT ![e] = IF success THEN 0 ELSE @ + 1]
    /\ UNCHANGED <<req, overwritten, calls>>

-----------------------------------------------------------------------------
Init ==
    /\ row = [e \in Endpoints |->
                [life |-> "absent", health |-> CleanSlate, limit |-> DefaultLimit]]
    /\ req = [r \in Requests |-> Idle]
    /\ streak = [e \in Endpoints |-> 0]
    /\ tripped = [e \in Endpoints |-> FALSE]
    /\ overwritten = [e \in Endpoints |-> FALSE]
    /\ results = 0
    /\ calls = 0

Next ==
    \/ Operator
    \/ \E e \in Endpoints, success \in BOOLEAN : Report(e, success)

Spec == Init /\ [][Next]_vars

-----------------------------------------------------------------------------
(* Properties                                                              *)

TypeOK ==
    /\ row \in [Endpoints -> Row]
    /\ req \in [Requests -> Request]
    /\ streak \in [Endpoints -> 0..MaxResults]
    /\ tripped \in [Endpoints -> BOOLEAN]
    /\ overwritten \in [Endpoints -> BOOLEAN]
    /\ results \in 0..MaxResults
    /\ calls \in 0..MaxCalls

\* The breaker's promise survives the lost updates: whatever stale copy a
\* handler writes over newer results, no endpoint is active with its failures
\* used up (endpoint_repo.go Update and RecordDeliveryResult).
RowsConsistent == \A e \in Endpoints : Consistent(row[e].health)

\* An endpoint the breaker has switched off stays off at least until an operator
\* asks for status active or a delivery to it succeeds again (README, "trips the
\* circuit breaker if the threshold is crossed").
TrippedStaysOff ==
    \A e \in Endpoints : tripped[e] => row[e].health.status = "inactive"

\* What the code does keep: only a lost update undoes a trip behind everybody's
\* back.  As long as no body that names no status has replaced health newer than
\* the copy it read, a tripped endpoint is off until somebody has asked for it or
\* it has answered again, whatever other bodies, deletions and failures run in
\* between.  Whether an answer ought to switch it on (README, "re-enables it
\* automatically once it starts responding again") is left open here.
OnlyLostUpdatesUndoATrip ==
    \A e \in Endpoints :
        tripped[e] /\ ~overwritten[e] => row[e].health.status = "inactive"

\* The breaker never counts more failures than were reported in a row since the
\* last success, so it takes MaxFailures consecutive ones to switch an active
\* endpoint off (README, CIRCUIT_BREAKER_MAX_FAILURES); again a lost update is
\* the only exception.
CountsConsecutive ==
    \A e \in Endpoints :
        /\ row[e].life = "live" /\ row[e].health.status = "active"
        /\ ~overwritten[e]
        => row[e].health.failures <= streak[e]
=============================================================================
