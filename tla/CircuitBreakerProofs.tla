------------------------ MODULE CircuitBreakerProofs ------------------------
(***************************************************************************)
(* Theorems about CircuitBreaker, for any number of endpoints, handlers    *)
(* and delivery results.                                                   *)
(***************************************************************************)
EXTENDS CircuitBreaker, TLAPS

\* The rows alone are not inductive: a handler may write back a copy it read
\* long ago.  The copies have to be consistent too.
CopiesConsistent ==
    \A r \in Requests :
        req[r].op = "update" => Consistent(req[r].read.health)

\* No streak is longer than the results reported so far.
StreakBounded == \A e \in Endpoints : streak[e] <= results

Inv == TypeOK /\ RowsConsistent /\ CopiesConsistent /\ StreakBounded

\* The breaker trips only what exists.
NewIsUntripped == \A e \in Endpoints : row[e].life = "absent" => ~tripped[e]

Honest == OnlyLostUpdatesUndoATrip /\ CountsConsecutive /\ NewIsUntripped

\* A new endpoint is consistent.
LEMMA CleanSlateConsistent == CleanSlate \in Health /\ Consistent(CleanSlate)
BY MaxFailuresAssumption DEF CleanSlate, Health, EndpointStatus, Consistent

\* One delivery result keeps a consistent row consistent.
LEMMA ReportConsistent ==
    ASSUME NEW h \in Health, Consistent(h), NEW success \in BOOLEAN
    PROVE  /\ RecordDeliveryResult(h, success) \in Health
           /\ Consistent(RecordDeliveryResult(h, success))
BY MaxFailuresAssumption
DEF Health, EndpointStatus, Consistent, RecordDeliveryResult, ResetStreak, CountFailure

\* So does any body applied to a consistent copy.
LEMMA PatchConsistent ==
    ASSUME NEW h \in Health, Consistent(h), NEW p \in Patch
    PROVE  /\ PatchedHealth(h, p) \in Health
           /\ Consistent(PatchedHealth(h, p))
<1>1. p.status \in {KeepStatus, "active", "inactive"}
  BY DEF Patch, EndpointStatus
<1>2. CASE p.status = KeepStatus
  BY <1>2 DEF PatchedHealth, KeepStatus
<1>3. CASE p.status = "active"
  BY <1>3, CleanSlateConsistent DEF PatchedHealth, KeepStatus
<1>4. CASE p.status = "inactive"
  BY <1>4 DEF PatchedHealth, KeepStatus, Health, EndpointStatus, Consistent
<1> QED
  BY <1>1, <1>2, <1>3, <1>4

LEMMA InvInit == Init => Inv
BY CleanSlateConsistent, BreakerAssumption
DEF Init, Inv, TypeOK, RowsConsistent, CopiesConsistent, StreakBounded, Row, Request, Idle

LEMMA CreateInv ==
    ASSUME Inv, NEW e \in Endpoints, CreateEndpoint(e)
    PROVE  Inv'
<1>1. [life |-> "live", health |-> CleanSlate, limit |-> DefaultLimit] \in Row
  BY CleanSlateConsistent, BreakerAssumption DEF Row
<1>2. calls' \in 0..MaxCalls
  BY BreakerAssumption DEF Inv, TypeOK, CreateEndpoint
<1> QED
  BY <1>1, <1>2, CleanSlateConsistent
  DEF Inv, TypeOK, RowsConsistent, CopiesConsistent, StreakBounded, CreateEndpoint, history

LEMMA ReadInv ==
    ASSUME Inv, NEW r \in Requests, NEW app \in Apps, NEW e \in Endpoints,
           \/ \E p \in Patches : UpdateRead(r, app, e, p)
           \/ DeleteRead(r, app, e)
    PROVE  Inv'
<1>1. calls' \in 0..MaxCalls
  BY BreakerAssumption DEF Inv, TypeOK, UpdateRead, DeleteRead
<1>2. CASE \E p \in Patches : UpdateRead(r, app, e, p)
  <2>1. PICK p \in Patches : UpdateRead(r, app, e, p)
    BY <1>2
  <2> DEFINE q == [op |-> "update", endpoint |-> e, patch |-> p, read |-> row[e]]
  <2>2. q \in Request /\ Consistent(q.read.health)
    BY BreakerAssumption DEF Request, Inv, TypeOK, RowsConsistent
  <2>3. req' = [req EXCEPT ![r] = q]
    BY <2>1 DEF UpdateRead
  <2> HIDE DEF q
  <2> QED
    BY <1>1, <2>1, <2>2, <2>3
    DEF Inv, TypeOK, RowsConsistent, CopiesConsistent, StreakBounded, UpdateRead, history
<1>3. CASE DeleteRead(r, app, e)
  <2> DEFINE q == [op |-> "delete", endpoint |-> e]
  <2>1. q \in Request /\ q.op # "update"
    BY DEF Request
  <2>2. req' = [req EXCEPT ![r] = q]
    BY <1>3 DEF DeleteRead
  <2> HIDE DEF q
  <2> QED
    BY <1>1, <1>3, <2>1, <2>2
    DEF Inv, TypeOK, RowsConsistent, CopiesConsistent, StreakBounded, DeleteRead, history
<1> QED
  BY <1>2, <1>3

\* The write of an update: the copy is consistent, so what replaces the row is.
LEMMA UpdateWriteInv ==
    ASSUME Inv, NEW r \in Requests, UpdateWrite(r)
    PROVE  Inv'
<1> DEFINE e == req[r].endpoint
           p == req[r].patch
           c == req[r].read
           h == PatchedHealth(c.health, p)
           l == IF p.limit = KeepLimit THEN c.limit ELSE p.limit
<1>1. e \in Endpoints /\ p \in Patch /\ c \in Row /\ Consistent(c.health)
  BY DEF Inv, TypeOK, Request, Idle, UpdateWrite, CopiesConsistent
<1>2. c.health \in Health /\ c.limit \in Limits
  BY <1>1 DEF Row
<1>3. h \in Health /\ Consistent(h)
  BY <1>1, <1>2, PatchConsistent
<1>4. l \in Limits
  BY <1>1, <1>2 DEF Patch
<1>5. /\ row' = IF row[e].life # "live" THEN row
                ELSE [row EXCEPT ![e].health = h, ![e].limit = l]
      /\ tripped' = IF p.status = "active" THEN [tripped EXCEPT ![e] = FALSE] ELSE tripped
      /\ req' = [req EXCEPT ![r] = Idle]
      /\ UNCHANGED <<streak, bounds>>
  BY DEF UpdateWrite
<1>6. row \in [Endpoints -> Row] /\ req \in [Requests -> Request]
      /\ tripped \in [Endpoints -> BOOLEAN]
  BY DEF Inv, TypeOK
<1> HIDE DEF h, l, p, e, c
<1>7. row' \in [Endpoints -> Row]
  BY <1>1, <1>3, <1>4, <1>5, <1>6 DEF Row
<1>8. RowsConsistent'
  BY <1>1, <1>3, <1>5, <1>6 DEF Row, Inv, RowsConsistent
<1>9. req' \in [Requests -> Request] /\ CopiesConsistent'
  BY <1>5, <1>6 DEF Request, Idle, Inv, CopiesConsistent
<1>10. tripped' \in [Endpoints -> BOOLEAN] /\ overwritten' \in [Endpoints -> BOOLEAN]
  <2>1. overwritten \in [Endpoints -> BOOLEAN]
    BY DEF Inv, TypeOK
  <2>2. \E b \in BOOLEAN : overwritten' = [overwritten EXCEPT ![req[r].endpoint] = b]
    <3>1. overwritten[req[r].endpoint] \in BOOLEAN
      BY <1>1, <2>1 DEF e
    <3> QED
      BY <3>1 DEF UpdateWrite
  <2> QED
    BY <1>1, <1>5, <1>6, <2>1, <2>2 DEF e
<1> QED
  BY <1>5, <1>7, <1>8, <1>9, <1>10 DEF Inv, TypeOK, StreakBounded, bounds

LEMMA EndInv ==
    ASSUME Inv, NEW r \in Requests, DeleteWrite(r) \/ Abandon(r)
    PROVE  Inv'
<1>1. req' = [req EXCEPT ![r] = Idle] /\ UNCHANGED <<history, bounds>>
  BY DEF DeleteWrite, Abandon
<1>2. req' \in [Requests -> Request] /\ CopiesConsistent'
  BY <1>1 DEF Inv, TypeOK, Request, Idle, CopiesConsistent
<1>3. row' \in [Endpoints -> Row] /\ RowsConsistent'
  <2>1. CASE Abandon(r)
    BY <2>1 DEF Abandon, Inv, TypeOK, RowsConsistent
  <2>2. CASE DeleteWrite(r)
    <3>1. req[r].endpoint \in Endpoints
      BY <2>2 DEF DeleteWrite, Inv, TypeOK, Request, Idle
    <3> QED
      BY <2>2, <3>1 DEF DeleteWrite, Inv, TypeOK, Row, RowsConsistent
  <2> QED
    BY <2>1, <2>2
<1> QED
  BY <1>1, <1>2, <1>3 DEF Inv, TypeOK, StreakBounded, history, bounds

LEMMA ReportInv ==
    ASSUME Inv, NEW e \in Endpoints, NEW success \in BOOLEAN, Report(e, success)
    PROVE  Inv'
<1> DEFINE h == RecordDeliveryResult(row[e].health, success)
<1>1. row \in [Endpoints -> Row] /\ row[e].health \in Health /\ Consistent(row[e].health)
  BY DEF Inv, TypeOK, Row, RowsConsistent
<1>2. h \in Health /\ Consistent(h)
  BY <1>1, ReportConsistent
<1>3. row' = IF row[e].life = "live" THEN [row EXCEPT ![e].health = h] ELSE row
  BY DEF Report
<1>4. /\ results' \in 0..MaxResults
      /\ tripped' \in [Endpoints -> BOOLEAN]
      /\ UNCHANGED <<req, overwritten, calls>>
  BY BreakerAssumption DEF Report, Inv, TypeOK
<1>5. streak' \in [Endpoints -> 0..MaxResults] /\ StreakBounded'
  <2>1. /\ streak \in [Endpoints -> 0..MaxResults]
        /\ \A d \in Endpoints : streak[d] <= results
        /\ results \in 0..MaxResults /\ results < MaxResults
        /\ results' = results + 1
        /\ streak' = [streak EXCEPT ![e] = IF success THEN 0 ELSE @ + 1]
    BY DEF Report, Inv, TypeOK, StreakBounded
  <2> QED
    BY <2>1, BreakerAssumption DEF StreakBounded
<1> HIDE DEF h
<1>6. row' \in [Endpoints -> Row] /\ RowsConsistent'
  BY <1>1, <1>2, <1>3 DEF Row, Inv, RowsConsistent
<1> QED
  BY <1>4, <1>5, <1>6 DEF Inv, TypeOK, CopiesConsistent

\* Every step keeps the invariant.
LEMMA NextInv == Inv /\ [Next]_vars => Inv'
<1> SUFFICES ASSUME Inv, [Next]_vars PROVE Inv'
  OBVIOUS
<1>1. CASE Operator
  BY <1>1, CreateInv, ReadInv, UpdateWriteInv, EndInv DEF Operator
<1>2. ASSUME NEW e \in Endpoints, NEW success \in BOOLEAN, Report(e, success)
      PROVE  Inv'
  BY <1>2, ReportInv
<1>3. CASE UNCHANGED vars
  BY <1>3 DEF vars, history, bounds, Inv, TypeOK, RowsConsistent, CopiesConsistent,
      StreakBounded
<1> QED
  BY <1>1, <1>2, <1>3 DEF Next

\* Whatever copies of a row HTTP handlers hold and write back, and however many
\* workers report to it in between, no endpoint is active with its failures
\* used up: a lost update never costs the breaker its next trip.
THEOREM BreakerSafe == Spec => [](TypeOK /\ RowsConsistent)
<1>1. Init => Inv
  BY InvInit
<1>2. Inv /\ [Next]_vars => Inv'
  BY NextInv
<1>3. Inv => TypeOK /\ RowsConsistent
  BY DEF Inv
<1> QED
  BY <1>1, <1>2, <1>3, PTL DEF Spec

\* An update that replaces newer health says so, and one that replaces nothing
\* newer leaves the row's health alone unless the body names a status.
LEMMA UpdateWriteHonest ==
    ASSUME Inv, Honest, NEW r \in Requests, UpdateWrite(r)
    PROVE  Honest'
<1> DEFINE e == req[r].endpoint
           p == req[r].patch
           c == req[r].read
           h == PatchedHealth(c.health, p)
<1>1. e \in Endpoints /\ p \in Patch /\ c \in Row
  BY DEF Inv, TypeOK, Request, Idle, UpdateWrite
<1>2. /\ row \in [Endpoints -> Row] /\ streak \in [Endpoints -> 0..MaxResults]
      /\ tripped \in [Endpoints -> BOOLEAN] /\ overwritten \in [Endpoints -> BOOLEAN]
  BY DEF Inv, TypeOK
<1>3. \A f \in Endpoints :
        /\ row'[f].life = row[f].life
        /\ f # e \/ row[f].life # "live" => row'[f].health = row[f].health
        /\ f = e /\ row[f].life = "live" => row'[f].health = h
  BY <1>1, <1>2 DEF UpdateWrite, Row
<1>4. streak' = streak /\ \A f \in Endpoints : f # e => tripped'[f] = tripped[f]
                                             /\ overwritten'[f] = overwritten[f]
  BY <1>1, <1>2 DEF UpdateWrite
<1>5. /\ p.status = "active" => ~tripped'[e] /\ ~overwritten'[e]
      /\ p.status # "active" => tripped'[e] = tripped[e]
      /\ p.status # "active" /\ ~overwritten'[e] => ~overwritten[e]
      /\ p.status = KeepStatus /\ ~overwritten'[e] => row[e].health = c.health
  BY <1>1, <1>2 DEF UpdateWrite, KeepStatus
<1>6. /\ p.status = KeepStatus => h = c.health
      /\ p.status = "active" => h = CleanSlate
      /\ p.status = "inactive" => h.status = "inactive"
      /\ p.status \in {KeepStatus, "active", "inactive"}
  <2>1. p.status \in {KeepStatus, "active", "inactive"} /\ c.health \in Health
    BY <1>1 DEF Patch, EndpointStatus, Row
  <2> HIDE DEF p, c
  <2> QED
    BY <2>1 DEF PatchedHealth, KeepStatus, Health
<1>7. CleanSlate.failures = 0 /\ CleanSlate.status = "active"
  BY DEF CleanSlate
<1> HIDE DEF e, p, c, h
<1>8. ASSUME NEW f \in Endpoints
      PROVE  /\ tripped'[f] /\ ~overwritten'[f] => row'[f].health.status = "inactive"
             /\ row'[f].life = "live" /\ row'[f].health.status = "active" /\ ~overwritten'[f]
                  => row'[f].health.failures <= streak'[f]
             /\ row'[f].life = "absent" => ~tripped'[f]
  <2>1. /\ tripped[f] /\ ~overwritten[f] => row[f].health.status = "inactive"
        /\ row[f].life = "live" /\ row[f].health.status = "active" /\ ~overwritten[f]
             => row[f].health.failures <= streak[f]
        /\ row[f].life = "absent" => ~tripped[f]
        /\ streak[f] \in Nat
    BY <1>2 DEF Honest, OnlyLostUpdatesUndoATrip, CountsConsecutive, NewIsUntripped
  <2>2. CASE f # e
    BY <1>3, <1>4, <2>1, <2>2
  <2>3. CASE f = e /\ p.status = KeepStatus
    BY <1>3, <1>4, <1>5, <1>6, <2>1, <2>3 DEF KeepStatus
  <2>4. CASE f = e /\ p.status = "active"
    BY <1>3, <1>4, <1>5, <1>6, <1>7, <2>1, <2>4
  <2>5. CASE f = e /\ p.status = "inactive"
    BY <1>3, <1>4, <1>5, <1>6, <2>1, <2>5
  <2> QED
    BY <1>6, <2>2, <2>3, <2>4, <2>5
<1> QED
  BY <1>8 DEF Honest, OnlyLostUpdatesUndoATrip, CountsConsecutive, NewIsUntripped

\* A result moves the counter and the streak together.
LEMMA ReportHonest ==
    ASSUME Inv, Honest, NEW e \in Endpoints, NEW success \in BOOLEAN, Report(e, success)
    PROVE  Honest'
<1> DEFINE b == row[e].health
           a == RecordDeliveryResult(b, success)
<1>1. /\ row \in [Endpoints -> Row] /\ streak \in [Endpoints -> 0..MaxResults]
      /\ tripped \in [Endpoints -> BOOLEAN] /\ overwritten \in [Endpoints -> BOOLEAN]
  BY DEF Inv, TypeOK
<1>2. b \in Health
  BY <1>1 DEF Row
<1>3. \A f \in Endpoints :
        /\ row'[f].life = row[f].life
        /\ f # e \/ row[f].life # "live" => row'[f].health = row[f].health
        /\ f = e /\ row[f].life = "live" => row'[f].health = a
        /\ f # e => streak'[f] = streak[f] /\ tripped'[f] = tripped[f]
  BY <1>1 DEF Report, Row
<1>4. /\ overwritten' = overwritten /\ row[e].life # "absent"
      /\ streak'[e] = IF success THEN 0 ELSE streak[e] + 1
      /\ tripped'[e] => tripped[e] \/ (a.status = "inactive" /\ row[e].life = "live")
  BY <1>1 DEF Report
<1>5. /\ b.status = "inactive" => a.status = "inactive"
      /\ success => a.failures = 0
      /\ a.status = "active" /\ ~success => b.status = "active" /\ a.failures = b.failures + 1
  <2>1. b.failures \in Nat /\ b.status \in {"active", "inactive"}
    BY <1>2 DEF Health, EndpointStatus
  <2> HIDE DEF b
  <2>2. CASE success
    BY <1>2, <2>1, <2>2 DEF RecordDeliveryResult, ResetStreak, Health
  <2>3. CASE ~success
    BY <1>2, <2>1, <2>3 DEF RecordDeliveryResult, CountFailure, Health
  <2> QED
    BY <2>2, <2>3
<1>6. a.status = "active" /\ success => b.status = "active"
  <2>1. b.status \in {"active", "inactive"}
    BY <1>2 DEF Health, EndpointStatus
  <2> QED
    BY <1>5, <2>1
<1>7. b.failures \in Nat
  BY <1>2 DEF Health
<1> HIDE DEF a
<1>8. ASSUME NEW f \in Endpoints
      PROVE  /\ tripped'[f] /\ ~overwritten'[f] => row'[f].health.status = "inactive"
             /\ row'[f].life = "live" /\ row'[f].health.status = "active" /\ ~overwritten'[f]
                  => row'[f].health.failures <= streak'[f]
             /\ row'[f].life = "absent" => ~tripped'[f]
  <2>1. /\ tripped[f] /\ ~overwritten[f] => row[f].health.status = "inactive"
        /\ row[f].life = "live" /\ row[f].health.status = "active" /\ ~overwritten[f]
             => row[f].health.failures <= streak[f]
        /\ row[f].life = "absent" => ~tripped[f]
        /\ streak[f] \in Nat
    BY <1>1 DEF Honest, OnlyLostUpdatesUndoATrip, CountsConsecutive, NewIsUntripped
  <2>2. CASE f # e
    BY <1>3, <1>4, <2>1, <2>2
  <2>3. CASE f = e /\ row[e].life # "live"
    BY <1>3, <1>4, <2>1, <2>3
  <2>4. CASE f = e /\ row[e].life = "live"
    <3>1. row'[f].health = a
      BY <1>3, <2>4
    <3>2. tripped'[f] /\ ~overwritten'[f] => row'[f].health.status = "inactive"
      BY <1>4, <1>5, <2>1, <2>4, <3>1
    <3>3. row'[f].health.status = "active" /\ ~overwritten'[f]
            => row'[f].health.failures <= streak'[f]
      BY <1>4, <1>5, <1>6, <1>7, <2>1, <2>4, <3>1
    <3> QED
      BY <1>3, <2>4, <3>2, <3>3
  <2> QED
    BY <2>2, <2>3, <2>4
<1> QED
  BY <1>8 DEF Honest, OnlyLostUpdatesUndoATrip, CountsConsecutive, NewIsUntripped

\* Only a lost update of a body that names no status undoes a trip or makes the
\* breaker count failures that were not consecutive.
THEOREM BreakerHonest == Spec => [](OnlyLostUpdatesUndoATrip /\ CountsConsecutive)
<1>1. Init => Inv /\ Honest
  BY InvInit
  DEF Init, Honest, OnlyLostUpdatesUndoATrip, CountsConsecutive, NewIsUntripped
<1>2. Inv /\ Honest /\ [Next]_vars => Honest'
  <2> SUFFICES ASSUME Inv, Honest, [Next]_vars PROVE Honest'
    OBVIOUS
  <2>1. ASSUME NEW e \in Endpoints, CreateEndpoint(e)
        PROVE  Honest'
    BY <2>1, BreakerAssumption
    DEF CreateEndpoint, CleanSlate, history, Inv, TypeOK, Row, Honest,
        OnlyLostUpdatesUndoATrip, CountsConsecutive, NewIsUntripped
  <2>2. ASSUME NEW r \in Requests, NEW app \in Apps, NEW e \in Endpoints,
               \/ \E p \in Patches : UpdateRead(r, app, e, p)
               \/ DeleteRead(r, app, e)
        PROVE  Honest'
    BY <2>2 DEF UpdateRead, DeleteRead, history, Honest, OnlyLostUpdatesUndoATrip,
        CountsConsecutive, NewIsUntripped
  <2>3. ASSUME NEW r \in Requests, DeleteWrite(r)
        PROVE  Honest'
    <3>1. req[r].endpoint \in Endpoints
      BY <2>3 DEF DeleteWrite, Inv, TypeOK, Request, Idle
    <3> QED
      BY <2>3, <3>1
      DEF DeleteWrite, history, Inv, TypeOK, Row, Honest, OnlyLostUpdatesUndoATrip,
          CountsConsecutive, NewIsUntripped
  <2>4. CASE (\E r \in Requests : Abandon(r)) \/ UNCHANGED vars
    BY <2>4 DEF Abandon, vars, history, Honest, OnlyLostUpdatesUndoATrip,
        CountsConsecutive, NewIsUntripped
  <2> QED
    BY <2>1, <2>2, <2>3, <2>4, UpdateWriteHonest, ReportHonest DEF Next, Operator
<1>3. Init => Inv
  BY InvInit
<1>4. Inv /\ [Next]_vars => Inv'
  BY NextInv
<1>5. Honest => OnlyLostUpdatesUndoATrip /\ CountsConsecutive
  BY DEF Honest
<1> QED
  BY <1>1, <1>2, <1>3, <1>4, <1>5, PTL DEF Spec
=============================================================================
