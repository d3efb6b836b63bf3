----------------------------- MODULE ReplayProofs -----------------------------
(***************************************************************************)
(* Proofs about Replay.  A plain bulk replay queues a pair only when its   *)
(* newest attempt has failed, and for a pair that nobody raced for only    *)
(* the newest attempt can be open: so the one it adds stands alone.        *)
(***************************************************************************)
EXTENDS Replay, FiniteSetTheorems, TLAPS

Attempt == [event : Events, endpoint : Endpoints, status : Status, at : Nat]

ReplayAll ==
    [op : {"replayAll"}, at : {"begin", "commit"}, event : Events, time : Nat,
     chosen : SUBSET Endpoints]

Bulk ==
    [op : {"bulk"}, at : {"insert"}, app : Apps, filter : Filters,
     pairs : SUBSET (Events \X Endpoints), time : Nat]

TypeInv ==
    /\ endpoint \in [Endpoints -> {"active", "inactive", "deleted"}]
    /\ subs \subseteq Endpoints \X Names
    /\ attempts \subseteq Attempt
    /\ req \in [Handlers -> {Idle} \cup ReplayAll \cup Bulk]
    /\ raced \subseteq Events \X Endpoints
    /\ clock \in Nat /\ calls \in 0..MaxCalls

\* A request whose transaction has begun.
Timed(q) == q.op = "bulk" \/ (q.op = "replayAll" /\ q.at = "commit")

\* Requests that have not drawn their time yet.
Waiting == {r \in Handlers : req[r].op = "replayAll" /\ req[r].at = "begin"}

\* No more transactions than calls.
ClockInv ==
    /\ IsFiniteSet(Waiting)
    /\ clock + Cardinality(Waiting) <= calls

\* Transactions have times of their own, and so have the rows of a pair.
TimeInv ==
    /\ \A a \in attempts : a.at <= clock
    /\ \A a, b \in attempts : Pair(a) = Pair(b) /\ a.at = b.at => a = b
    /\ \A r \in Handlers : Timed(req[r]) =>
         /\ req[r].time <= clock
         /\ \A a \in attempts : a.at # req[r].time
         /\ \A p \in Handlers : Timed(req[p]) /\ req[p].time = req[r].time => p = r

\* What is stored, and what will be, stays within an application.
TenantInv ==
    /\ TenantsApart
    /\ \A r \in Handlers :
         /\ req[r].op = "bulk" => \A p \in req[r].pairs : AppOf[p[1]] = AppOf[p[2]]
         /\ req[r].op = "replayAll" => \A e \in req[r].chosen : AppOf[req[r].event] = AppOf[e]

\* For a pair that nobody raced for only the newest attempt can be open, and a
\* plain bulk replay that is about to add one finds it failed or delivered, and
\* older than its own transaction.
OpenInv ==
    /\ \A a, b \in attempts :
         a.status = "open" /\ Pair(a) = Pair(b) /\ a.at < b.at => Pair(a) \in raced
    /\ \A r \in Handlers : req[r].op = "bulk" /\ ~HidesNewer(req[r]) =>
         \A a \in attempts :
           Pair(a) \in req[r].pairs \ raced => a.status # "open" /\ a.at < req[r].time

IInv ==
    /\ TypeInv
    /\ ClockInv
    /\ TimeInv
    /\ TenantInv
    /\ OpenInv

-----------------------------------------------------------------------------
(* Types                                                                   *)

LEMMA IsBulk ==
    ASSUME NEW q \in {Idle} \cup ReplayAll \cup Bulk, q.op = "bulk"
    PROVE  q \in Bulk
  BY DEF Idle, ReplayAll, Bulk

LEMMA IsReplayAll ==
    ASSUME NEW q \in {Idle} \cup ReplayAll \cup Bulk, q.op = "replayAll"
    PROVE  q \in ReplayAll
  BY DEF Idle, ReplayAll, Bulk

LEMMA FreshType ==
    ASSUME NEW pairs \in SUBSET (Events \X Endpoints), NEW t \in Nat
    PROVE  /\ Fresh(pairs, t) \subseteq Attempt
           /\ \A a \in Fresh(pairs, t) : Pair(a) \in pairs /\ a.at = t /\ a.status = "open"
           /\ \A a, b \in Fresh(pairs, t) : Pair(a) = Pair(b) => a = b
<1>1. \A p \in pairs : p = <<p[1], p[2]>> /\ p[1] \in Events /\ p[2] \in Endpoints
  OBVIOUS
<1>2. ASSUME NEW a \in Fresh(pairs, t)
      PROVE  \E p \in pairs : /\ a = [event |-> p[1], endpoint |-> p[2], status |-> "open", at |-> t]
                              /\ Pair(a) = p
  BY <1>1, <1>2 DEF Fresh, Pair
<1>3. Fresh(pairs, t) \subseteq Attempt  BY <1>1 DEF Fresh, Attempt, Status
<1>4. \A a \in Fresh(pairs, t) : Pair(a) \in pairs /\ a.at = t /\ a.status = "open"
  BY <1>2
<1>5. \A a, b \in Fresh(pairs, t) : Pair(a) = Pair(b) => a = b
  BY <1>2
<1> QED  BY <1>3, <1>4, <1>5

LEMMA FreshNothing == ASSUME NEW t  PROVE Fresh({}, t) = {}
  BY DEF Fresh

-----------------------------------------------------------------------------
(* Rows change and requests do not                                         *)

\* Every row was there before, as old as it is and as open, unless its pair is raced.
Inherited ==
    \A a \in attempts' : \E b \in attempts :
        /\ Pair(b) = Pair(a) /\ b.at = a.at
        /\ a.status = "open" => b.status = "open" \/ Pair(a) \in raced'

LEMMA RowsKept ==
    ASSUME IInv, UNCHANGED <<req, clock>>, TypeInv', calls <= calls', raced \subseteq raced',
           Inherited,
           \A a, b \in attempts' : Pair(a) = Pair(b) /\ a.at = b.at => a = b
    PROVE  IInv'
<1>1. ClockInv'
  <2>1. Waiting' = Waiting  BY DEF Waiting
  <2>2. Cardinality(Waiting) \in Nat  BY FS_CardinalityType DEF IInv, ClockInv
  <2> QED  BY <2>1, <2>2 DEF IInv, TypeInv, ClockInv
<1>2. TimeInv'
  <2>1. \A a \in attempts' : a.at <= clock'  BY DEF Inherited, IInv, TimeInv
  <2>2. \A r \in Handlers : Timed(req'[r]) =>
           /\ req'[r].time <= clock'
           /\ \A a \in attempts' : a.at # req'[r].time
           /\ \A p \in Handlers : Timed(req'[p]) /\ req'[p].time = req'[r].time => p = r
    BY DEF Inherited, IInv, TimeInv
  <2> QED  BY <2>1, <2>2 DEF TimeInv, Timed
<1>3. TenantInv'
  <2>1. \A a \in attempts' : \E b \in attempts : b.event = a.event /\ b.endpoint = a.endpoint
    BY DEF Inherited, Pair
  <2>2. TenantsApart'  BY <2>1 DEF IInv, TenantInv, TenantsApart
  <2> QED  BY <2>2 DEF IInv, TenantInv
<1>4. OpenInv'
  <2>1. ASSUME NEW a \in attempts', NEW b \in attempts',
               a.status = "open", Pair(a) = Pair(b), a.at < b.at
        PROVE  Pair(a) \in raced'
    <3>1. PICK c \in attempts : /\ Pair(c) = Pair(a) /\ c.at = a.at
                                /\ c.status = "open" \/ Pair(a) \in raced'
      BY <2>1 DEF Inherited
    <3>2. PICK d \in attempts : Pair(d) = Pair(b) /\ d.at = b.at
      BY DEF Inherited
    <3> QED  BY <2>1, <3>1, <3>2 DEF IInv, OpenInv
  <2>2. ASSUME NEW r \in Handlers, req'[r].op = "bulk", ~HidesNewer(req[r])',
               NEW a \in attempts', Pair(a) \in req'[r].pairs \ raced'
        PROVE  a.status # "open" /\ a.at < req'[r].time
    <3>1. PICK c \in attempts : /\ Pair(c) = Pair(a) /\ c.at = a.at
                                /\ a.status = "open" => c.status = "open" \/ Pair(a) \in raced'
      BY DEF Inherited
    <3>2. ~HidesNewer(req[r])  BY <2>2 DEF HidesNewer
    <3> QED  BY <2>2, <3>1, <3>2 DEF IInv, OpenInv
  <2> QED  BY <2>1, <2>2 DEF OpenInv
<1> QED  BY <1>1, <1>2, <1>3, <1>4 DEF IInv

\* One row gets another status: the engine settles it, or an operator retries it.
LEMMA RestatusKept ==
    ASSUME IInv, NEW a \in attempts, NEW s \in Status,
           attempts' = (attempts \ {a}) \cup {[a EXCEPT !.status = s]},
           raced' = raced \/ raced' = raced \cup {Pair(a)},
           s = "open" => Pair(a) \in raced',
           UNCHANGED <<endpoint, subs, req, clock>>, calls <= calls', calls' \in 0..MaxCalls
    PROVE  IInv'
<1> DEFINE c == [a EXCEPT !.status = s]
<1>1. a \in Attempt  BY DEF IInv, TypeInv
<1>2. c \in Attempt /\ Pair(c) = Pair(a) /\ c.at = a.at /\ c.status = s
  BY <1>1 DEF Attempt, Pair
<1>3. Pair(a) \in Events \X Endpoints  BY <1>1 DEF Attempt, Pair
<1> HIDE DEF c
<1>4. attempts' = (attempts \ {a}) \cup {c}  BY DEF c
<1>5. TypeInv'  BY <1>2, <1>3, <1>4 DEF IInv, TypeInv
<1>6. Inherited  BY <1>2, <1>4 DEF Inherited
<1>7. \A x, y \in attempts' : Pair(x) = Pair(y) /\ x.at = y.at => x = y
  BY <1>2, <1>4 DEF IInv, TimeInv
<1> QED  BY <1>5, <1>6, <1>7, RowsKept

LEMMA EnvironmentKept ==
    ASSUME IInv, Environment
    PROVE  IInv'
<1>0. calls \in Nat  BY DEF IInv, TypeInv
<1>1. ASSUME NEW a \in attempts, NEW s \in Outcomes, Settle(a, s)
      PROVE  IInv'
  <2>1. s \in Status /\ s # "open"  BY ReplayAssumption DEF Settled, Status
  <2>2. calls' = calls /\ calls' \in 0..MaxCalls  BY <1>1 DEF Settle, IInv, TypeInv
  <2> QED  BY <1>0, <1>1, <2>1, <2>2, RestatusKept DEF Settle
<1>2. ASSUME NEW e \in Endpoints,
             \/ \E s \in {"active", "inactive"} : SwitchEndpoint(e, s)
             \/ \E name \in Names : Resubscribe(e, name)
             \/ DeleteEndpoint(e)
      PROVE  IInv'
  <2>1. UNCHANGED <<req, clock, calls, raced>>
    BY <1>2 DEF SwitchEndpoint, Resubscribe, DeleteEndpoint, Change
  <2>2. attempts' \subseteq attempts
    BY <1>2 DEF SwitchEndpoint, Resubscribe, DeleteEndpoint
  <2>3. endpoint' \in [Endpoints -> {"active", "inactive", "deleted"}]
        /\ subs' \subseteq Endpoints \X Names
    <3>1. ASSUME NEW s \in {"active", "inactive"}, SwitchEndpoint(e, s)
          PROVE  /\ endpoint' \in [Endpoints -> {"active", "inactive", "deleted"}]
                 /\ subs' = subs
      BY <3>1 DEF SwitchEndpoint, IInv, TypeInv
    <3>2. ASSUME NEW name \in Names, Resubscribe(e, name)
          PROVE  endpoint' = endpoint /\ subs' \subseteq subs \cup {<<e, name>>}
      BY <3>2 DEF Resubscribe
    <3>3. ASSUME DeleteEndpoint(e)
          PROVE  /\ endpoint' \in [Endpoints -> {"active", "inactive", "deleted"}]
                 /\ subs' \subseteq subs
      BY <3>3 DEF DeleteEndpoint, IInv, TypeInv
    <3>4. ASSUME NEW name \in Names  PROVE <<e, name>> \in Endpoints \X Names  OBVIOUS
    <3> QED  BY <1>2, <3>1, <3>2, <3>3, <3>4 DEF IInv, TypeInv
  <2>4. TypeInv'  BY <2>1, <2>2, <2>3 DEF IInv, TypeInv
  <2>5. Inherited  BY <2>2 DEF Inherited
  <2>6. \A x, y \in attempts' : Pair(x) = Pair(y) /\ x.at = y.at => x = y
    BY <2>2 DEF IInv, TimeInv
  <2> QED  BY <1>0, <2>1, <2>4, <2>5, <2>6, RowsKept
<1> QED  BY <1>1, <1>2 DEF Environment

LEMMA ManualRetryKept ==
    ASSUME IInv, NEW app \in Apps, NEW a \in attempts, ManualRetry(app, a)
    PROVE  IInv'
<1>1. calls \in Nat /\ MaxCalls \in Nat  BY ReplayAssumption DEF IInv, TypeInv
<1>2. calls' = calls + 1 /\ calls < MaxCalls  BY DEF ManualRetry
<1>3. calls <= calls' /\ calls' \in 0..MaxCalls  BY <1>1, <1>2
<1>4. "open" \in Status  BY DEF Status
<1>5. Pair(a) \in raced'  BY DEF ManualRetry
<1> QED  BY <1>3, <1>4, <1>5, RestatusKept DEF ManualRetry

LEMMA ReplayFailedKept ==
    ASSUME IInv, NEW r \in Handlers, NEW app \in Apps, NEW v \in Events,
           ReplayFailedAttemptsByEvent(r, app, v)
    PROVE  IInv'
<1>1. calls \in Nat /\ MaxCalls \in Nat  BY ReplayAssumption DEF IInv, TypeInv
<1>2. calls' = calls + 1 /\ calls < MaxCalls  BY DEF ReplayFailedAttemptsByEvent
<1>3. calls <= calls' /\ calls' \in 0..MaxCalls  BY <1>1, <1>2
<1>4. UNCHANGED <<endpoint, subs, attempts, req, clock, raced>>
  BY DEF ReplayFailedAttemptsByEvent, tables
<1>5. TypeInv'
  BY <1>3, <1>4 DEF IInv, TypeInv
<1>6. Inherited /\ \A x, y \in attempts' : Pair(x) = Pair(y) /\ x.at = y.at => x = y
  BY <1>4 DEF Inherited, IInv, TimeInv
<1> QED  BY <1>3, <1>4, <1>5, <1>6, RowsKept

-----------------------------------------------------------------------------
(* Requests begin                                                          *)

LEMMA ReplayEventKept ==
    ASSUME IInv, NEW r \in Handlers, NEW app \in Apps, NEW v \in Events, ReplayEvent(r, app, v)
    PROVE  IInv'
<1> DEFINE found == GetSubscribedEndpoints(app, TypeOf[v], RecipientOf[v])
           q == [op |-> "replayAll", at |-> "begin", event |-> v, time |-> 0, chosen |-> found]
<1>1. found \subseteq Endpoints /\ \A e \in found : AppOf[v] = AppOf[e]
  BY DEF GetSubscribedEndpoints, ReplayEvent, GetEvent
<1>2. req' = [req EXCEPT ![r] = q] /\ req[r] = Idle /\ calls < MaxCalls /\ calls' = calls + 1
  BY DEF ReplayEvent, Begin
<1>3. UNCHANGED <<endpoint, subs, attempts, clock, raced>>  BY DEF ReplayEvent, tables
<1> HIDE DEF found
<1>4. q \in ReplayAll  BY <1>1 DEF ReplayAll
<1>5. q.op = "replayAll" /\ q.at = "begin" /\ q.event = v /\ q.chosen = found  OBVIOUS
<1> HIDE DEF q
<1>6. req'[r] = q /\ \A p \in Handlers \ {r} : req'[p] = req[p]
  BY <1>2 DEF IInv, TypeInv
<1>7. calls \in Nat /\ MaxCalls \in Nat  BY ReplayAssumption DEF IInv, TypeInv
<1>8. TypeInv'
  <2>1. calls' \in 0..MaxCalls  BY <1>2, <1>7
  <2>2. req' \in [Handlers -> {Idle} \cup ReplayAll \cup Bulk]
    BY <1>2, <1>4 DEF IInv, TypeInv
  <2> QED  BY <1>3, <2>1, <2>2 DEF IInv, TypeInv
<1>9. ClockInv'
  <2>1. Waiting' = Waiting \cup {r}  BY <1>5, <1>6 DEF Waiting
  <2>2. r \notin Waiting  BY <1>2 DEF Waiting, Idle
  <2>3. IsFiniteSet(Waiting') /\ Cardinality(Waiting') = Cardinality(Waiting) + 1
    BY <2>1, <2>2, FS_AddElement DEF IInv, ClockInv
  <2>4. Cardinality(Waiting) \in Nat  BY FS_CardinalityType DEF IInv, ClockInv
  <2>5. clock \in Nat  BY DEF IInv, TypeInv
  <2> QED  BY <1>2, <1>3, <1>7, <2>3, <2>4, <2>5 DEF IInv, ClockInv
<1>10. ~Timed(q)  BY <1>5 DEF Timed
<1>11. TimeInv'
  <2>1. \A p \in Handlers : Timed(req'[p]) => p # r /\ req'[p] = req[p]  BY <1>6, <1>10
  <2> QED  BY <1>3, <2>1 DEF IInv, TimeInv, Timed
<1>12. TenantInv'
  BY <1>1, <1>3, <1>5, <1>6 DEF IInv, TenantInv, TenantsApart
<1>13. OpenInv'
  <2>1. \A p \in Handlers : req'[p].op = "bulk" => p # r /\ req'[p] = req[p]  BY <1>5, <1>6
  <2> QED  BY <1>3, <2>1 DEF IInv, OpenInv, HidesNewer
<1> QED  BY <1>8, <1>9, <1>11, <1>12, <1>13 DEF IInv

\* The transaction of a request begins: the clock ticks, and the time is its own.
LEMMA TimeDrawn ==
    ASSUME IInv, NEW r \in Handlers, clock' = clock + 1, UNCHANGED attempts,
           req'[r].time = clock', \A p \in Handlers \ {r} : req'[p] = req[p]
    PROVE  TimeInv'
<1>1. clock \in Nat  BY DEF IInv, TypeInv
<1>2. \A a \in attempts : a \in Attempt  BY DEF IInv, TypeInv
<1>3. \A a \in attempts : a.at \in Nat /\ a.at <= clock  BY <1>2 DEF Attempt, IInv, TimeInv
<1>4. \A p \in Handlers : Timed(req[p]) => req[p].time \in Nat /\ req[p].time <= clock
  <2>1. ASSUME NEW p \in Handlers, Timed(req[p])  PROVE req[p] \in ReplayAll \cup Bulk
    BY <2>1, IsBulk, IsReplayAll DEF Timed, IInv, TypeInv
  <2> QED  BY <2>1 DEF ReplayAll, Bulk, IInv, TimeInv
<1>5. \A a \in attempts' : a.at <= clock' /\ a.at # clock'  BY <1>1, <1>3
<1>6. \A a, b \in attempts' : Pair(a) = Pair(b) /\ a.at = b.at => a = b
  BY DEF IInv, TimeInv
<1>7. ASSUME NEW p \in Handlers, Timed(req'[p])
      PROVE  /\ req'[p].time <= clock'
             /\ \A a \in attempts' : a.at # req'[p].time
             /\ \A u \in Handlers : Timed(req'[u]) /\ req'[u].time = req'[p].time => u = p
  <2>1. CASE p = r
    <3>1. \A u \in Handlers \ {r} : Timed(req'[u]) => req'[u].time # clock'  BY <1>1, <1>4
    <3> QED  BY <1>1, <1>5, <2>1, <3>1
  <2>2. CASE p # r
    <3>1. req'[p] = req[p] /\ Timed(req[p])  BY <1>7, <2>2
    <3>2. req[p].time \in Nat /\ req[p].time <= clock  BY <1>4, <3>1
    <3>3. \A u \in Handlers \ {r} : Timed(req'[u]) /\ req'[u].time = req'[p].time => u = p
      BY <3>1 DEF IInv, TimeInv
    <3>4. req'[r].time # req'[p].time  BY <1>1, <3>1, <3>2
    <3>5. \A a \in attempts' : a.at # req'[p].time  BY <3>1 DEF IInv, TimeInv
    <3> QED  BY <1>1, <3>1, <3>2, <3>3, <3>4, <3>5
  <2> QED  BY <2>1, <2>2
<1> QED  BY <1>5, <1>6, <1>7 DEF TimeInv, Timed

\* What a plain bulk replay selects: pairs with no open attempt, unless raced.
LEMMA SelectedIsSettled ==
    ASSUME IInv, NEW app, NEW f \in Filters, f.status = AnyStatus, clock < f.to,
           NEW a \in attempts, Pair(a) \in ToReplay(app, f), Pair(a) \notin raced
    PROVE  a.status # "open"
<1>1. PICK c \in Failed(Latest(Selected(app, f))) : Pair(c) = Pair(a)
  BY DEF ToReplay
<1>2. /\ c \in attempts /\ c.status # "open"
      /\ AppOf[c.event] = app /\ f.endpoint \in {AnyEndpoint, c.endpoint} /\ c.at >= f.from
      /\ \A b \in Selected(app, f) : Pair(b) = Pair(c) => b.at <= c.at
  BY <1>1 DEF Failed, Latest, Selected
<1>3. c.event = a.event /\ c.endpoint = a.endpoint  BY <1>1 DEF Pair
<1>4. a.at \in Nat /\ c.at \in Nat /\ f.from \in Nat /\ f.to \in Nat /\ clock \in Nat
  BY <1>2, ReplayAssumption DEF IInv, TypeInv, Attempt
<1>5. a.at <= clock  BY DEF IInv, TimeInv
<1>6. CASE a.at < c.at  BY <1>1, <1>2, <1>6 DEF IInv, OpenInv
<1>7. CASE a.at >= c.at
  <2>1. a \in Selected(app, f)  BY <1>2, <1>3, <1>4, <1>5, <1>7 DEF Selected
  <2>2. a.at = c.at  BY <1>1, <1>2, <1>4, <1>7, <2>1
  <2>3. a = c  BY <1>1, <1>2, <2>2 DEF IInv, TimeInv
  <2> QED  BY <1>2, <2>3
<1> QED  BY <1>4, <1>6, <1>7

LEMMA BatchReplayKept ==
    ASSUME IInv, NEW r \in Handlers, NEW app \in Apps, NEW f \in Filters, BatchReplay(r, app, f)
    PROVE  IInv'
<1> DEFINE pairs == ToReplay(app, f)
           q == [op |-> "bulk", at |-> "insert", app |-> app, filter |-> f,
                 pairs |-> pairs, time |-> Now]
<1>1. req' = [req EXCEPT ![r] = q] /\ req[r] = Idle /\ calls < MaxCalls /\ calls' = calls + 1
  BY DEF BatchReplay, Begin
<1>2. UNCHANGED <<endpoint, subs, attempts, raced>> /\ clock' = clock + 1
  BY DEF BatchReplay, tables
<1>3. clock \in Nat /\ calls \in Nat /\ MaxCalls \in Nat
  BY ReplayAssumption DEF IInv, TypeInv
<1>4. \A p \in pairs : \E a \in attempts : p = Pair(a)
  BY DEF ToReplay, Failed, Latest, Selected
<1>5. pairs \subseteq Events \X Endpoints
  <2>1. \A a \in attempts : Pair(a) \in Events \X Endpoints
    BY DEF IInv, TypeInv, Attempt, Pair
  <2> QED  BY <1>4, <2>1
<1>6. \A p \in pairs : AppOf[p[1]] = AppOf[p[2]]
  BY <1>4 DEF IInv, TenantInv, TenantsApart, Pair
<1> HIDE DEF pairs
<1>7. q \in Bulk  BY <1>3, <1>5 DEF Bulk, Now
<1>8. q.op = "bulk" /\ q.at = "insert" /\ q.filter = f /\ q.pairs = pairs /\ q.time = clock + 1
  BY DEF Now
<1> HIDE DEF q
<1>9. req'[r] = q /\ \A p \in Handlers \ {r} : req'[p] = req[p]
  BY <1>1 DEF IInv, TypeInv
<1>10. TypeInv'
  <2>1. calls' \in 0..MaxCalls /\ clock' \in Nat  BY <1>1, <1>2, <1>3
  <2>2. req' \in [Handlers -> {Idle} \cup ReplayAll \cup Bulk]
    BY <1>1, <1>7 DEF IInv, TypeInv
  <2> QED  BY <1>2, <2>1, <2>2 DEF IInv, TypeInv
<1>11. ClockInv'
  <2>1. Waiting' = Waiting  BY <1>1, <1>8, <1>9 DEF Waiting, Idle
  <2>2. Cardinality(Waiting) \in Nat  BY FS_CardinalityType DEF IInv, ClockInv
  <2> QED  BY <1>1, <1>2, <1>3, <2>1, <2>2 DEF IInv, ClockInv
<1>12. TimeInv'  BY <1>2, <1>8, <1>9, TimeDrawn
<1>13. TenantInv'
  BY <1>2, <1>6, <1>8, <1>9 DEF IInv, TenantInv, TenantsApart
<1>14. OpenInv'
  <2>1. \A a, b \in attempts' :
           a.status = "open" /\ Pair(a) = Pair(b) /\ a.at < b.at => Pair(a) \in raced'
    BY <1>2 DEF IInv, OpenInv
  <2>2. ASSUME NEW p \in Handlers, req'[p].op = "bulk", ~HidesNewer(req[p])',
               NEW a \in attempts', Pair(a) \in req'[p].pairs \ raced'
        PROVE  a.status # "open" /\ a.at < req'[p].time
    <3>1. CASE p # r
      BY <1>2, <1>9, <2>2, <3>1 DEF IInv, OpenInv, HidesNewer
    <3>2. CASE p = r
      <4>1. f.status = AnyStatus /\ ~(f.to < clock + 1)
        BY <1>8, <1>9, <2>2, <3>2 DEF HidesNewer
      <4>2. f.to \in Nat  BY ReplayAssumption
      <4>3. clock < f.to  BY <1>3, <4>1, <4>2
      <4>4. a.status # "open"
        BY <1>2, <1>8, <1>9, <2>2, <3>2, <4>1, <4>3, SelectedIsSettled DEF pairs
      <4>5. a.at \in Nat /\ a.at <= clock
        BY <1>2 DEF IInv, TypeInv, TimeInv, Attempt
      <4> QED  BY <1>3, <1>8, <1>9, <3>2, <4>4, <4>5
    <3> QED  BY <3>1, <3>2
  <2> QED  BY <2>1, <2>2 DEF OpenInv
<1> QED  BY <1>10, <1>11, <1>12, <1>13, <1>14 DEF IInv

-----------------------------------------------------------------------------
(* Requests end                                                            *)

\* A handler is done.  What it has inserted, if anything, bears the time of its
\* transaction, and is raced or the only open attempt of its pair.
LEMMA ReleaseKept ==
    ASSUME IInv, NEW r \in Handlers, NEW pairs \in SUBSET (Events \X Endpoints),
           req' = [req EXCEPT ![r] = Idle],
           attempts' = attempts \cup Fresh(pairs, req[r].time),
           UNCHANGED <<endpoint, subs, clock, calls>>,
           raced \subseteq raced', raced' \subseteq Events \X Endpoints,
           pairs # {} => Timed(req[r]),
           \A p \in pairs : AppOf[p[1]] = AppOf[p[2]],
           \/ pairs \subseteq raced'
           \/ /\ req[r].op = "bulk" /\ ~HidesNewer(req[r]) /\ pairs \subseteq req[r].pairs
              /\ pairs \cap Contested(r) \subseteq raced'
    PROVE  IInv'
<1> DEFINE t == req[r].time
           new == Fresh(pairs, t)
<1>1. req'[r] = Idle /\ \A p \in Handlers \ {r} : req'[p] = req[p]
  BY DEF IInv, TypeInv
<1>2. Idle.op # "bulk" /\ Idle.op # "replayAll" /\ ~Timed(Idle)  BY DEF Idle, Timed
<1>3. ASSUME pairs # {}  PROVE t \in Nat
  BY <1>3, IsBulk, IsReplayAll DEF Timed, IInv, TypeInv, Bulk, ReplayAll
<1>4. /\ new \subseteq Attempt
      /\ \A a \in new : Pair(a) \in pairs /\ a.at = t /\ a.status = "open"
      /\ \A a, b \in new : Pair(a) = Pair(b) => a = b
      /\ new # {} => pairs # {}
  <2>1. CASE pairs = {}  BY <2>1, FreshNothing
  <2>2. CASE pairs # {}  BY <1>3, <2>2, FreshType
  <2> QED  BY <2>1, <2>2
<1>5. attempts' = attempts \cup new  OBVIOUS
<1> HIDE DEF new
<1>6. ASSUME NEW a \in new, NEW b \in attempts  PROVE b.at # t
  BY <1>4, <1>6 DEF IInv, TimeInv
<1>7. TypeInv'
  <2>1. req' \in [Handlers -> {Idle} \cup ReplayAll \cup Bulk]  BY DEF IInv, TypeInv
  <2> QED  BY <1>4, <1>5, <2>1 DEF IInv, TypeInv
<1>8. ClockInv'
  <2>1. Waiting' = Waiting \ {r}  BY <1>1, <1>2 DEF Waiting
  <2>2. IsFiniteSet(Waiting') /\ Cardinality(Waiting') <= Cardinality(Waiting)
        /\ Cardinality(Waiting) \in Nat /\ Cardinality(Waiting') \in Nat
    BY <2>1, FS_Subset, FS_CardinalityType DEF IInv, ClockInv
  <2> QED  BY <2>2 DEF IInv, TypeInv, ClockInv
<1>9. TimeInv'
  <2>1. \A a \in new : a.at <= clock  BY <1>4 DEF IInv, TimeInv
  <2>2. \A a, b \in attempts' : Pair(a) = Pair(b) /\ a.at = b.at => a = b
    BY <1>4, <1>5, <1>6 DEF IInv, TimeInv
  <2>3. ASSUME NEW p \in Handlers, Timed(req'[p])
        PROVE  /\ req'[p].time <= clock'
               /\ \A a \in attempts' : a.at # req'[p].time
               /\ \A u \in Handlers : Timed(req'[u]) /\ req'[u].time = req'[p].time => u = p
    <3>1. p # r /\ req'[p] = req[p] /\ Timed(req[p])  BY <1>1, <1>2, <2>3
    <3>2. \A a \in new : a.at # req[p].time  BY <1>4, <3>1 DEF IInv, TimeInv
    <3>3. \A u \in Handlers : Timed(req'[u]) => u # r /\ req'[u] = req[u]  BY <1>1, <1>2
    <3> QED  BY <1>5, <3>1, <3>2, <3>3 DEF IInv, TimeInv
  <2>4. \A a \in attempts' : a.at <= clock'  BY <1>5, <2>1 DEF IInv, TimeInv
  <2> QED  BY <2>2, <2>3, <2>4 DEF TimeInv, Timed
<1>10. TenantInv'
  <2>1. \A a \in new : AppOf[a.event] = AppOf[a.endpoint]  BY <1>4 DEF Pair
  <2>2. TenantsApart'  BY <1>5, <2>1 DEF IInv, TenantInv, TenantsApart
  <2>3. \A p \in Handlers : req'[p].op \in {"bulk", "replayAll"} => req'[p] = req[p]
    BY <1>1, <1>2
  <2> QED  BY <2>2, <2>3 DEF IInv, TenantInv
\* A new attempt whose pair is not raced finds no open one, and none as young.
<1>11. ASSUME NEW a \in new, Pair(a) \notin raced'
       PROVE  /\ \A b \in attempts : Pair(b) = Pair(a) => b.status # "open" /\ b.at < t
              /\ \A p \in Handlers \ {r} : req[p].op = "bulk" => Pair(a) \notin req[p].pairs
  <2>1. /\ req[r].op = "bulk" /\ ~HidesNewer(req[r]) /\ pairs \subseteq req[r].pairs
        /\ pairs \cap Contested(r) \subseteq raced'
    BY <1>4, <1>11
  <2>2. Pair(a) \in req[r].pairs \ raced /\ Pair(a) \notin Contested(r)
    BY <1>4, <1>11, <2>1
  <2>3. \A p \in Handlers \ {r} : req[p].op = "bulk" => Pair(a) \notin req[p].pairs
    BY <2>2 DEF Contested
  <2> QED  BY <2>1, <2>2, <2>3 DEF IInv, OpenInv
<1>12. OpenInv'
  <2>1. ASSUME NEW a \in attempts', NEW b \in attempts',
               a.status = "open", Pair(a) = Pair(b), a.at < b.at, Pair(a) \notin raced'
        PROVE  FALSE
    <3>1. CASE a \in attempts /\ b \in attempts  BY <2>1, <3>1 DEF IInv, OpenInv
    <3>2. CASE b \in new /\ a \in attempts  BY <1>11, <2>1, <3>2
    <3>3. CASE a \in new /\ b \in attempts
      <4>1. b.at < t /\ a.at = t  BY <1>4, <1>11, <2>1, <3>3
      <4>2. a.at \in Nat /\ b.at \in Nat  BY <1>4, <3>3 DEF IInv, TypeInv, Attempt
      <4> QED  BY <2>1, <4>1, <4>2
    <3>4. CASE a \in new /\ b \in new
      <4>1. a = b  BY <1>4, <2>1, <3>4
      <4>2. a.at \in Nat  BY <1>4, <3>4 DEF Attempt
      <4> QED  BY <2>1, <4>1, <4>2
    <3> QED  BY <1>5, <3>1, <3>2, <3>3, <3>4
  <2>2. ASSUME NEW p \in Handlers, req'[p].op = "bulk", ~HidesNewer(req[p])',
               NEW a \in attempts', Pair(a) \in req'[p].pairs \ raced'
        PROVE  a.status # "open" /\ a.at < req'[p].time
    <3>1. p # r /\ req'[p] = req[p]  BY <1>1, <1>2, <2>2
    <3>2. ~HidesNewer(req[p])  BY <2>2, <3>1 DEF HidesNewer
    <3>3. a \in attempts  BY <1>5, <1>11, <2>2, <3>1
    <3> QED  BY <2>2, <3>1, <3>2, <3>3 DEF IInv, OpenInv
  <2> QED  BY <2>1, <2>2 DEF OpenInv
<1> QED  BY <1>7, <1>8, <1>9, <1>10, <1>12 DEF IInv

\* Done with nothing inserted.
LEMMA DoneKept ==
    ASSUME IInv, NEW r \in Handlers, req' = [req EXCEPT ![r] = Idle],
           UNCHANGED <<endpoint, subs, attempts, clock, calls>>,
           raced \subseteq raced', raced' \subseteq Events \X Endpoints
    PROVE  IInv'
<1>1. attempts' = attempts \cup Fresh({}, req[r].time)  BY FreshNothing
<1>2. {} \in SUBSET (Events \X Endpoints)  OBVIOUS
<1> QED  BY <1>1, <1>2, ReleaseKept

LEMMA CommitType ==
    ASSUME NEW q \in ReplayAll, NEW t \in Nat
    PROVE  [q EXCEPT !.at = "commit", !.time = t] \in ReplayAll
<1> DEFINE c == [q EXCEPT !.at = "commit"]
<1>1. c \in ReplayAll  BY DEF ReplayAll
<1> HIDE DEF c
<1>2. [c EXCEPT !.time = t] \in ReplayAll  BY <1>1 DEF ReplayAll
<1>3. [q EXCEPT !.at = "commit", !.time = t] = [c EXCEPT !.time = t]  BY DEF c
<1> QED  BY <1>2, <1>3

LEMMA BeginCreateKept ==
    ASSUME IInv, NEW r \in Handlers, BeginCreate(r)
    PROVE  IInv'
<1>1. UNCHANGED <<endpoint, subs, attempts, raced, calls>>  BY DEF BeginCreate, tables
<1>2. CASE req[r].chosen = {}
  <2>1. req' = [req EXCEPT ![r] = Idle] /\ UNCHANGED clock
    BY <1>2 DEF BeginCreate, Answer
  <2> QED  BY <1>1, <2>1, DoneKept DEF IInv, TypeInv
<1>3. CASE req[r].chosen # {}
  <2> DEFINE q == [req[r] EXCEPT !.at = "commit", !.time = Now]
  <2>1. req[r] \in ReplayAll /\ req[r].op = "replayAll" /\ req[r].at = "begin"
    BY IsReplayAll DEF BeginCreate, AtStep, IInv, TypeInv
  <2>2. clock' = clock + 1 /\ clock \in Nat /\ calls \in Nat
    BY <1>3 DEF BeginCreate, IInv, TypeInv
  <2>3. req' = [req EXCEPT ![r].at = "commit", ![r].time = Now]
    BY <1>3 DEF BeginCreate
  <2>4. q \in ReplayAll
    <3>1. Now \in Nat  BY <2>2 DEF Now
    <3> QED  BY <2>1, <3>1, CommitType
  <2>5. /\ q.op = "replayAll" /\ q.at = "commit" /\ q.time = clock + 1
        /\ q.event = req[r].event /\ q.chosen = req[r].chosen
    BY <2>1 DEF ReplayAll, Now
  <2>6. req' = [req EXCEPT ![r] = q]  BY <2>3 DEF IInv, TypeInv
  <2> HIDE DEF q
  <2>7. req'[r] = q /\ \A p \in Handlers \ {r} : req'[p] = req[p]
    BY <2>6 DEF IInv, TypeInv
  <2>8. TypeInv'
    <3>1. req' \in [Handlers -> {Idle} \cup ReplayAll \cup Bulk]
      BY <2>4, <2>6 DEF IInv, TypeInv
    <3> QED  BY <1>1, <2>2, <3>1 DEF IInv, TypeInv
  <2>9. ClockInv'
    <3>1. Waiting' = Waiting \ {r} /\ r \in Waiting  BY <2>1, <2>5, <2>7 DEF Waiting
    <3>2. IsFiniteSet(Waiting') /\ Cardinality(Waiting') = Cardinality(Waiting) - 1
      BY <3>1, FS_RemoveElement DEF IInv, ClockInv
    <3>3. Cardinality(Waiting) \in Nat  BY FS_CardinalityType DEF IInv, ClockInv
    <3> QED  BY <1>1, <2>2, <3>2, <3>3 DEF IInv, ClockInv
  <2>10. TimeInv'  BY <1>1, <2>2, <2>5, <2>7, TimeDrawn
  <2>11. TenantInv'
    BY <1>1, <2>1, <2>5, <2>7 DEF IInv, TenantInv, TenantsApart
  <2>12. OpenInv'
    <3>1. \A p \in Handlers : req'[p].op = "bulk" => p # r /\ req'[p] = req[p]
      BY <2>5, <2>7
    <3> QED  BY <1>1, <3>1 DEF IInv, OpenInv, HidesNewer
  <2> QED  BY <2>8, <2>9, <2>10, <2>11, <2>12 DEF IInv
<1> QED  BY <1>2, <1>3

LEMMA CreateAttemptsKept ==
    ASSUME IInv, NEW r \in Handlers, CreateAttempts(r)
    PROVE  IInv'
<1> DEFINE pairs == {req[r].event} \X req[r].chosen
<1>1. req[r] \in ReplayAll /\ req[r].op = "replayAll" /\ Timed(req[r])
  BY IsReplayAll DEF CreateAttempts, AtStep, Timed, IInv, TypeInv
<1>2. pairs \in SUBSET (Events \X Endpoints)  BY <1>1 DEF ReplayAll
<1>3. \A p \in pairs : AppOf[p[1]] = AppOf[p[2]]  BY <1>1 DEF IInv, TenantInv
<1>4. CommitPairs(r, pairs) /\ raced' = raced \cup pairs  BY DEF CreateAttempts
<1> HIDE DEF pairs
<1>5. UNCHANGED <<endpoint, subs, clock, calls>> /\ req' = [req EXCEPT ![r] = Idle]
  BY <1>4 DEF CommitPairs, Answer
<1>6. raced \subseteq raced' /\ raced' \subseteq Events \X Endpoints /\ pairs \subseteq raced'
  BY <1>2, <1>4 DEF IInv, TypeInv
<1>7. CASE attempts' = attempts \cup Fresh(pairs, req[r].time)
  BY <1>1, <1>2, <1>3, <1>5, <1>6, <1>7, ReleaseKept
<1>8. CASE UNCHANGED attempts  BY <1>5, <1>6, <1>8, DoneKept
<1> QED  BY <1>4, <1>7, <1>8 DEF CommitPairs

LEMMA BatchInsertKept ==
    ASSUME IInv, NEW r \in Handlers, BatchInsert(r)
    PROVE  IInv'
<1> DEFINE pairs == req[r].pairs
<1>1. req[r] \in Bulk /\ req[r].op = "bulk" /\ Timed(req[r])
  BY IsBulk DEF BatchInsert, AtStep, Timed, IInv, TypeInv
<1>2. pairs \in SUBSET (Events \X Endpoints)  BY <1>1 DEF Bulk
<1>3. \A p \in pairs : AppOf[p[1]] = AppOf[p[2]]  BY <1>1 DEF IInv, TenantInv
<1>4. CommitPairs(r, pairs)  BY DEF BatchInsert
<1>5. UNCHANGED <<endpoint, subs, clock, calls>> /\ req' = [req EXCEPT ![r] = Idle]
  BY <1>4 DEF CommitPairs, Answer
<1>6. raced' = raced \cup IF HidesNewer(req[r]) THEN pairs ELSE pairs \cap Contested(r)
  BY DEF BatchInsert
<1>7. raced \subseteq raced' /\ raced' \subseteq Events \X Endpoints
  BY <1>2, <1>6 DEF IInv, TypeInv
<1>8. pairs \subseteq raced' \/ (~HidesNewer(req[r]) /\ pairs \cap Contested(r) \subseteq raced')
  BY <1>6
<1>9. CASE attempts' = attempts \cup Fresh(pairs, req[r].time)
  BY <1>1, <1>2, <1>3, <1>5, <1>7, <1>8, <1>9, ReleaseKept
<1>10. CASE UNCHANGED attempts  BY <1>5, <1>7, <1>10, DoneKept
<1> QED  BY <1>4, <1>9, <1>10 DEF CommitPairs

-----------------------------------------------------------------------------
(* The theorems                                                            *)

LEMMA ReplayInit == Init => IInv
<1> SUFFICES ASSUME Init  PROVE IInv  OBVIOUS
<1> DEFINE pairs == {p \in Events \X Endpoints :
                       /\ AppOf[p[1]] = AppOf[p[2]]
                       /\ RecipientOf[p[2]] \in {Everyone, RecipientOf[p[1]]}}
<1>1. /\ attempts = Fresh(pairs, 0) /\ clock = 0 /\ calls = 0 /\ raced = {}
      /\ subs = Endpoints \X Names /\ endpoint = [e \in Endpoints |-> "active"]
      /\ req = [r \in Handlers |-> Idle]
  BY DEF Init
<1>2. pairs \in SUBSET (Events \X Endpoints) /\ \A p \in pairs : AppOf[p[1]] = AppOf[p[2]]
  OBVIOUS
<1> HIDE DEF pairs
<1>3. /\ attempts \subseteq Attempt
      /\ \A a \in attempts : Pair(a) \in pairs /\ a.at = 0
      /\ \A a, b \in attempts : Pair(a) = Pair(b) => a = b
  BY <1>1, <1>2, FreshType
<1>4. \A r \in Handlers : req[r].op # "bulk" /\ req[r].op # "replayAll" /\ ~Timed(req[r])
  BY <1>1 DEF Idle, Timed
<1>5. TypeInv  BY <1>1, <1>3, ReplayAssumption DEF TypeInv
<1>6. ClockInv
  <2>1. Waiting = {}  BY <1>4 DEF Waiting
  <2> QED  BY <1>1, <2>1, FS_EmptySet DEF ClockInv
<1>7. TimeInv  BY <1>1, <1>3, <1>4 DEF TimeInv
<1>8. TenantInv
  <2>1. \A a \in attempts : AppOf[a.event] = AppOf[a.endpoint]  BY <1>2, <1>3 DEF Pair
  <2> QED  BY <1>4, <2>1 DEF TenantInv, TenantsApart
<1>9. OpenInv
  <2>1. \A a, b \in attempts : ~(a.at < b.at)  BY <1>3
  <2> QED  BY <1>4, <2>1 DEF OpenInv
<1> QED  BY <1>5, <1>6, <1>7, <1>8, <1>9 DEF IInv

LEMMA ReplayStep == IInv /\ [Next]_vars => IInv'
<1> SUFFICES ASSUME IInv, [Next]_vars  PROVE IInv'  OBVIOUS
<1>1. CASE Environment  BY <1>1, EnvironmentKept
<1>2. ASSUME NEW app \in Apps, NEW a \in attempts, ManualRetry(app, a)  PROVE IInv'
  BY <1>2, ManualRetryKept
<1>3. ASSUME NEW r \in Handlers, NEW app \in Apps, NEW v \in Events,
             ReplayEvent(r, app, v) \/ ReplayFailedAttemptsByEvent(r, app, v)
      PROVE  IInv'
  BY <1>3, ReplayEventKept, ReplayFailedKept
<1>4. ASSUME NEW r \in Handlers, NEW app \in Apps, NEW f \in Filters, BatchReplay(r, app, f)
      PROVE  IInv'
  BY <1>4, BatchReplayKept
<1>5. ASSUME NEW r \in Handlers, BeginCreate(r)  PROVE IInv'  BY <1>5, BeginCreateKept
<1>6. ASSUME NEW r \in Handlers, CreateAttempts(r)  PROVE IInv'  BY <1>6, CreateAttemptsKept
<1>7. ASSUME NEW r \in Handlers, BatchInsert(r)  PROVE IInv'  BY <1>7, BatchInsertKept
<1>8. ASSUME NEW r \in Handlers, StatementFails(r)  PROVE IInv'
  BY <1>8, DoneKept DEF StatementFails, tables, IInv, TypeInv
<1>9. CASE UNCHANGED vars
  <2>1. UNCHANGED <<endpoint, subs, attempts, req, clock, raced, calls>>
    BY <1>9 DEF vars, tables
  <2>2. TypeInv'  BY <2>1 DEF IInv, TypeInv
  <2>3. Inherited /\ \A x, y \in attempts' : Pair(x) = Pair(y) /\ x.at = y.at => x = y
    BY <2>1 DEF Inherited, IInv, TimeInv
  <2>4. calls <= calls'  BY <2>1 DEF IInv, TypeInv
  <2> QED  BY <2>1, <2>2, <2>3, <2>4, RowsKept
<1>10. CASE Operators  BY <1>2, <1>3, <1>4, <1>5, <1>6, <1>7, <1>8, <1>10 DEF Operators
<1> QED  BY <1>1, <1>9, <1>10 DEF Next

\* The inductive invariant.
THEOREM ReplayInvariant == Spec => []IInv
  BY ReplayInit, ReplayStep, PTL DEF Spec

\* Rows and clock keep their shape; no two attempts of a pair share a time.
THEOREM ReplayTypes == Spec => []TypeOK
<1>1. IInv => TypeOK
  <2> SUFFICES ASSUME IInv  PROVE TypeOK  OBVIOUS
  <2>1. clock \in 0..MaxCalls
    <3>1. Cardinality(Waiting) \in Nat  BY FS_CardinalityType DEF IInv, ClockInv
    <3> QED  BY <3>1, ReplayAssumption DEF IInv, TypeInv, ClockInv
  <2>2. ASSUME NEW a \in attempts
        PROVE  a \in [event : Events, endpoint : Endpoints, status : Status, at : 0..clock]
    <3>1. a \in Attempt /\ a.at \in 0..clock
      BY DEF IInv, TypeInv, TimeInv, Attempt
    <3> QED  BY <3>1 DEF Attempt
  <2> QED  BY <2>1, <2>2 DEF TypeOK, IInv, TypeInv, TimeInv
<1> QED  BY <1>1, ReplayInvariant, PTL

\* No replay queues an event for an endpoint of another application, although the
\* endpoints are found by the name of a type that both may use.
THEOREM ReplayTenants == Spec => []TenantsApart
<1>1. IInv => TenantsApart  BY DEF IInv, TenantInv
<1> QED  BY <1>1, ReplayInvariant, PTL

\* However many operators replay at once and however often, plain bulk replays
\* that do not overlap queue nothing twice.
THEOREM ReplayQueuesOnce == Spec => []OneOpenUnlessRaced
<1>1. IInv => OneOpenUnlessRaced
  <2> SUFFICES ASSUME IInv, NEW a \in attempts, NEW b \in attempts, a.status = "open",
                      b.status = "open", Pair(a) = Pair(b), a # b
               PROVE  Pair(a) \in raced
    BY DEF OneOpenUnlessRaced
  <2>1. a.at \in Nat /\ b.at \in Nat  BY DEF IInv, TypeInv, Attempt
  <2>2. a.at # b.at  BY DEF IInv, TimeInv
  <2>3. a.at < b.at \/ b.at < a.at  BY <2>1, <2>2
  <2> QED  BY <2>3 DEF IInv, OpenInv
<1> QED  BY <1>1, ReplayInvariant, PTL

-----------------------------------------------------------------------------
(* A replay creates what it was asked to                                   *)

Answers == [op : {"none", "replayAll", "bulk", "replayFailed"}, code : {0, 200, 500}]

\* The pairs a request has read and is going to create attempts for.
Asked(q) == IF q.op = "bulk" THEN q.pairs ELSE {q.event} \X q.chosen

\* They lie between what it must and what it may replay, and as long as it runs
\* it has not been answered.
AskedOK(q, sp, ans) ==
    q # Idle => /\ ans.code # 200
                /\ sp.must \subseteq Asked(q)
                /\ Asked(q) \subseteq sp.may

AskedInv ==
    /\ answer \in [Handlers -> Answers]
    /\ \A r \in Handlers : AskedOK(req[r], span[r], answer[r])

\* While a request runs, what it must replay shrinks and what it may grows.
LEMMA SpanNarrows ==
    ASSUME Observe, NEW r \in Handlers, req[r] # Idle, req'[r] # Idle
    PROVE  span'[r].must \subseteq span[r].must /\ span[r].may \subseteq span'[r].may
  BY DEF Observe

LEMMA SpanBegins ==
    ASSUME Observe, NEW r \in Handlers, req[r] = Idle, req'[r] # Idle
    PROVE  span'[r].must = Must(req[r])' /\ span'[r].may = May(req[r])'
  BY DEF Observe

LEMMA AskedFrame ==
    ASSUME AskedInv, Observe, NEW r \in Handlers, req'[r] # Idle => req[r] # Idle,
           req'[r] # Idle => Asked(req'[r]) = Asked(req[r]),
           req'[r] # Idle => answer'[r] = answer[r]
    PROVE  AskedOK(req[r], span[r], answer[r])'
<1> SUFFICES ASSUME req'[r] # Idle
             PROVE  /\ answer'[r].code # 200
                    /\ span'[r].must \subseteq Asked(req'[r])
                    /\ Asked(req'[r]) \subseteq span'[r].may
  BY DEF AskedOK, Asked
<1>1. span'[r].must \subseteq span[r].must /\ span[r].may \subseteq span'[r].may
  BY SpanNarrows
<1>2. AskedOK(req[r], span[r], answer[r])
  BY DEF AskedInv
<1> QED
  BY <1>1, <1>2 DEF AskedOK

\* A step of one handler leaves the requests of the others as they were.
LEMMA AskedOne ==
    ASSUME AskedInv, Observe, NEW r \in Handlers,
           \A p \in Handlers \ {r} : req'[p] = req[p] /\ answer'[p] = answer[p],
           answer' \in [Handlers -> Answers],
           AskedOK(req[r], span[r], answer[r])'
    PROVE  AskedInv'
<1> SUFFICES ASSUME NEW p \in Handlers
             PROVE  AskedOK(req[p], span[p], answer[p])'
  BY DEF AskedInv
<1>1. CASE p = r
  BY <1>1
<1>2. CASE p # r
  <2>1. req'[p] = req[p] /\ answer'[p] = answer[p]
    BY <1>2
  <2> QED
    BY <2>1, AskedFrame
<1> QED
  BY <1>1, <1>2

\* A request that ends is no longer asked for anything.
LEMMA AskedFails ==
    ASSUME IInv, AskedInv, Observe, NEW r \in Handlers, req' = [req EXCEPT ![r] = Idle],
           UNCHANGED answer
    PROVE  AskedInv'
<1>1. req'[r] = Idle /\ \A p \in Handlers \ {r} : req'[p] = req[p]
  BY DEF IInv, TypeInv
<1>2. AskedOK(req[r], span[r], answer[r])'
  BY <1>1 DEF AskedOK
<1> QED
  BY <1>1, <1>2, AskedOne DEF AskedInv

LEMMA AskedAnswered ==
    ASSUME IInv, AskedInv, Observe, NEW r \in Handlers, req[r].op \in {"replayAll", "bulk"},
           NEW code \in {200, 500}, Answer(r, code)
    PROVE  AskedInv'
<1>1. /\ req' = [req EXCEPT ![r] = Idle]
      /\ answer' = [answer EXCEPT ![r] = [op |-> req[r].op, code |-> code]]
  BY DEF Answer
<1>2. req'[r] = Idle /\ \A p \in Handlers \ {r} : req'[p] = req[p]
  BY <1>1 DEF IInv, TypeInv
<1>3. [op |-> req[r].op, code |-> code] \in Answers
  BY DEF Answers
<1>4. answer' \in [Handlers -> Answers] /\ \A p \in Handlers \ {r} : answer'[p] = answer[p]
  BY <1>1, <1>3 DEF AskedInv
<1>5. AskedOK(req[r], span[r], answer[r])'
  BY <1>2 DEF AskedOK
<1> QED
  BY <1>2, <1>4, <1>5, AskedOne

LEMMA AskedUntouched ==
    ASSUME AskedInv, Observe, UNCHANGED <<req, answer>>
    PROVE  AskedInv'
  BY AskedFrame DEF AskedInv

\* A call that begins has read what it is asked for.
LEMMA AskedBegins ==
    ASSUME IInv, AskedInv, Observe, NEW r \in Handlers, NEW q, Begin(r, q), q # Idle,
           Must(req[r])' \subseteq Asked(q), Asked(q) \subseteq May(req[r])'
    PROVE  AskedInv'
<1>1. /\ req' = [req EXCEPT ![r] = q] /\ req[r] = Idle
      /\ answer' = [answer EXCEPT ![r] = NoAnswer]
  BY DEF Begin
<1>2. req'[r] = q /\ \A p \in Handlers \ {r} : req'[p] = req[p]
  BY <1>1 DEF IInv, TypeInv
<1>3. NoAnswer \in Answers /\ NoAnswer.code # 200
  BY DEF NoAnswer, Answers
<1>4. /\ answer' \in [Handlers -> Answers]
      /\ answer'[r] = NoAnswer /\ \A p \in Handlers \ {r} : answer'[p] = answer[p]
  BY <1>1, <1>3 DEF AskedInv
<1>5. span'[r].must = Must(req[r])' /\ span'[r].may = May(req[r])'
  BY <1>1, <1>2, SpanBegins
<1>6. AskedOK(req[r], span[r], answer[r])'
  BY <1>2, <1>3, <1>4, <1>5 DEF AskedOK, Asked
<1> QED
  BY <1>2, <1>4, <1>6, AskedOne

LEMMA AskedReplayEvent ==
    ASSUME IInv, AskedInv, Observe, NEW r \in Handlers, NEW app \in Apps, NEW v \in Events,
           ReplayEvent(r, app, v)
    PROVE  AskedInv'
<1> DEFINE found == GetSubscribedEndpoints(app, TypeOf[v], RecipientOf[v])
           q == [op |-> "replayAll", at |-> "begin", event |-> v, time |-> 0, chosen |-> found]
<1>1. Begin(r, q) /\ app = AppOf[v] /\ UNCHANGED <<endpoint, subs>>
  BY DEF ReplayEvent, GetEvent, tables
<1>2. found = {d \in Endpoints : /\ endpoint'[d] = "active" /\ AppOf[d] = AppOf[v]
                                 /\ RecipientOf[d] \in {Everyone, RecipientOf[v]}
                                 /\ <<d, TypeOf[v]>> \in subs'}
  BY <1>1 DEF GetSubscribedEndpoints
<1>3. q # Idle /\ q.op = "replayAll" /\ q.event = v /\ q.chosen = found
  BY DEF Idle
<1> HIDE DEF found, q
<1>4. req'[r] = q
  BY <1>1 DEF IInv, TypeInv, Begin
<1>5. Asked(q) = {v} \X found
  BY <1>3 DEF Asked
<1>6. Must(req[r])' = {v} \X found
  <2>1. Must(req[r])' = {<<v, e>> : e \in found}
    BY <1>2, <1>3, <1>4 DEF Must
  <2> QED
    BY <2>1
<1>7. May(req[r])' = Must(req[r])'
  BY <1>3, <1>4 DEF May, Must
<1> QED
  BY <1>1, <1>3, <1>5, <1>6, <1>7, AskedBegins

LEMMA AskedBatchReplay ==
    ASSUME IInv, AskedInv, Observe, NEW r \in Handlers, NEW app \in Apps, NEW f \in Filters,
           BatchReplay(r, app, f)
    PROVE  AskedInv'
<1> DEFINE q == [op |-> "bulk", at |-> "insert", app |-> app, filter |-> f,
                 pairs |-> ToReplay(app, f), time |-> Now]
<1>1. Begin(r, q) /\ UNCHANGED attempts
  BY DEF BatchReplay, tables
<1>2. q # Idle /\ q.op = "bulk" /\ q.app = app /\ q.filter = f /\ Asked(q) = ToReplay(app, f)
  BY DEF Idle, Asked
<1> HIDE DEF q
<1>3. req'[r] = q
  BY <1>1 DEF IInv, TypeInv, Begin
<1>4. Must(req[r])' = {Pair(a) : a \in {b \in Failed(attempts) \cap Selected(app, f) :
                         \A c \in attempts : Pair(c) = Pair(b) /\ c # b => c.at < b.at}}
  BY <1>1, <1>2, <1>3 DEF Must, Selected, Failed
<1>5. May(req[r])' = {Pair(a) : a \in Failed(Selected(app, f))}
  BY <1>1, <1>2, <1>3 DEF May, Selected, Failed
<1>6. Must(req[r])' \subseteq ToReplay(app, f)
  <2> SUFFICES ASSUME NEW b \in Failed(attempts) \cap Selected(app, f),
                      \A c \in attempts : Pair(c) = Pair(b) /\ c # b => c.at < b.at
               PROVE  Pair(b) \in ToReplay(app, f)
    BY <1>4
  <2>1. \A c \in Selected(app, f) : c \in attempts /\ c.at \in Nat
    BY DEF Selected, IInv, TypeInv, Attempt
  <2>2. b \in Latest(Selected(app, f))
    BY <2>1 DEF Latest
  <2>3. b \in Failed(Latest(Selected(app, f)))
    BY <2>2 DEF Failed
  <2> QED
    BY <2>3 DEF ToReplay
<1>7. ToReplay(app, f) \subseteq May(req[r])'
  BY <1>5 DEF ToReplay, Failed, Latest
<1> QED
  BY <1>1, <1>2, <1>6, <1>7, AskedBegins

LEMMA AskedBeginCreate ==
    ASSUME IInv, AskedInv, Observe, NEW r \in Handlers, BeginCreate(r)
    PROVE  AskedInv'
<1>1. req[r].op = "replayAll"
  BY DEF BeginCreate, AtStep
<1>2. CASE req[r].chosen = {}
  <2>1. Answer(r, 200)
    BY <1>2 DEF BeginCreate
  <2> QED
    BY <1>1, <2>1, AskedAnswered
<1>3. CASE req[r].chosen # {}
  <2>1. req' = [req EXCEPT ![r].at = "commit", ![r].time = Now] /\ UNCHANGED answer
    BY <1>3 DEF BeginCreate
  <2>2. req[r] \in ReplayAll
    BY <1>1, IsReplayAll DEF IInv, TypeInv
  <2>3. /\ req'[r].op = req[r].op /\ req'[r].event = req[r].event
        /\ req'[r].chosen = req[r].chosen
        /\ \A p \in Handlers \ {r} : req'[p] = req[p]
    BY <2>1, <2>2 DEF IInv, TypeInv, ReplayAll
  <2>4. Asked(req'[r]) = Asked(req[r]) /\ req[r] # Idle
    BY <1>1, <2>3 DEF Asked, Idle
  <2>5. AskedOK(req[r], span[r], answer[r])'
    BY <2>1, <2>4, AskedFrame
  <2> QED
    BY <2>1, <2>3, <2>5, AskedOne DEF AskedInv
<1> QED
  BY <1>2, <1>3

LEMMA AskedCommit ==
    ASSUME IInv, AskedInv, Observe, NEW r \in Handlers, CreateAttempts(r) \/ BatchInsert(r)
    PROVE  AskedInv'
<1>1. req[r].op \in {"replayAll", "bulk"} /\ \E pairs : CommitPairs(r, pairs)
  BY DEF CreateAttempts, BatchInsert, AtStep
<1>2. Answer(r, 200) \/ Answer(r, 500)
  BY <1>1 DEF CommitPairs
<1> QED
  BY <1>1, <1>2, AskedAnswered

\* The failed-only replay is answered at once.
LEMMA AskedFailedOnly ==
    ASSUME IInv, AskedInv, Observe, NEW r \in Handlers, NEW app \in Apps, NEW v \in Events,
           ReplayFailedAttemptsByEvent(r, app, v)
    PROVE  AskedInv'
<1> DEFINE a == [op |-> "replayFailed", code |-> 500]
<1>1. req[r] = Idle /\ UNCHANGED req /\ answer' = [answer EXCEPT ![r] = a]
  BY DEF ReplayFailedAttemptsByEvent
<1>2. a \in Answers
  BY DEF Answers
<1>3. answer' \in [Handlers -> Answers] /\ \A p \in Handlers \ {r} : answer'[p] = answer[p]
  BY <1>1, <1>2 DEF AskedInv
<1>4. AskedOK(req[r], span[r], answer[r])'
  BY <1>1 DEF AskedOK
<1> QED
  BY <1>1, <1>3, <1>4, AskedOne

LEMMA AskedNext == IInv /\ AskedInv /\ [Next]_vars => AskedInv'
<1> SUFFICES ASSUME IInv, AskedInv, [Next]_vars PROVE AskedInv'
  OBVIOUS
<1>1. ASSUME Environment, Observe PROVE AskedInv'
  <2>1. UNCHANGED <<req, answer>>
    BY <1>1 DEF Environment, Settle, SwitchEndpoint, Resubscribe, DeleteEndpoint, Change
  <2> QED
    BY <1>1, <2>1, AskedUntouched
<1>2. ASSUME Operators, Observe PROVE AskedInv'
  <2>1. ASSUME NEW app \in Apps, NEW a \in attempts, ManualRetry(app, a) PROVE AskedInv'
    BY <1>2, <2>1, AskedUntouched DEF ManualRetry
  <2>2. ASSUME NEW r \in Handlers, StatementFails(r) PROVE AskedInv'
    BY <1>2, <2>2, AskedFails DEF StatementFails
  <2> QED
    BY <1>2, <2>1, <2>2, AskedReplayEvent, AskedFailedOnly, AskedBatchReplay, AskedBeginCreate,
       AskedCommit DEF Operators
<1>3. ASSUME UNCHANGED vars PROVE AskedInv'
  BY <1>3 DEF vars, AskedInv, AskedOK, Asked, Idle
<1> QED
  BY <1>1, <1>2, <1>3 DEF Next

\* What a commit adds to the table is what its request has read.
LEMMA CommitCreates ==
    ASSUME IInv, NEW r \in Handlers, CreateAttempts(r) \/ BatchInsert(r), answer'[r].code = 200,
           answer \in [Handlers -> Answers]
    PROVE  {Pair(a) : a \in attempts' \ attempts} = Asked(req[r])
<1> DEFINE pairs == Asked(req[r])
           t == req[r].time
<1>1. CommitPairs(r, pairs) /\ Timed(req[r]) /\ req[r] \in ReplayAll \cup Bulk
  BY IsBulk, IsReplayAll
     DEF CreateAttempts, BatchInsert, AtStep, Asked, Timed, IInv, TypeInv
<1>2. pairs \in SUBSET (Events \X Endpoints) /\ t \in Nat
  BY <1>1 DEF ReplayAll, Bulk, Asked
<1> HIDE DEF pairs
<1>3. attempts' = attempts \cup Fresh(pairs, t)
  <2>1. CASE Answer(r, 500)
    BY <2>1 DEF Answer
  <2>2. CASE ~Answer(r, 500)
    BY <1>1, <2>2 DEF CommitPairs
  <2> QED
    BY <2>1, <2>2
<1>4. \A a \in Fresh(pairs, t) : a.at = t /\ a \notin attempts
  BY <1>1, <1>2, FreshType DEF IInv, TimeInv
<1>5. attempts' \ attempts = Fresh(pairs, t)
  BY <1>3, <1>4
<1>6. \A p \in pairs : \E a \in Fresh(pairs, t) : Pair(a) = p
  <2>1. ASSUME NEW p \in pairs
        PROVE  Pair([event |-> p[1], endpoint |-> p[2], status |-> "open", at |-> t]) = p
    BY <1>2 DEF Pair
  <2>2. ASSUME NEW p \in pairs
        PROVE  [event |-> p[1], endpoint |-> p[2], status |-> "open", at |-> t] \in Fresh(pairs, t)
    BY DEF Fresh
  <2> QED
    BY <2>1, <2>2
<1>7. \A a \in Fresh(pairs, t) : Pair(a) \in pairs
  BY <1>2, FreshType
<1> QED
  BY <1>5, <1>6, <1>7 DEF pairs

\* The step that answers 200 is the commit, or the end of a replay that found nobody
\* to replay to.
LEMMA AskedIsCreated ==
    ASSUME IInv, AskedInv, Next, NEW r \in Handlers,
           req[r].op \in {"replayAll", "bulk"}, req'[r] = Idle, answer'[r].code = 200
    PROVE  LET created == {Pair(a) : a \in attempts' \ attempts}
           IN  span[r].must \subseteq created /\ created \subseteq span[r].may
<1>1. /\ req[r] # Idle /\ answer[r].code # 200
      /\ span[r].must \subseteq Asked(req[r]) /\ Asked(req[r]) \subseteq span[r].may
  BY DEF AskedInv, AskedOK, Idle
<1>2. answer'[r] # answer[r] /\ req'[r] # req[r]
  BY <1>1
<1>3. ~(\E p \in Handlers \ {r}, code \in {200, 500} : Answer(p, code))
  BY <1>2 DEF Answer, AskedInv
<1>4. CreateAttempts(r) \/ BatchInsert(r) \/ BeginCreate(r)
  <2>1. ~Environment
    BY <1>2 DEF Environment, Settle, SwitchEndpoint, Resubscribe, DeleteEndpoint, Change
  <2>2. \A app \in Apps, a \in attempts : ~ManualRetry(app, a)
    BY <1>2 DEF ManualRetry
  <2>3. ASSUME NEW p \in Handlers
        PROVE  /\ \A app \in Apps, v \in Events : ~ReplayFailedAttemptsByEvent(p, app, v)
               /\ ~StatementFails(p)
    BY <1>2 DEF ReplayFailedAttemptsByEvent, StatementFails
  <2>4. ASSUME NEW p \in Handlers, NEW q, Begin(p, q) PROVE FALSE
    <3>1. p # r
      BY <1>1, <2>4 DEF Begin
    <3> QED
      BY <1>2, <2>4, <3>1 DEF Begin, IInv, TypeInv
  <2>5. ASSUME NEW p \in Handlers
        PROVE  /\ \A app \in Apps, v \in Events : ~ReplayEvent(p, app, v)
               /\ \A app \in Apps, f \in Filters : ~BatchReplay(p, app, f)
    BY <2>4 DEF ReplayEvent, BatchReplay
  <2>6. ASSUME NEW p \in Handlers \ {r} PROVE ~CreateAttempts(p) /\ ~BatchInsert(p)
    BY <1>3 DEF CreateAttempts, BatchInsert, CommitPairs
  <2>7. ASSUME NEW p \in Handlers \ {r} PROVE ~BeginCreate(p)
    BY <1>2, <1>3 DEF BeginCreate
  <2> QED
    BY <2>1, <2>2, <2>3, <2>5, <2>6, <2>7 DEF Next, Operators
<1>5. CASE CreateAttempts(r) \/ BatchInsert(r)
  BY <1>1, <1>5, CommitCreates DEF AskedInv
<1>6. CASE BeginCreate(r)
  <2>1. req[r].op = "replayAll" /\ UNCHANGED attempts
    BY <1>6 DEF BeginCreate, AtStep, tables
  <2>2. req[r].chosen = {}
    BY <1>2, <1>6 DEF BeginCreate
  <2>3. Asked(req[r]) = {}
    BY <2>1, <2>2 DEF Asked
  <2> QED
    BY <1>1, <2>1, <2>3
<1> QED
  BY <1>4, <1>5, <1>6

LEMMA AskedInit == Init => AskedInv
<1>1. NoAnswer \in Answers
  BY DEF NoAnswer, Answers
<1> QED
  BY <1>1 DEF Init, AskedInv, AskedOK

\* A replay that answers 200 has created attempts for exactly what it was asked to,
\* as far as that did not change while it ran, however many replays, retries and
\* changes of the catalogue run at the same time.
THEOREM ReplayAsked == Spec => ReplaysWhatWasAsked
<1>1. IInv /\ AskedInv /\ [Next]_vars =>
        [\A r \in Handlers :
           req[r].op \in {"replayAll", "bulk"} /\ req'[r] = Idle /\ answer'[r].code = 200
             => LET created == {Pair(a) : a \in attempts' \ attempts} IN
                /\ span[r].must \subseteq created
                /\ created \subseteq span[r].may]_vars
  BY AskedIsCreated
<1>2. Init => IInv /\ AskedInv
  BY ReplayInit, AskedInit
<1> QED
  BY <1>1, <1>2, ReplayStep, AskedNext, PTL DEF Spec, ReplaysWhatWasAsked
=============================================================================
