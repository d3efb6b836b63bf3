------------------------ MODULE DeliveryEngineProofs ------------------------
(***************************************************************************)
(* Theorems about DeliveryEngine, for every number of attempts, instances, *)
(* workers and every value of the bounds.                                  *)
(***************************************************************************)
EXTENDS DeliveryEngine, FiniteSetTheorems, TLAPS

-----------------------------------------------------------------------------
(* Lemmas about the data                                                   *)

\* LastNumber is a number an attempt can have, whatever MaxRetries is.
LEMMA LastNumberType == LastNumber \in Nat \ {0}
BY EngineAssumption DEF LastNumber

\* What the recorder writes is a row, and never one in processing.
LEMMA OutcomeType ==
    ASSUME NEW t \in Task, NEW r \in Result
    PROVE  /\ Outcome(t, r) \in Row
           /\ Outcome(t, r).status # "processing"
BY LastNumberType, EngineAssumption DEF Outcome, Row, Task, Result, DeliveryStatus, LastNumber

\* It is one of four, each under the condition the life cycle asks for.
LEMMA OutcomeIs ==
    ASSUME NEW t \in Task, NEW r \in Result
    PROVE  \/ /\ Outcome(t, r).status = "delivered" /\ Outcome(t, r).number = t.number
              /\ Outcome(t, r).due = TRUE
           \/ /\ Outcome(t, r).status = "failed" /\ Outcome(t, r).number = t.number
              /\ Outcome(t, r).due = TRUE
           \/ /\ Outcome(t, r).status = "dead_letter" /\ Outcome(t, r).number = t.number
              /\ Outcome(t, r).due = TRUE /\ t.number >= MaxRetries
           \/ /\ Outcome(t, r).status = "pending" /\ Outcome(t, r).number = t.number + 1
              /\ Outcome(t, r).due = FALSE /\ t.number < MaxRetries
<1>1. t.number \in Nat /\ MaxRetries \in Nat
  BY LastNumberType, EngineAssumption DEF Task
<1>2. CASE r = "success"
  BY <1>2 DEF Outcome
<1>3. CASE r = "permanent"
  BY <1>3 DEF Outcome
<1>4. CASE r = "retryable" /\ t.number >= MaxRetries
  BY <1>1, <1>4 DEF Outcome
<1>5. CASE r = "retryable" /\ t.number < MaxRetries
  <2>1. ~(t.number >= MaxRetries)
    BY <1>1, <1>5
  <2> QED
    BY <1>1, <1>5, <2>1 DEF Outcome
<1>6. t.number >= MaxRetries \/ t.number < MaxRetries
  BY <1>1
<1>7. r \in {"success", "permanent", "retryable"}
  BY DEF Result
<1> QED
  BY <1>2, <1>3, <1>4, <1>5, <1>6, <1>7

\* One delivery result keeps a consistent endpoint row consistent.
LEMMA HealthStep ==
    ASSUME NEW h \in Health, Consistent(h), NEW success \in BOOLEAN
    PROVE  /\ RecordDeliveryResult(h, success) \in Health
           /\ Consistent(RecordDeliveryResult(h, success))
BY MaxFailuresAssumption DEF Health, EndpointStatus, Consistent, RecordDeliveryResult,
       ResetStreak, CountFailure

\* The 2xx answers that die with a process are finitely many.
LEMMA ForgottenType ==
    ASSUME NEW i \in Instances, NEW a \in Attempts
    PROVE  Forgotten(i, a) \in Nat
<1> DEFINE W == {w \in Workers : /\ work[i][w].phase = "record"
                                 /\ work[i][w].task.attempt = a
                                 /\ work[i][w].result = "success"}
<1>1. IsFiniteSet(W)
  BY EngineAssumption, FS_Subset
<1>2. Cardinality(W) \in Nat
  BY <1>1, FS_CardinalityType
<1> QED
  BY <1>2 DEF Forgotten

-----------------------------------------------------------------------------
(* Type correctness.  The breaker is part of the invariant: that an active *)
(* row has fewer than MaxFailures failures is what keeps the counter in    *)
(* its range.                                                              *)

BreakerConsistent == \A e \in Endpoints : Consistent(health[e])

TypeInv == TypeOK /\ BreakerConsistent

LEMMA TypeInit == Init => TypeInv
<1> SUFFICES ASSUME Init PROVE TypeInv
  OBVIOUS
<1>1. NewRow \in Row
  BY LastNumberType DEF NewRow, Row, DeliveryStatus
<1>2. CleanSlate \in Health /\ Consistent(CleanSlate)
  BY MaxFailuresAssumption DEF CleanSlate, Health, EndpointStatus, Consistent
<1>3. BreakerConsistent
  BY <1>2 DEF Init, BreakerConsistent
<1> QED
  BY <1>1, <1>2, <1>3, EngineAssumption
  DEF Init, TypeInv, TypeOK, WorkerState

LEMMA TypeDispatcher ==
    ASSUME TypeInv, NEW i \in Instances, Dispatcher(i)
    PROVE  TypeInv'
<1> USE DEF TypeInv, TypeOK, BreakerConsistent, database, memory, history, bounds
<1>1. CASE BeginPoll(i)
  BY <1>1 DEF BeginPoll
<1>2. CASE DispatcherExit(i)
  BY <1>2 DEF DispatcherExit
<1>3. MarkProcessing => row' \in [Attempts -> Row]
  <2>1. \A r \in Row : [r EXCEPT !.status = "processing", !.stale = FALSE] \in Row
    BY DEF Row, DeliveryStatus
  <2> QED
    BY <2>1 DEF MarkProcessing
<1>4. CASE FetchAndClaimPending(i)
  <2>1. {[attempt |-> a, number |-> row[a].number] : a \in Claimed} \in SUBSET Task
    <3>1. \A a \in Claimed : a \in Attempts /\ row[a].number \in 1..LastNumber
      BY DEF Claimed, Row
    <3> QED
      BY <3>1 DEF Task
  <2> QED
    BY <1>3, <1>4, <2>1 DEF FetchAndClaimPending
<1>5. CASE ClaimFails(i)
  <2>1. faults' \in 0..MaxFaults
    BY <1>5, EngineAssumption DEF ClaimFails
  <2> QED
    BY <1>3, <1>5, <2>1 DEF ClaimFails
<1>6. CASE BeginSend(i)
  BY <1>6 DEF BeginSend
<1>7. CASE CollectRemaining(i)
  <2>1. {t.attempt : t \in batch[i]} \in SUBSET Attempts
    <3>1. \A t \in batch[i] : t.attempt \in Attempts
      BY DEF Task
    <3> QED
      BY <3>1
  <2> QED
    BY <1>7, <2>1 DEF CollectRemaining
<1>8. CASE Enqueue(i)
  <2>1. PICK t \in Next1(batch[i]) : /\ queue' = [queue EXCEPT ![i] = Append(@, t)]
                                     /\ batch' = [batch EXCEPT ![i] = @ \ {t}]
    BY <1>8 DEF Enqueue
  <2>2. t \in Task
    BY DEF Next1
  <2>3. queue' \in [Instances -> Seq(Task)]
    BY <2>1, <2>2
  <2>4. \A j \in Instances : Len(queue'[j]) <= QueueSize
    BY <1>8, <2>1, <2>2, EngineAssumption DEF Enqueue
  <2> QED
    BY <1>8, <2>1, <2>3, <2>4 DEF Enqueue
<1>9. CASE EnqueueFails(i)
  <2>1. \A t \in Next1(batch[i]) : t \in Task /\ t.attempt \in Attempts
    BY DEF Next1, Task
  <2> QED
    BY <1>9, <2>1 DEF EnqueueFails
<1>10. CASE RevertToPending(i)
  BY <1>10 DEF RevertToPending, Row, DeliveryStatus
<1>11. CASE RevertFails(i)
  <2>1. faults' \in 0..MaxFaults
    BY <1>11, EngineAssumption DEF RevertFails
  <2> QED
    BY <1>11, <2>1 DEF RevertFails
<1> QED
  BY <1>1, <1>2, <1>4, <1>5, <1>6, <1>7, <1>8, <1>9, <1>10, <1>11 DEF Dispatcher

LEMMA TypeWorker ==
    ASSUME TypeInv, NEW i \in Instances, NEW w \in Workers, Worker(i, w)
    PROVE  TypeInv'
<1> USE DEF TypeInv, TypeOK, BreakerConsistent, database, memory, history, bounds
<1>1. CASE TakeTask(i, w)
  <2>1. /\ Head(queue[i]) \in Task
        /\ Tail(queue[i]) \in Seq(Task)
        /\ Len(Tail(queue[i])) <= QueueSize
    BY <1>1, EngineAssumption DEF TakeTask
  <2> QED
    BY <1>1, <2>1 DEF TakeTask, WorkerState
<1>2. ASSUME NEW result \in Result, NEW unheard \in BOOLEAN,
             Deliver(i, w, result, unheard)
      PROVE  TypeInv'
  <2>1. work[i][w].task \in Task
    BY <1>2 DEF Deliver, WorkerState, IdleWorker
  <2>2. work' \in [Instances -> [Workers -> WorkerState]]
    BY <1>2, <2>1 DEF Deliver, WorkerState
  <2>3. PICK a \in Attempts : a = work[i][w].task.attempt
    BY <2>1 DEF Task
  <2>4. /\ accepted' = accepted \/ accepted' = [accepted EXCEPT ![a] = @ + 1]
        /\ lost' = lost \/ lost' = [lost EXCEPT ![a] = @ + 1]
        /\ after' = after \/ after' = [after EXCEPT ![a] = @ + 1]
        /\ UNCHANGED <<database, proc, disp, batch, unsent, queue, bounds>>
    BY <1>2, <2>3 DEF Deliver
  <2>5. ASSUME NEW f \in [Attempts -> Nat], NEW b \in Attempts
        PROVE  [f EXCEPT ![b] = @ + 1] \in [Attempts -> Nat]
    OBVIOUS
  <2>6. /\ accepted' \in [Attempts -> Nat]
        /\ lost' \in [Attempts -> Nat]
        /\ after' \in [Attempts -> Nat]
    <3>1. /\ [accepted EXCEPT ![a] = @ + 1] \in [Attempts -> Nat]
          /\ [lost EXCEPT ![a] = @ + 1] \in [Attempts -> Nat]
          /\ [after EXCEPT ![a] = @ + 1] \in [Attempts -> Nat]
      BY <2>5
    <3>2. accepted' \in [Attempts -> Nat]
      BY <2>4, <3>1
    <3>3. lost' \in [Attempts -> Nat] /\ after' \in [Attempts -> Nat]
      BY <2>4, <3>1
    <3> QED
      BY <3>2, <3>3
  <2> QED
    BY <2>2, <2>4, <2>6
<1>3. work[i][w].phase \in {"record", "health"} =>
        work[i][w].task \in Task /\ work[i][w].result \in Result
  BY DEF WorkerState, IdleWorker
<1>4. CASE RecordOutcome(i, w)
  <2>1. work[i][w].task \in Task /\ work[i][w].result \in Result
    BY <1>3, <1>4 DEF RecordOutcome
  <2>2. row' \in [Attempts -> Row]
    BY <1>4, <2>1, OutcomeType DEF RecordOutcome
  <2>3. work' \in [Instances -> [Workers -> WorkerState]]
    BY <1>4, <2>1 DEF RecordOutcome, WorkerState
  <2> QED
    BY <1>4, <2>2, <2>3 DEF RecordOutcome
<1>5. CASE RecordFails(i, w)
  <2>1. work[i][w].task \in Task /\ work[i][w].result \in Result
    BY <1>3, <1>5 DEF RecordFails
  <2> DEFINE t == work[i][w].task
             r == work[i][w].result
  <2>5. Outcome(t, r) \in Row /\ t.attempt \in Attempts
    BY <2>1, OutcomeType DEF Task
  <2>6. \/ row' = [row EXCEPT ![t.attempt] = Outcome(t, r)] /\ lost' = lost
        \/ row' = row /\ lost' = [lost EXCEPT ![t.attempt] = @ + 1]
        \/ row' = row /\ lost' = lost
    BY <1>5 DEF RecordFails, Forget
  <2> HIDE DEF t, r
  <2>2. row' \in [Attempts -> Row]
    BY <2>5, <2>6
  <2>3. lost' \in [Attempts -> Nat]
    BY <2>5, <2>6
  <2>4. faults' \in 0..MaxFaults
    BY <1>5, EngineAssumption DEF RecordFails
  <2> QED
    BY <1>5, <2>2, <2>3, <2>4 DEF RecordFails, WorkerState
<1>6. CASE UpdateHealth(i, w)
  <2>1. work[i][w].task \in Task
    BY <1>3, <1>6 DEF UpdateHealth
  <2> DEFINE e == EndpointOf[work[i][w].task.attempt]
             h == RecordDeliveryResult(health[e], work[i][w].result = "success")
  <2>2. e \in Endpoints
    BY <2>1, EngineAssumption DEF Task
  <2>3. h \in Health /\ Consistent(h)
    BY <2>2, HealthStep
  <2>4. health' = health \/ health' = [health EXCEPT ![e] = h]
    BY <1>6, <2>2 DEF UpdateHealth
  <2> HIDE DEF h, e
  <2>5. health' \in [Endpoints -> Health] /\ BreakerConsistent'
    BY <2>2, <2>3, <2>4
  <2> QED
    BY <1>6, <2>5 DEF UpdateHealth, WorkerState
<1>7. CASE HealthFails(i, w)
  <2>1. faults' \in 0..MaxFaults
    BY <1>7, EngineAssumption DEF HealthFails
  <2> QED
    BY <1>7, <2>1 DEF HealthFails, WorkerState
<1>8. CASE RecordFindsNoRow(i, w)
  <2>1. work[i][w].task \in Task
    BY <1>3, <1>8 DEF RecordFindsNoRow
  <2> DEFINE b == work[i][w].task.attempt
  <2>2. b \in Attempts
    BY <2>1 DEF Task
  <2>3. lost' = lost \/ lost' = [lost EXCEPT ![b] = @ + 1]
    BY <1>8 DEF RecordFindsNoRow, Forget
  <2> HIDE DEF b
  <2>4. lost' \in [Attempts -> Nat]
    BY <2>2, <2>3
  <2> QED
    BY <1>8, <2>4 DEF RecordFindsNoRow, WorkerState
<1> QED
  BY <1>1, <1>2, <1>4, <1>5, <1>6, <1>7, <1>8 DEF Worker

LEMMA TypeProcess ==
    ASSUME TypeInv, NEW i \in Instances, Process(i)
    PROVE  TypeInv'
<1> USE DEF TypeInv, TypeOK, BreakerConsistent, database, memory, history, bounds
<1>1. CASE StopSignal(i)
  <2>1. stops' \in 0..MaxStops
    BY <1>1, EngineAssumption DEF StopSignal
  <2> QED
    BY <1>1, <2>1 DEF StopSignal
<1>2. CASE ClosePool(i)
  BY <1>2 DEF ClosePool
<1>3. CASE Exit(i)
  BY <1>3 DEF Exit
<1>4. CASE Kill(i)
  <2>1. faults' \in 0..MaxFaults
    BY <1>4, EngineAssumption DEF Kill
  <2>2. lost' \in [Attempts -> Nat]
    BY <1>4, ForgottenType DEF Kill
  <2>3. work' \in [Instances -> [Workers -> WorkerState]]
    BY <1>4 DEF Kill, WorkerState
  <2>4. queue' \in [Instances -> Seq(Task)]
        /\ \A j \in Instances : Len(queue'[j]) <= QueueSize
    BY <1>4, EngineAssumption DEF Kill
  <2> QED
    BY <1>4, <2>1, <2>2, <2>3, <2>4 DEF Kill
<1>5. CASE Boot(i)
  BY <1>5 DEF Boot
<1> QED
  BY <1>1, <1>2, <1>3, <1>4, <1>5 DEF Process

LEMMA TypeEnvironment ==
    ASSUME TypeInv, Environment
    PROVE  TypeInv'
<1> USE DEF TypeInv, TypeOK, BreakerConsistent, database, memory, history, bounds
<1>1. ASSUME NEW a \in Attempts, BackoffElapses(a) PROVE TypeInv'
  BY <1>1 DEF BackoffElapses, Row
<1>2. ASSUME NEW a \in Attempts, GoStale(a) PROVE TypeInv'
  <2>1. overruns' \in 0..MaxOverruns
    BY <1>2, EngineAssumption DEF GoStale
  <2> QED
    BY <1>2, <2>1 DEF GoStale, Row
<1>3. ASSUME NEW a \in Attempts, ManualRetry(a) PROVE TypeInv'
  <2>1. operator' \in 0..MaxOperator
    BY <1>3, EngineAssumption DEF ManualRetry
  <2>2. NewRow \in Row
    BY LastNumberType DEF NewRow, Row, DeliveryStatus
  <2> QED
    BY <1>3, <2>1, <2>2 DEF ManualRetry
<1>4. ASSUME NEW e \in Endpoints, NEW h \in Health, PatchEndpoint(e, h) PROVE TypeInv'
  <2>1. operator' \in 0..MaxOperator
    BY <1>4, EngineAssumption DEF PatchEndpoint
  <2> QED
    BY <1>4, <2>1 DEF PatchEndpoint
<1>5. ASSUME NEW e \in Endpoints, DeleteEndpoint(e) PROVE TypeInv'
  <2>1. operator' \in 0..MaxOperator
    BY <1>5, EngineAssumption DEF DeleteEndpoint
  <2> QED
    BY <1>5, <2>1 DEF DeleteEndpoint
<1> QED
  BY <1>1, <1>2, <1>3, <1>4, <1>5 DEF Environment

\* Type correctness: the attempt_number stays within its bound, the channel
\* within its capacity and the count of failures within the breaker's threshold,
\* through every interleaving of instances, crashes and operators.
THEOREM EngineTypes == Spec => []TypeOK
<1>1. Init => TypeInv
  BY TypeInit
<1>2. TypeInv /\ [Next]_vars => TypeInv'
  <2> SUFFICES ASSUME TypeInv, [Next]_vars PROVE TypeInv'
    OBVIOUS
  <2>1. CASE Next
    BY <2>1, TypeDispatcher, TypeWorker, TypeProcess, TypeEnvironment DEF Next
  <2>2. CASE UNCHANGED vars
    BY <2>2 DEF TypeInv, TypeOK, BreakerConsistent, vars, database, memory,
                history, bounds
  <2> QED
    BY <2>1, <2>2
<1> QED
  BY <1>1, <1>2, PTL DEF Spec, TypeInv

-----------------------------------------------------------------------------
(* One holder per attempt.  The invariant says where a task may be: in one *)
(* place of one instance, only while its row is in processing and young,   *)
(* and with the number the row has.  It is inductive when no task outlives *)
(* the five minutes (MaxOverruns = 0): then neither half of Claimable can  *)
(* be true of a row somebody holds.                                        *)

\* Within instance i, attempt a is in at most one place.
Once(i, a) ==
    /\ \A t, u \in batch[i] : t.attempt = a /\ u.attempt = a => t = u
    /\ InBatch(i, a) => ~InUnsent(i, a) /\ ~InQueue(i, a)
    /\ InUnsent(i, a) => ~InQueue(i, a)
    /\ \A w \in Workers :
         InWorker(i, w, a) => ~InBatch(i, a) /\ ~InUnsent(i, a) /\ ~InQueue(i, a)
    /\ \A k, l \in 1..Len(queue[i]) :
         queue[i][k].attempt = a /\ queue[i][l].attempt = a => k = l
    /\ \A v, w \in Workers : InWorker(i, v, a) /\ InWorker(i, w, a) => v = w

\* The tasks instance i has for attempt a carry the number of the row.
Carry(i, a) ==
    /\ \A t \in batch[i] : t.attempt = a => t.number = row[a].number
    /\ \A k \in 1..Len(queue[i]) :
         queue[i][k].attempt = a => queue[i][k].number = row[a].number
    /\ \A w \in Workers :
         InWorker(i, w, a) => work[i][w].task.number = row[a].number

Young(i, a) ==
    HeldBy(i, a) => row[a].status = "processing" /\ ~row[a].stale

Alone == \A i, j \in Instances, a \in Attempts :
            HeldBy(i, a) /\ HeldBy(j, a) => i = j

\* Between batches the dispatcher holds nothing, and once the pool is closed it
\* has returned.
Quiet ==
    \A i \in Instances :
        /\ disp[i] \in {"poll", "fetch", "exited"} => batch[i] = {} /\ unsent[i] = {}
        /\ proc[i] \in {"draining", "down"} => disp[i] = "exited"

Exclusive ==
    /\ Alone
    /\ \A i \in Instances, a \in Attempts : Once(i, a) /\ Carry(i, a) /\ Young(i, a)

SafeInv == TypeInv /\ Quiet /\ Exclusive

\* An instance whose memory is untouched holds what it held.
LEMMA Frame ==
    ASSUME NEW j \in Instances,
           batch'[j] = batch[j], unsent'[j] = unsent[j],
           queue'[j] = queue[j], work'[j] = work[j],
           NEW a \in Attempts
    PROVE  /\ HeldBy(j, a)' <=> HeldBy(j, a)
           /\ Once(j, a)' <=> Once(j, a)
           /\ row'[a] = row[a] => (Carry(j, a)' <=> Carry(j, a))
           /\ ~HeldBy(j, a) => Carry(j, a)'
BY DEF HeldBy, Once, Carry, InBatch, InUnsent, InQueue, InWorker

\* A step of instance i that moves its own tasks about, claims nothing, and
\* leaves alone the rows that are still held afterwards.
LEMMA LocalStep ==
    ASSUME Exclusive, NEW i \in Instances,
           \A j \in Instances \ {i} :
              /\ batch'[j] = batch[j] /\ unsent'[j] = unsent[j]
              /\ queue'[j] = queue[j] /\ work'[j] = work[j],
           \A a \in Attempts :
              /\ HeldBy(i, a)' => HeldBy(i, a)
              /\ Once(i, a)'
              /\ Carry(i, a)',
           \A j \in Instances, a \in Attempts : HeldBy(j, a)' => row'[a] = row[a]
    PROVE  Exclusive'
<1>1. \A j \in Instances \ {i}, a \in Attempts :
         /\ HeldBy(j, a)' <=> HeldBy(j, a)
         /\ Once(j, a)' <=> Once(j, a)
         /\ row'[a] = row[a] => (Carry(j, a)' <=> Carry(j, a))
         /\ ~HeldBy(j, a) => Carry(j, a)'
  BY Frame
<1>2. \A j \in Instances, a \in Attempts : HeldBy(j, a)' => HeldBy(j, a)
  BY <1>1
<1>3. Alone'
  BY <1>2 DEF Exclusive, Alone
<1>4. ASSUME NEW j \in Instances, NEW a \in Attempts
      PROVE  (Once(j, a) /\ Carry(j, a) /\ Young(j, a))'
  <2>1. Young(j, a)'
    BY <1>2 DEF Exclusive, Young
  <2>2. CASE j = i
    BY <2>1, <2>2
  <2>3. CASE j # i
    <3>1. Once(j, a)'
      BY <1>1, <2>3 DEF Exclusive
    <3>2. Carry(j, a)'
      <4>1. CASE HeldBy(j, a)
        <5>1. row'[a] = row[a]
          BY <1>1, <2>3, <4>1
        <5> QED
          BY <1>1, <2>3, <5>1 DEF Exclusive
      <4>2. CASE ~HeldBy(j, a)
        BY <1>1, <2>3, <4>2
      <4> QED
        BY <4>1, <4>2
    <3> QED
      BY <2>1, <3>1, <3>2
  <2> QED
    BY <2>2, <2>3
<1> QED
  BY <1>3, <1>4 DEF Exclusive

\* A step that touches no memory and no row that is held.
LEMMA DatabaseStep ==
    ASSUME Exclusive, UNCHANGED <<batch, unsent, queue, work>>,
           \A j \in Instances, a \in Attempts : HeldBy(j, a) => row'[a] = row[a]
    PROVE  Exclusive'
<1>1. \A j \in Instances, a \in Attempts :
         /\ HeldBy(j, a)' <=> HeldBy(j, a)
         /\ Once(j, a)' <=> Once(j, a)
         /\ row'[a] = row[a] => (Carry(j, a)' <=> Carry(j, a))
         /\ ~HeldBy(j, a) => Carry(j, a)'
  BY Frame
<1>2. Alone'
  BY <1>1 DEF Exclusive, Alone
<1>3. \A j \in Instances, a \in Attempts : Once(j, a)' /\ Carry(j, a)'
  BY <1>1 DEF Exclusive
<1>4. \A j \in Instances, a \in Attempts : Young(j, a)'
  BY <1>1 DEF Exclusive, Young
<1> QED
  BY <1>2, <1>3, <1>4 DEF Exclusive

-----------------------------------------------------------------------------
(* The steps of a dispatcher                                               *)

LEMMA ClaimStep ==
    ASSUME SafeInv, NEW i \in Instances, FetchAndClaimPending(i)
    PROVE  Exclusive'
<1>1. \A a \in Claimed : a \in Attempts /\ Claimable(a)
  BY DEF Claimed
<1>2. \A j \in Instances, a \in Attempts : HeldBy(j, a) => a \notin Claimed
  BY <1>1 DEF SafeInv, Exclusive, Young, Claimable
<1>3. /\ batch[i] = {} /\ unsent[i] = {}
      /\ batch'[i] = {[attempt |-> a, number |-> row[a].number] : a \in Claimed}
      /\ \A j \in Instances \ {i} : batch'[j] = batch[j]
      /\ UNCHANGED <<unsent, queue, work>>
  BY DEF FetchAndClaimPending, SafeInv, Quiet, TypeInv, TypeOK
<1>4. \A a \in Attempts :
         row'[a] = IF a \in Claimed
                   THEN [row[a] EXCEPT !.status = "processing", !.stale = FALSE]
                   ELSE row[a]
  BY DEF FetchAndClaimPending, MarkProcessing
<1>5. \A a \in Attempts : row[a] \in Row
  BY DEF SafeInv, TypeInv, TypeOK
<1>6. \A a \in Claimed : /\ row'[a].status = "processing" /\ ~row'[a].stale
                         /\ row'[a].number = row[a].number
  BY <1>1, <1>4, <1>5 DEF Row
<1>7. \A j \in Instances \ {i}, a \in Attempts :
         /\ HeldBy(j, a)' <=> HeldBy(j, a)
         /\ Once(j, a)' <=> Once(j, a)
         /\ row'[a] = row[a] => (Carry(j, a)' <=> Carry(j, a))
         /\ ~HeldBy(j, a) => Carry(j, a)'
  <2>1. \A j \in Instances \ {i} :
          /\ batch'[j] = batch[j] /\ unsent'[j] = unsent[j]
          /\ queue'[j] = queue[j] /\ work'[j] = work[j]
    BY <1>3
  <2> QED
    BY <2>1, Frame
<1>8. ASSUME NEW a \in Attempts PROVE InBatch(i, a)' <=> a \in Claimed
  <2>1. ASSUME a \in Claimed PROVE InBatch(i, a)'
    <3>1. [attempt |-> a, number |-> row[a].number] \in batch'[i]
      BY <1>3, <2>1
    <3> QED
      BY <3>1 DEF InBatch
  <2>2. ASSUME NEW t \in batch'[i], t.attempt = a PROVE a \in Claimed
    BY <1>3, <2>2
  <2> QED
    BY <2>1, <2>2 DEF InBatch
<1>9. \A a \in Attempts : HeldBy(i, a)' <=> HeldBy(i, a) \/ a \in Claimed
  BY <1>3, <1>8 DEF HeldBy, InBatch, InUnsent, InQueue, InWorker
<1>10. Alone'
  BY <1>2, <1>7, <1>9 DEF SafeInv, Exclusive, Alone
<1>11. ASSUME NEW a \in Attempts PROVE Once(i, a)' /\ Carry(i, a)'
  <2>1. CASE a \in Claimed
    <3>1. ~HeldBy(i, a)
      BY <1>2, <2>1
    <3>2. \A t \in batch'[i] : t.attempt = a => t = [attempt |-> a, number |-> row'[a].number]
      BY <1>3, <1>6, <2>1
    <3> QED
      BY <1>3, <3>1, <3>2
      DEF HeldBy, Once, Carry, InBatch, InUnsent, InQueue, InWorker
  <2>2. CASE a \notin Claimed
    <3>1. ~InBatch(i, a)' /\ ~InBatch(i, a) /\ row'[a] = row[a]
      BY <1>3, <1>4, <1>8, <2>2 DEF InBatch
    <3> QED
      BY <1>3, <3>1
      DEF SafeInv, Exclusive, HeldBy, Once, Carry, InBatch, InUnsent, InQueue, InWorker
  <2> QED
    BY <2>1, <2>2
<1>12. ASSUME NEW j \in Instances \ {i}, NEW a \in Attempts PROVE Once(j, a)' /\ Carry(j, a)'
  <2>1. HeldBy(j, a) => row'[a] = row[a]
    BY <1>2, <1>4
  <2> QED
    BY <1>7, <2>1 DEF SafeInv, Exclusive
<1>13. ASSUME NEW j \in Instances, NEW a \in Attempts PROVE Young(j, a)'
  <2>1. CASE a \in Claimed
    BY <1>6, <2>1 DEF Young
  <2>2. CASE a \notin Claimed
    BY <1>4, <1>7, <1>9, <2>2 DEF SafeInv, Exclusive, Young
  <2> QED
    BY <2>1, <2>2
<1> QED
  BY <1>10, <1>11, <1>12, <1>13 DEF Exclusive

\* A claim whose answer is lost: the rows are claimed by nobody.
LEMMA ClaimFailsStep ==
    ASSUME SafeInv, NEW i \in Instances, ClaimFails(i)
    PROVE  Exclusive'
<1>1. \A j \in Instances, a \in Attempts : HeldBy(j, a) => a \notin Claimed
  BY DEF SafeInv, Exclusive, Young, Claimed, Claimable
<1>2. \A j \in Instances, a \in Attempts : HeldBy(j, a) => row'[a] = row[a]
  BY <1>1 DEF ClaimFails, MarkProcessing
<1> QED
  BY <1>2, DatabaseStep DEF SafeInv, ClaimFails

LEMMA CollectStep ==
    ASSUME SafeInv, NEW i \in Instances, CollectRemaining(i)
    PROVE  Exclusive'
<1>1. /\ batch'[i] = {} /\ unsent'[i] = unsent[i] \cup {t.attempt : t \in batch[i]}
      /\ \A j \in Instances \ {i} : batch'[j] = batch[j] /\ unsent'[j] = unsent[j]
      /\ UNCHANGED <<row, queue, work>>
  BY DEF CollectRemaining, SafeInv, TypeInv, TypeOK, database
<1>2. \A a \in Attempts : /\ InUnsent(i, a)' <=> InUnsent(i, a) \/ InBatch(i, a)
                          /\ ~InBatch(i, a)'
  BY <1>1 DEF InBatch, InUnsent
<1>3. ASSUME NEW a \in Attempts
      PROVE  (HeldBy(i, a)' => HeldBy(i, a)) /\ Once(i, a)' /\ Carry(i, a)'
  <2>1. Once(i, a) /\ Carry(i, a)
    BY DEF SafeInv, Exclusive
  <2> QED
    BY <1>1, <1>2, <2>1 DEF HeldBy, Once, Carry, InQueue, InWorker
<1> QED
  BY <1>1, <1>3, LocalStep DEF SafeInv

LEMMA EnqueueStep ==
    ASSUME SafeInv, NEW i \in Instances, Enqueue(i)
    PROVE  Exclusive'
<1>1. PICK t \in batch[i] :
        /\ queue'[i] = Append(queue[i], t) /\ batch'[i] = batch[i] \ {t}
        /\ \A j \in Instances \ {i} : batch'[j] = batch[j] /\ queue'[j] = queue[j]
  BY DEF Enqueue, Next1, SafeInv, TypeInv, TypeOK
<1>2. UNCHANGED <<row, unsent, work>>
  BY DEF Enqueue, database
<1>3. t \in Task /\ queue[i] \in Seq(Task)
  BY DEF SafeInv, TypeInv, TypeOK
<1>4. /\ Len(queue'[i]) = Len(queue[i]) + 1
      /\ queue'[i][Len(queue[i]) + 1] = t
      /\ \A k \in 1..Len(queue[i]) : queue'[i][k] = queue[i][k]
      /\ Len(queue[i]) \in Nat
  BY <1>1, <1>3
<1>5. ASSUME NEW a \in Attempts
      PROVE  (HeldBy(i, a)' => HeldBy(i, a)) /\ Once(i, a)' /\ Carry(i, a)'
  <2>1. Once(i, a) /\ Carry(i, a)
    BY DEF SafeInv, Exclusive
  <2>2. /\ InQueue(i, a)' <=> InQueue(i, a) \/ t.attempt = a
        /\ InUnsent(i, a)' <=> InUnsent(i, a)
        /\ \A w \in Workers : InWorker(i, w, a)' <=> InWorker(i, w, a)
    BY <1>2, <1>4 DEF InQueue, InUnsent, InWorker
  <2>3. /\ InBatch(i, a)' => InBatch(i, a)
        /\ t.attempt = a => InBatch(i, a) /\ ~InBatch(i, a)'
    BY <1>1, <2>1 DEF Once, InBatch
  <2>4. HeldBy(i, a)' => HeldBy(i, a)
    BY <2>2, <2>3 DEF HeldBy
  <2>5. \A k, l \in 1..Len(queue'[i]) :
          queue'[i][k].attempt = a /\ queue'[i][l].attempt = a => k = l
    <3> SUFFICES ASSUME NEW k \in 1..Len(queue'[i]), NEW l \in 1..Len(queue'[i]),
                        queue'[i][k].attempt = a, queue'[i][l].attempt = a
                 PROVE  k = l
      OBVIOUS
    <3>1. CASE t.attempt = a
      <4>1. ~InQueue(i, a)
        BY <2>1, <2>3, <3>1 DEF Once
      <4> QED
        BY <1>4, <4>1 DEF InQueue
    <3>2. CASE t.attempt # a
      <4>1. k # Len(queue[i]) + 1 /\ l # Len(queue[i]) + 1
        BY <1>4, <3>2
      <4>2. k \in 1..Len(queue[i])
        BY <1>4, <4>1
      <4>3. l \in 1..Len(queue[i])
        BY <1>4, <4>1
      <4>4. queue[i][k].attempt = a /\ queue[i][l].attempt = a
        BY <1>4, <4>2, <4>3
      <4> QED
        BY <2>1, <4>2, <4>3, <4>4 DEF Once
    <3> QED
      BY <3>1, <3>2
  <2>6. \A s, u \in batch'[i] : s.attempt = a /\ u.attempt = a => s = u
    BY <1>1, <2>1 DEF Once
  <2>7. Once(i, a)'
    BY <2>1, <2>2, <2>3, <2>5, <2>6 DEF Once
  <2>8. Carry(i, a)'
    BY <1>1, <1>2, <1>4, <2>1, <2>2 DEF Carry
  <2> QED
    BY <2>4, <2>7, <2>8
<1> QED
  BY <1>1, <1>2, <1>5, LocalStep DEF SafeInv

LEMMA EnqueueFailsStep ==
    ASSUME SafeInv, NEW i \in Instances, EnqueueFails(i)
    PROVE  Exclusive'
<1>1. PICK t \in batch[i] :
        /\ unsent'[i] = unsent[i] \cup {t.attempt} /\ batch'[i] = batch[i] \ {t}
        /\ \A j \in Instances \ {i} : batch'[j] = batch[j] /\ unsent'[j] = unsent[j]
  BY DEF EnqueueFails, Next1, SafeInv, TypeInv, TypeOK
<1>2. UNCHANGED <<row, queue, work>>
  BY DEF EnqueueFails, database
<1>3. ASSUME NEW a \in Attempts
      PROVE  (HeldBy(i, a)' => HeldBy(i, a)) /\ Once(i, a)' /\ Carry(i, a)'
  <2>1. Once(i, a) /\ Carry(i, a)
    BY DEF SafeInv, Exclusive
  <2>2. /\ InUnsent(i, a)' <=> InUnsent(i, a) \/ t.attempt = a
        /\ InQueue(i, a)' <=> InQueue(i, a)
        /\ \A w \in Workers : InWorker(i, w, a)' <=> InWorker(i, w, a)
    BY <1>1, <1>2 DEF InQueue, InUnsent, InWorker
  <2>3. /\ InBatch(i, a)' => InBatch(i, a)
        /\ t.attempt = a => InBatch(i, a) /\ ~InBatch(i, a)'
    BY <1>1, <2>1 DEF Once, InBatch
  <2>4. HeldBy(i, a)' => HeldBy(i, a)
    BY <2>2, <2>3 DEF HeldBy
  <2>5. Once(i, a)'
    BY <1>1, <1>2, <2>1, <2>2, <2>3 DEF Once
  <2>6. Carry(i, a)'
    BY <1>1, <1>2, <2>1, <2>2 DEF Carry
  <2> QED
    BY <2>4, <2>5, <2>6
<1> QED
  BY <1>1, <1>2, <1>3, LocalStep DEF SafeInv

\* Handing back the rows that were not enqueued touches nobody's task, its own
\* included: an attempt in unsent is nowhere else.
LEMMA HandBackStep ==
    ASSUME SafeInv, NEW i \in Instances, RevertToPending(i) \/ RevertFails(i)
    PROVE  Exclusive'
<1>1. /\ unsent'[i] = {} /\ \A j \in Instances \ {i} : unsent'[j] = unsent[j]
      /\ UNCHANGED <<batch, queue, work>>
      /\ \A a \in Attempts : a \notin unsent[i] => row'[a] = row[a]
  BY DEF RevertToPending, RevertFails, SafeInv, TypeInv, TypeOK, database
<1>2. ASSUME NEW a \in Attempts
      PROVE  /\ HeldBy(i, a)' => HeldBy(i, a) /\ a \notin unsent[i]
             /\ Once(i, a)' /\ Carry(i, a)'
  <2>1. Once(i, a) /\ Carry(i, a)
    BY DEF SafeInv, Exclusive
  <2>2. /\ ~InUnsent(i, a)'
        /\ InBatch(i, a)' <=> InBatch(i, a)
        /\ InQueue(i, a)' <=> InQueue(i, a)
        /\ \A w \in Workers : InWorker(i, w, a)' <=> InWorker(i, w, a)
    BY <1>1 DEF InBatch, InUnsent, InQueue, InWorker
  <2>3. HeldBy(i, a)' => HeldBy(i, a) /\ a \notin unsent[i]
    BY <2>1, <2>2 DEF HeldBy, Once, InUnsent
  <2>4. Once(i, a)'
    BY <1>1, <2>1, <2>2 DEF Once
  <2>5. CASE a \in unsent[i]
    <3>1. ~InBatch(i, a) /\ ~InQueue(i, a) /\ \A w \in Workers : ~InWorker(i, w, a)
      BY <2>1, <2>5 DEF Once, InUnsent
    <3>2. Carry(i, a)'
      BY <1>1, <3>1 DEF Carry, InBatch, InQueue, InWorker
    <3> QED
      BY <2>3, <2>4, <3>2
  <2>6. CASE a \notin unsent[i]
    <3>1. row'[a] = row[a]
      BY <1>1, <2>6
    <3>2. Carry(i, a)'
      BY <1>1, <2>1, <3>1 DEF Carry, InWorker
    <3> QED
      BY <2>3, <2>4, <3>2
  <2> QED
    BY <2>5, <2>6
<1>3. ASSUME NEW j \in Instances \ {i}, NEW a \in Attempts, HeldBy(j, a)'
      PROVE  row'[a] = row[a]
  <2>1. HeldBy(j, a)
    BY <1>1, <1>3, Frame
  <2>2. a \notin unsent[i]
    BY <2>1 DEF SafeInv, Exclusive, Alone, HeldBy, InUnsent
  <2> QED
    BY <1>1, <2>2
<1>4. \A j \in Instances, a \in Attempts : HeldBy(j, a)' => row'[a] = row[a]
  BY <1>1, <1>2, <1>3
<1> QED
  BY <1>1, <1>2, <1>4, LocalStep DEF SafeInv

LEMMA SafeDispatcher ==
    ASSUME SafeInv, NEW i \in Instances, Dispatcher(i)
    PROVE  Exclusive'
<1>1. CASE BeginPoll(i) \/ DispatcherExit(i) \/ BeginSend(i)
  <2>1. UNCHANGED <<row, batch, unsent, queue, work>>
    BY <1>1 DEF BeginPoll, DispatcherExit, BeginSend, database
  <2> QED
    BY <2>1, DatabaseStep DEF SafeInv
<1> QED
  BY <1>1, ClaimStep, ClaimFailsStep, CollectStep, EnqueueStep,
     EnqueueFailsStep, HandBackStep DEF Dispatcher

-----------------------------------------------------------------------------
(* The steps of a worker                                                   *)

LEMMA TakeTaskStep ==
    ASSUME SafeInv, NEW i \in Instances, NEW w \in Workers, TakeTask(i, w)
    PROVE  Exclusive'
<1> DEFINE t == Head(queue[i])
<1>1. /\ queue'[i] = Tail(queue[i])
      /\ work'[i][w] = [phase |-> "deliver", task |-> t]
      /\ \A v \in Workers \ {w} : work'[i][v] = work[i][v]
      /\ \A j \in Instances \ {i} : queue'[j] = queue[j] /\ work'[j] = work[j]
  BY DEF TakeTask, SafeInv, TypeInv, TypeOK
<1>2. UNCHANGED <<row, batch, unsent>>
  BY DEF TakeTask, database
<1>3. queue[i] \in Seq(Task) /\ queue[i] # <<>> /\ work[i][w].phase = "idle"
  BY DEF TakeTask, SafeInv, TypeInv, TypeOK
<1>4. /\ Len(queue[i]) \in Nat \ {0}
      /\ Len(queue'[i]) = Len(queue[i]) - 1
      /\ queue[i][1] = t
      /\ \A k \in 1..Len(queue'[i]) : queue'[i][k] = queue[i][k + 1]
  BY <1>1, <1>3
<1>5. ASSUME NEW a \in Attempts
      PROVE  (HeldBy(i, a)' => HeldBy(i, a)) /\ Once(i, a)' /\ Carry(i, a)'
  <2>1. Once(i, a) /\ Carry(i, a)
    BY DEF SafeInv, Exclusive
  <2>2. /\ InBatch(i, a)' <=> InBatch(i, a)
        /\ InUnsent(i, a)' <=> InUnsent(i, a)
        /\ InWorker(i, w, a)' <=> t.attempt = a
        /\ \A v \in Workers \ {w} : InWorker(i, v, a)' <=> InWorker(i, v, a)
    BY <1>1, <1>2 DEF InBatch, InUnsent, InWorker
  <2>3. /\ InQueue(i, a)' => InQueue(i, a)
        /\ t.attempt = a => InQueue(i, a)
    BY <1>4 DEF InQueue
  <2>4. t.attempt = a => ~InQueue(i, a)'
    <3> SUFFICES ASSUME t.attempt = a, NEW k \in 1..Len(queue'[i]),
                        queue'[i][k].attempt = a
                 PROVE  FALSE
      BY DEF InQueue
    <3>1. /\ 1 \in 1..Len(queue[i]) /\ k + 1 \in 1..Len(queue[i]) /\ 1 # k + 1
          /\ queue[i][1].attempt = a /\ queue[i][k + 1].attempt = a
      BY <1>4
    <3> QED
      BY <2>1, <3>1 DEF Once
  <2>5. HeldBy(i, a)' => HeldBy(i, a)
    BY <2>2, <2>3 DEF HeldBy
  <2>6. \A k, l \in 1..Len(queue'[i]) :
          queue'[i][k].attempt = a /\ queue'[i][l].attempt = a => k = l
    <3> SUFFICES ASSUME NEW k \in 1..Len(queue'[i]), NEW l \in 1..Len(queue'[i]),
                        queue'[i][k].attempt = a, queue'[i][l].attempt = a
                 PROVE  k = l
      OBVIOUS
    <3>1. /\ k + 1 \in 1..Len(queue[i]) /\ l + 1 \in 1..Len(queue[i])
          /\ queue[i][k + 1].attempt = a /\ queue[i][l + 1].attempt = a
      BY <1>4
    <3>2. k + 1 = l + 1
      BY <2>1, <3>1 DEF Once
    <3> QED
      BY <3>2
  <2>7. Once(i, a)'
    <3>1. \A v \in Workers : InWorker(i, v, a)' =>
            ~InBatch(i, a)' /\ ~InUnsent(i, a)' /\ ~InQueue(i, a)'
      BY <2>1, <2>2, <2>3, <2>4 DEF Once
    <3>2. \A u, v \in Workers : InWorker(i, u, a)' /\ InWorker(i, v, a)' => u = v
      BY <2>1, <2>2, <2>3 DEF Once
    <3> QED
      BY <1>2, <2>1, <2>2, <2>3, <2>6, <3>1, <3>2 DEF Once
  <2>8. Carry(i, a)'
    <3>1. \A k \in 1..Len(queue'[i]) :
            queue'[i][k].attempt = a => queue'[i][k].number = row'[a].number
      <4> SUFFICES ASSUME NEW k \in 1..Len(queue'[i]), queue'[i][k].attempt = a
                   PROVE  queue'[i][k].number = row'[a].number
        OBVIOUS
      <4>1. k + 1 \in 1..Len(queue[i]) /\ queue'[i][k] = queue[i][k + 1]
        BY <1>4
      <4> QED
        BY <1>2, <2>1, <4>1 DEF Carry
    <3>2. t.attempt = a => t.number = row'[a].number
      BY <1>2, <1>4, <2>1 DEF Carry
    <3>3. \A v \in Workers :
            InWorker(i, v, a)' => work'[i][v].task.number = row'[a].number
      BY <1>1, <1>2, <2>1, <2>2, <3>2 DEF Carry
    <3> QED
      BY <1>2, <2>1, <3>1, <3>3 DEF Carry
  <2> QED
    BY <2>5, <2>7, <2>8
<1> QED
  BY <1>1, <1>2, <1>5, LocalStep DEF SafeInv

LEMMA DeliverStep ==
    ASSUME SafeInv, NEW i \in Instances, NEW w \in Workers,
           NEW result \in Result, NEW unheard \in BOOLEAN,
           Deliver(i, w, result, unheard)
    PROVE  Exclusive'
<1>1. /\ work[i][w].phase = "deliver"
      /\ work'[i][w] = [phase |-> "record", task |-> work[i][w].task, result |-> result]
      /\ \A v \in Workers \ {w} : work'[i][v] = work[i][v]
      /\ \A j \in Instances \ {i} : work'[j] = work[j]
  BY DEF Deliver, SafeInv, TypeInv, TypeOK
<1>2. UNCHANGED <<row, batch, unsent, queue>>
  BY DEF Deliver, database
<1>3. ASSUME NEW a \in Attempts
      PROVE  (HeldBy(i, a)' => HeldBy(i, a)) /\ Once(i, a)' /\ Carry(i, a)'
  <2>1. Once(i, a) /\ Carry(i, a)
    BY DEF SafeInv, Exclusive
  <2>2. /\ InBatch(i, a)' <=> InBatch(i, a)
        /\ InUnsent(i, a)' <=> InUnsent(i, a)
        /\ InQueue(i, a)' <=> InQueue(i, a)
        /\ \A v \in Workers : InWorker(i, v, a)' <=> InWorker(i, v, a)
    BY <1>1, <1>2 DEF InBatch, InUnsent, InQueue, InWorker
  <2>3. \A v \in Workers : InWorker(i, v, a) => work'[i][v].task = work[i][v].task
    BY <1>1
  <2> QED
    BY <1>2, <2>1, <2>2, <2>3 DEF HeldBy, Once, Carry
<1> QED
  BY <1>1, <1>2, <1>3, LocalStep DEF SafeInv

\* A worker lets go of its task, and if it writes a row it is the row of that
\* task: nobody else holds it.
LEMMA ReleaseStep ==
    ASSUME SafeInv, NEW i \in Instances, NEW w \in Workers,
           work[i][w].phase = "record",
           work'[i][w].phase \in {"idle", "health"},
           \A v \in Workers \ {w} : work'[i][v] = work[i][v],
           \A j \in Instances \ {i} : work'[j] = work[j],
           UNCHANGED <<batch, unsent, queue>>,
           \A a \in Attempts \ {work[i][w].task.attempt} : row'[a] = row[a]
    PROVE  Exclusive'
<1> DEFINE b == work[i][w].task.attempt
<1>1. ASSUME NEW a \in Attempts
      PROVE  /\ HeldBy(i, a)' => HeldBy(i, a) /\ a # b
             /\ Once(i, a)' /\ Carry(i, a)'
  <2>1. Once(i, a) /\ Carry(i, a)
    BY DEF SafeInv, Exclusive
  <2>2. /\ InBatch(i, a)' <=> InBatch(i, a)
        /\ InUnsent(i, a)' <=> InUnsent(i, a)
        /\ InQueue(i, a)' <=> InQueue(i, a)
        /\ ~InWorker(i, w, a)'
        /\ InWorker(i, w, a) <=> a = b
        /\ \A v \in Workers \ {w} : InWorker(i, v, a)' <=> InWorker(i, v, a)
    BY DEF InBatch, InUnsent, InQueue, InWorker
  <2>3. Once(i, a)'
    BY <2>1, <2>2 DEF Once
  <2>4. HeldBy(i, a)' => HeldBy(i, a) /\ a # b
    BY <2>1, <2>2 DEF HeldBy, Once
  <2>5. CASE a = b
    <3>1. ~InBatch(i, a) /\ ~InQueue(i, a) /\ \A v \in Workers : ~InWorker(i, v, a)'
      BY <2>1, <2>2, <2>5 DEF Once
    <3>2. Carry(i, a)'
      BY <3>1 DEF Carry, InBatch, InQueue
    <3> QED
      BY <2>3, <2>4, <3>2
  <2>6. CASE a # b
    <3>1. row'[a] = row[a]
      BY <2>6
    <3>2. Carry(i, a)'
      BY <2>1, <2>2, <3>1 DEF Carry
    <3> QED
      BY <2>3, <2>4, <3>2
  <2> QED
    BY <2>5, <2>6
<1>2. ASSUME NEW j \in Instances \ {i}, NEW a \in Attempts, HeldBy(j, a)'
      PROVE  row'[a] = row[a]
  <2>1. HeldBy(j, a)
    BY <1>2, Frame
  <2>2. HeldBy(i, b)
    BY DEF HeldBy, InWorker
  <2>3. a # b
    BY <2>1, <2>2 DEF SafeInv, Exclusive, Alone
  <2> QED
    BY <2>3
<1>3. \A j \in Instances, a \in Attempts : HeldBy(j, a)' => row'[a] = row[a]
  BY <1>1, <1>2
<1> HIDE DEF b
<1> QED
  BY <1>1, <1>3, LocalStep DEF SafeInv

LEMMA RecordStep ==
    ASSUME SafeInv, NEW i \in Instances, NEW w \in Workers,
           RecordOutcome(i, w) \/ RecordFindsNoRow(i, w) \/ RecordFails(i, w)
    PROVE  Exclusive'
<1>1. /\ work[i][w].phase = "record"
      /\ work'[i][w].phase \in {"idle", "health"}
      /\ \A v \in Workers \ {w} : work'[i][v] = work[i][v]
      /\ \A j \in Instances \ {i} : work'[j] = work[j]
  BY DEF RecordOutcome, RecordFindsNoRow, RecordFails, SafeInv, TypeInv, TypeOK,
         IdleWorker
<1>2. UNCHANGED <<batch, unsent, queue>>
  BY DEF RecordOutcome, RecordFindsNoRow, RecordFails
<1>3. \A a \in Attempts \ {work[i][w].task.attempt} : row'[a] = row[a]
  BY DEF RecordOutcome, RecordFindsNoRow, RecordFails, SafeInv, TypeInv, TypeOK,
         database
<1> QED
  BY <1>1, <1>2, <1>3, ReleaseStep

\* A worker that has recorded its outcome no longer holds the task.
LEMMA HealthStepSafe ==
    ASSUME SafeInv, NEW i \in Instances, NEW w \in Workers,
           UpdateHealth(i, w) \/ HealthFails(i, w)
    PROVE  Exclusive'
<1>1. /\ work[i][w].phase = "health"
      /\ work'[i][w].phase = "idle"
      /\ \A v \in Workers \ {w} : work'[i][v] = work[i][v]
      /\ \A j \in Instances \ {i} : work'[j] = work[j]
  BY DEF UpdateHealth, HealthFails, SafeInv, TypeInv, TypeOK, IdleWorker
<1>2. UNCHANGED <<row, batch, unsent, queue>>
  BY DEF UpdateHealth, HealthFails, database
<1>3. ASSUME NEW a \in Attempts
      PROVE  (HeldBy(i, a)' => HeldBy(i, a)) /\ Once(i, a)' /\ Carry(i, a)'
  <2>1. Once(i, a) /\ Carry(i, a)
    BY DEF SafeInv, Exclusive
  <2>2. /\ InBatch(i, a)' <=> InBatch(i, a)
        /\ InUnsent(i, a)' <=> InUnsent(i, a)
        /\ InQueue(i, a)' <=> InQueue(i, a)
        /\ \A v \in Workers : InWorker(i, v, a)' <=> InWorker(i, v, a)
    BY <1>1, <1>2 DEF InBatch, InUnsent, InQueue, InWorker
  <2>3. \A v \in Workers : InWorker(i, v, a) => work'[i][v] = work[i][v]
    BY <1>1 DEF InWorker
  <2> QED
    BY <1>2, <2>1, <2>2, <2>3 DEF HeldBy, Once, Carry
<1> QED
  BY <1>1, <1>2, <1>3, LocalStep DEF SafeInv

LEMMA SafeWorker ==
    ASSUME SafeInv, NEW i \in Instances, NEW w \in Workers, Worker(i, w)
    PROVE  Exclusive'
BY TakeTaskStep, DeliverStep, RecordStep, HealthStepSafe DEF Worker

-----------------------------------------------------------------------------
(* The steps of a process, of time and of operators                        *)

LEMMA KillStep ==
    ASSUME SafeInv, NEW i \in Instances, Kill(i)
    PROVE  Exclusive'
<1>1. /\ batch'[i] = {} /\ unsent'[i] = {} /\ queue'[i] = <<>>
      /\ \A w \in Workers : work'[i][w] = IdleWorker
      /\ \A j \in Instances \ {i} :
           /\ batch'[j] = batch[j] /\ unsent'[j] = unsent[j]
           /\ queue'[j] = queue[j] /\ work'[j] = work[j]
      /\ UNCHANGED row
  BY DEF Kill, SafeInv, TypeInv, TypeOK, database
<1>2. ASSUME NEW a \in Attempts
      PROVE  ~HeldBy(i, a)' /\ Once(i, a)' /\ Carry(i, a)'
  <2>1. /\ ~InBatch(i, a)' /\ ~InUnsent(i, a)' /\ ~InQueue(i, a)'
        /\ \A w \in Workers : ~InWorker(i, w, a)'
    BY <1>1 DEF InBatch, InUnsent, InQueue, InWorker, IdleWorker
  <2> QED
    BY <1>1, <2>1 DEF HeldBy, Once, Carry
<1> QED
  BY <1>1, <1>2, LocalStep DEF SafeInv

LEMMA SafeProcess ==
    ASSUME SafeInv, NEW i \in Instances, Process(i)
    PROVE  Exclusive'
<1>1. CASE StopSignal(i) \/ ClosePool(i) \/ Exit(i) \/ Boot(i)
  <2>1. UNCHANGED <<row, batch, unsent, queue, work>>
    BY <1>1 DEF StopSignal, ClosePool, Exit, Boot, database, memory
  <2> QED
    BY <2>1, DatabaseStep DEF SafeInv
<1> QED
  BY <1>1, KillStep DEF Process

\* No row that is held is waiting for its backoff, settled, or about to become
\* stale: this is where the five minutes matter.
LEMMA SafeEnvironment ==
    ASSUME MaxOverruns = 0, SafeInv, Environment
    PROVE  Exclusive'
<1>1. UNCHANGED <<batch, unsent, queue, work>>
  BY DEF Environment, BackoffElapses, GoStale, ManualRetry, PatchEndpoint,
         DeleteEndpoint, memory
<1>2. \A j \in Instances, a \in Attempts :
         HeldBy(j, a) => row[a].status = "processing" /\ Held(a)
  BY DEF SafeInv, Exclusive, Young, Held
<1>3. overruns = 0 /\ row \in [Attempts -> Row]
  BY DEF SafeInv, TypeInv, TypeOK
<1>4. ASSUME NEW j \in Instances, NEW a \in Attempts, HeldBy(j, a)
      PROVE  row'[a] = row[a]
  <2>1. \A b \in Attempts : BackoffElapses(b) => row'[a] = row[a]
    BY <1>2, <1>3, <1>4 DEF BackoffElapses
  <2>2. \A b \in Attempts : GoStale(b) => row'[a] = row[a]
    BY <1>2, <1>3, <1>4 DEF GoStale
  <2>3. \A b \in Attempts : ManualRetry(b) => row'[a] = row[a]
    BY <1>2, <1>3, <1>4 DEF ManualRetry
  <2>4. \A e \in Endpoints, h \in Health : PatchEndpoint(e, h) => row'[a] = row[a]
    BY DEF PatchEndpoint
  <2>5. \A e \in Endpoints : DeleteEndpoint(e) => row'[a] = row[a]
    BY DEF DeleteEndpoint
  <2> QED
    BY <2>1, <2>2, <2>3, <2>4, <2>5 DEF Environment
<1> QED
  BY <1>1, <1>4, DatabaseStep DEF SafeInv

-----------------------------------------------------------------------------
(* The dispatcher between batches, and the closing of the pool             *)

LEMMA QuietStep ==
    ASSUME TypeInv, Quiet, [Next]_vars
    PROVE  Quiet'
<1> USE DEF Quiet, TypeInv, TypeOK, database, memory, history, bounds
<1>1. ASSUME NEW i \in Instances, Dispatcher(i) PROVE Quiet'
  <2>1. CASE BeginPoll(i) \/ DispatcherExit(i) \/ BeginSend(i)
    BY <2>1 DEF BeginPoll, DispatcherExit, BeginSend
  <2>2. CASE FetchAndClaimPending(i)
    <3>1. Claimed = {} => batch'[i] = {}
      BY <2>2 DEF FetchAndClaimPending
    <3> QED
      BY <2>2, <3>1 DEF FetchAndClaimPending
  <2>3. CASE ClaimFails(i)
    BY <2>3 DEF ClaimFails
  <2>4. CASE CollectRemaining(i)
    BY <2>4 DEF CollectRemaining
  <2>5. CASE Enqueue(i)
    BY <2>5 DEF Enqueue
  <2>6. CASE EnqueueFails(i)
    BY <2>6 DEF EnqueueFails
  <2>7. CASE RevertToPending(i) \/ RevertFails(i)
    BY <2>7 DEF RevertToPending, RevertFails
  <2> QED
    BY <1>1, <2>1, <2>2, <2>3, <2>4, <2>5, <2>6, <2>7 DEF Dispatcher
<1>2. ASSUME NEW i \in Instances, Process(i) PROVE Quiet'
  <2>1. CASE StopSignal(i) \/ ClosePool(i) \/ Exit(i)
    BY <2>1 DEF StopSignal, ClosePool, Exit
  <2>2. CASE Kill(i)
    BY <2>2 DEF Kill
  <2>3. CASE Boot(i)
    BY <2>3 DEF Boot
  <2> QED
    BY <1>2, <2>1, <2>2, <2>3 DEF Process
<1>3. ASSUME NEW i \in Instances, NEW w \in Workers, Worker(i, w) PROVE Quiet'
  BY <1>3 DEF Worker, TakeTask, Deliver, RecordOutcome, RecordFindsNoRow,
              RecordFails, UpdateHealth, HealthFails
<1>4. CASE Environment
  BY <1>4 DEF Environment, BackoffElapses, GoStale, ManualRetry, PatchEndpoint,
              DeleteEndpoint
<1>5. CASE UNCHANGED vars
  BY <1>5 DEF vars
<1> QED
  BY <1>1, <1>2, <1>3, <1>4, <1>5 DEF Next

-----------------------------------------------------------------------------
(* The theorems                                                            *)

LEMMA SafeInit == Init => SafeInv
<1> SUFFICES ASSUME Init PROVE SafeInv
  OBVIOUS
<1>1. \A i \in Instances, a \in Attempts :
         /\ ~InBatch(i, a) /\ ~InUnsent(i, a) /\ ~InQueue(i, a)
         /\ \A w \in Workers : ~InWorker(i, w, a)
  BY DEF Init, InBatch, InUnsent, InQueue, InWorker, IdleWorker
<1>2. Exclusive
  BY <1>1 DEF Init, Exclusive, Alone, Once, Carry, Young, HeldBy
<1>3. Quiet
  BY DEF Init, Quiet
<1> QED
  BY <1>2, <1>3, TypeInit DEF SafeInv

LEMMA SafeNext ==
    ASSUME MaxOverruns = 0, SafeInv, [Next]_vars
    PROVE  SafeInv'
<1>1. CASE Next
  <2>1. TypeInv'
    BY <1>1, TypeDispatcher, TypeWorker, TypeProcess, TypeEnvironment
    DEF Next, SafeInv
  <2>2. Exclusive'
    BY <1>1, SafeDispatcher, SafeWorker, SafeProcess, SafeEnvironment DEF Next
  <2> QED
    BY <2>1, <2>2, QuietStep DEF SafeInv
<1>2. CASE UNCHANGED vars
  <2>1. TypeInv'
    BY <1>2 DEF SafeInv, TypeInv, TypeOK, BreakerConsistent, vars, database,
                memory, history, bounds
  <2>2. Exclusive'
    BY <1>2, DatabaseStep DEF SafeInv, vars, database, memory
  <2> QED
    BY <2>1, <2>2, QuietStep DEF SafeInv
<1> QED
  BY <1>1, <1>2

\* A place that holds an attempt belongs to an instance that holds it.
LEMMA HoldersOnce == SafeInv => HeldOnce
<1> SUFFICES ASSUME SafeInv, NEW a \in Attempts,
                    NEW p \in Holders(a), NEW q \in Holders(a)
             PROVE  p = q
  BY DEF HeldOnce
<1> DEFINE At(x) ==
      \/ \E i \in Instances : x = <<i, "batch", 0>> /\ InBatch(i, a)
      \/ \E i \in Instances : x = <<i, "unsent", 0>> /\ InUnsent(i, a)
      \/ \E i \in Instances : \E k \in 1..Len(queue[i]) :
           x = <<i, "queue", k>> /\ queue[i][k].attempt = a
      \/ \E i \in Instances : \E w \in Workers :
           x = <<i, "worker", w>> /\ InWorker(i, w, a)
<1>1. ASSUME NEW x \in Holders(a) PROVE At(x)
  <2>1. CASE x \in {<<i, "batch", 0>> : i \in {j \in Instances : InBatch(j, a)}}
    BY <2>1
  <2>2. CASE x \in {<<i, "unsent", 0>> : i \in {j \in Instances : InUnsent(j, a)}}
    BY <2>2
  <2>3. CASE x \in {y \in Instances \X {"queue"} \X (1..QueueSize) :
                      y[3] <= Len(queue[y[1]]) /\ queue[y[1]][y[3]].attempt = a}
    <3>1. /\ x = <<x[1], "queue", x[3]>> /\ x[1] \in Instances
          /\ x[3] \in 1..QueueSize /\ x[3] <= Len(queue[x[1]])
          /\ queue[x[1]][x[3]].attempt = a
      BY <2>3
    <3>2. Len(queue[x[1]]) \in Nat
      BY <3>1 DEF SafeInv, TypeInv, TypeOK
    <3>3. x[3] \in 1..Len(queue[x[1]])
      BY <3>1, <3>2, EngineAssumption
    <3> QED
      BY <3>1, <3>3
  <2>4. CASE x \in {y \in Instances \X {"worker"} \X Workers : InWorker(y[1], y[3], a)}
    <3>1. /\ x = <<x[1], "worker", x[3]>> /\ x[1] \in Instances
          /\ x[3] \in Workers /\ InWorker(x[1], x[3], a)
      BY <2>4
    <3> QED
      BY <3>1
  <2> QED
    BY <2>1, <2>2, <2>3, <2>4 DEF Holders
<1>2. At(p) /\ At(q)
  BY <1>1
<1>3. PICK i \in Instances, j \in Instances : /\ p[1] = i /\ HeldBy(i, a)
                                             /\ q[1] = j /\ HeldBy(j, a)
  BY <1>2 DEF HeldBy, InQueue
<1>4. i = j
  BY <1>3 DEF SafeInv, Exclusive, Alone
<1>5. Once(i, a)
  BY DEF SafeInv, Exclusive
<1> QED
  BY <1>2, <1>3, <1>4, <1>5 DEF Once, InQueue

LEMMA SafeImplies == SafeInv => HeldIsProcessing
BY DEF SafeInv, Exclusive, Young, Carry, HeldIsProcessing

\* However many instances poll the table, an attempt is in at most one place of
\* one of them, and its row is in processing with the number the task carries;
\* provided no task outlives the five minutes after which FetchAndClaimPending
\* rescues its row.
THEOREM EngineExclusive ==
    ASSUME MaxOverruns = 0
    PROVE  Spec => [](HeldOnce /\ HeldIsProcessing)
<1>1. Init => SafeInv
  BY SafeInit
<1>2. SafeInv /\ [Next]_vars => SafeInv'
  BY SafeNext
<1>3. SafeInv => HeldOnce /\ HeldIsProcessing
  BY HoldersOnce, SafeImplies
<1> QED
  BY <1>1, <1>2, <1>3, PTL DEF Spec

-----------------------------------------------------------------------------
(* The engine implements the life cycle of an attempt                      *)

\* The row of a task in the hands of a worker that is about to write it.
LEMMA RecorderHolds ==
    ASSUME SafeInv, NEW i \in Instances, NEW w \in Workers,
           work[i][w].phase = "record"
    PROVE  LET t == work[i][w].task IN
             /\ t \in Task /\ t.attempt \in Attempts
             /\ work[i][w].result \in Result
             /\ row[t.attempt].status = "processing"
             /\ row[t.attempt].number = t.number
<1> DEFINE t == work[i][w].task
<1>1. t \in Task /\ work[i][w].result \in Result
  BY DEF SafeInv, TypeInv, TypeOK, WorkerState, IdleWorker
<1>2. t.attempt \in Attempts
  BY <1>1 DEF Task
<1>3. InWorker(i, w, t.attempt)
  BY DEF InWorker
<1>4. HeldBy(i, t.attempt)
  BY <1>3 DEF HeldBy
<1> QED
  BY <1>1, <1>2, <1>3, <1>4 DEF SafeInv, Exclusive, Young, Carry

\* A worker's write takes the row of its task from processing to one of the
\* four outcomes, each under the condition the life cycle asks for.
LEMMA WriteStep ==
    ASSUME SafeInv, NEW i \in Instances, NEW w \in Workers,
           work[i][w].phase = "record",
           row' = [row EXCEPT ![work[i][w].task.attempt] =
                     Outcome(work[i][w].task, work[i][w].result)]
    PROVE  Lifecycle!Next
<1> DEFINE t == work[i][w].task
           a == t.attempt
           r == work[i][w].result
           o == Outcome(t, r)
<1>1. /\ t \in Task /\ a \in Attempts /\ r \in Result
      /\ row[a].status = "processing" /\ row[a].number = t.number
  BY RecorderHolds
<1>2. row \in [Attempts -> Row]
  BY DEF SafeInv, TypeInv, TypeOK
<1>3. row' = [row EXCEPT ![a] = o]
  OBVIOUS
<1>4. \/ o.status = "delivered" /\ o.number = t.number /\ o.due = TRUE
      \/ o.status = "failed" /\ o.number = t.number /\ o.due = TRUE
      \/ /\ o.status = "dead_letter" /\ o.number = t.number /\ o.due = TRUE
         /\ t.number >= MaxRetries
      \/ /\ o.status = "pending" /\ o.number = t.number + 1 /\ o.due = FALSE
         /\ t.number < MaxRetries
  BY <1>1, OutcomeIs
<1> HIDE DEF o, r, t, a
<1> DEFINE status == [b \in Attempts |-> row[b].status]
           number == [b \in Attempts |-> row[b].number]
           due == [b \in Attempts |-> row[b].due]
<1>5. /\ status' = [status EXCEPT ![a] = o.status]
      /\ number' = [number EXCEPT ![a] = o.number]
      /\ due' = [due EXCEPT ![a] = o.due]
      /\ status[a] = "processing" /\ number[a] = t.number
      /\ status \in [Attempts -> DeliveryStatus] /\ number \in [Attempts -> 1..LastNumber]
  BY <1>1, <1>2, <1>3 DEF Row
<1>6. CASE o.status = "delivered" /\ o.number = t.number /\ o.due = TRUE
  <2>1. /\ status' = [status EXCEPT ![a] = "delivered"]
        /\ number' = [number EXCEPT ![a] = number[a]]
        /\ due' = [due EXCEPT ![a] = TRUE]
    BY <1>5, <1>6
  <2>2. \E b \in Attempts : Lifecycle!Delivered(b)
    BY <1>1, <1>5, <1>6, <2>1 DEF Lifecycle!Delivered, Lifecycle!Write
  <2> QED
    BY <2>2, Zenon DEF Lifecycle!Next
<1>7. CASE o.status = "failed" /\ o.number = t.number /\ o.due = TRUE
  <2>1. /\ status' = [status EXCEPT ![a] = "failed"]
        /\ number' = [number EXCEPT ![a] = number[a]]
        /\ due' = [due EXCEPT ![a] = TRUE]
    BY <1>5, <1>7
  <2>2. \E b \in Attempts : Lifecycle!Rejected(b)
    BY <1>1, <1>5, <1>7, <2>1 DEF Lifecycle!Rejected, Lifecycle!Write
  <2> QED
    BY <2>2, Zenon DEF Lifecycle!Next
<1>8. CASE /\ o.status = "dead_letter" /\ o.number = t.number /\ o.due = TRUE
           /\ t.number >= MaxRetries
  <2>1. /\ status' = [status EXCEPT ![a] = "dead_letter"]
        /\ number' = [number EXCEPT ![a] = number[a]]
        /\ due' = [due EXCEPT ![a] = TRUE]
    BY <1>5, <1>8
  <2>2. \E b \in Attempts : Lifecycle!Exhausted(b)
    BY <1>1, <1>5, <1>8, <2>1 DEF Lifecycle!Exhausted, Lifecycle!Write
  <2> QED
    BY <2>2, Zenon DEF Lifecycle!Next
<1>9. CASE /\ o.status = "pending" /\ o.number = t.number + 1 /\ o.due = FALSE
           /\ t.number < MaxRetries
  <2>1. /\ status' = [status EXCEPT ![a] = "pending"]
        /\ number' = [number EXCEPT ![a] = number[a] + 1]
        /\ due' = [due EXCEPT ![a] = FALSE]
    BY <1>5, <1>9
  <2>2. \E b \in Attempts : Lifecycle!Reschedule(b)
    BY <1>1, <1>5, <1>9, <2>1 DEF Lifecycle!Reschedule, Lifecycle!Write
  <2> QED
    BY <2>2, Zenon DEF Lifecycle!Next
<1> QED
  BY <1>4, <1>6, <1>7, <1>8, <1>9

\* A statement that sets the status of a set of rows and nothing else the life
\* cycle sees.
LEMMA ClaimMaps ==
    ASSUME SafeInv, MarkProcessing
    PROVE  Lifecycle!Next
<1> DEFINE status == [b \in Attempts |-> row[b].status]
           number == [b \in Attempts |-> row[b].number]
           due == [b \in Attempts |-> row[b].due]
<1>1. Claimed \in SUBSET Attempts
      /\ \A a \in Claimed : \/ row[a].status = "pending" /\ row[a].due
                            \/ row[a].status = "processing"
  BY DEF Claimed, Claimable
<1>2. \A a \in Attempts : row[a] \in Row
  BY DEF SafeInv, TypeInv, TypeOK
<1>3. \A a \in Attempts :
        /\ row'[a].status = IF a \in Claimed THEN "processing" ELSE row[a].status
        /\ row'[a].number = row[a].number /\ row'[a].due = row[a].due
  BY <1>2 DEF MarkProcessing, Row
<1>4. \E S \in SUBSET Attempts : Lifecycle!Claim(S)
  BY <1>1, <1>3 DEF Lifecycle!Claim
<1> QED
  BY <1>4, Zenon DEF Lifecycle!Next

LEMMA HandBackMaps ==
    ASSUME SafeInv, NEW i \in Instances, RevertToPending(i)
    PROVE  Lifecycle!Next
<1> DEFINE status == [b \in Attempts |-> row[b].status]
           number == [b \in Attempts |-> row[b].number]
           due == [b \in Attempts |-> row[b].due]
           S == {b \in unsent[i] : Present(b)}
<1>1. /\ S \in SUBSET Attempts
      /\ \A a \in S : row[a].status = "processing"
  BY DEF SafeInv, TypeInv, TypeOK, Exclusive, Young, HeldBy, InUnsent
<1>2. \A a \in Attempts : row[a] \in Row
  BY DEF SafeInv, TypeInv, TypeOK
<1>3. \A a \in Attempts :
        /\ row'[a].status = IF a \in S THEN "pending" ELSE row[a].status
        /\ row'[a].number = row[a].number /\ row'[a].due = row[a].due
  BY <1>2 DEF RevertToPending, Row
<1> HIDE DEF S
<1>4. \E T \in SUBSET Attempts : Lifecycle!HandBack(T)
  BY <1>1, <1>3 DEF Lifecycle!HandBack
<1> QED
  BY <1>4, Zenon DEF Lifecycle!Next

\* A step that leaves alone what the life cycle sees of every row.
LEMMA Stutters ==
    ASSUME \A a \in Attempts : /\ row'[a].status = row[a].status
                               /\ row'[a].number = row[a].number
                               /\ row'[a].due = row[a].due
    PROVE  UNCHANGED Lifecycle!vars
BY DEF Lifecycle!vars

LEMMA ManualRetryMaps ==
    ASSUME SafeInv, NEW a \in Attempts, ManualRetry(a)
    PROVE  Lifecycle!Next
<1>1. row \in [Attempts -> Row]
  BY DEF SafeInv, TypeInv, TypeOK
<1>2. /\ row[a].status \in {"failed", "dead_letter"}
      /\ row'[a].status = "pending" /\ row'[a].number = 1 /\ row'[a].due = TRUE
      /\ \A b \in Attempts \ {a} : row'[b] = row[b]
  BY <1>1 DEF ManualRetry, NewRow
<1>3. \E b \in Attempts : Lifecycle!ManualRetry(b)
  BY <1>2 DEF Lifecycle!ManualRetry, Lifecycle!Write
<1> QED
  BY <1>3, Zenon DEF Lifecycle!Next

LEMMA BackoffMaps ==
    ASSUME SafeInv, NEW a \in Attempts, BackoffElapses(a)
    PROVE  Lifecycle!Next
<1>1. /\ row \in [Attempts -> Row] /\ row[a].status = "pending"
      /\ row' = [row EXCEPT ![a].due = TRUE]
  BY DEF SafeInv, TypeInv, TypeOK, BackoffElapses
<1>2. /\ row'[a].due = TRUE
      /\ \A b \in Attempts : /\ row'[b].status = row[b].status
                             /\ row'[b].number = row[b].number
      /\ \A b \in Attempts \ {a} : row'[b].due = row[b].due
  BY <1>1 DEF Row
<1>3. \E b \in Attempts : Lifecycle!BackoffElapses(b)
  BY <1>1, <1>2 DEF Lifecycle!BackoffElapses
<1> QED
  BY <1>3, Zenon DEF Lifecycle!Next

LEMMA LifecycleStep ==
    ASSUME SafeInv, [Next]_vars
    PROVE  Lifecycle!Next \/ UNCHANGED Lifecycle!vars
<1> DEFINE Good == Lifecycle!Next \/ UNCHANGED Lifecycle!vars
<1>1. row' = row => Good
  BY Stutters
<1> HIDE DEF Good
<1>2. ASSUME NEW i \in Instances, Dispatcher(i) PROVE Good
  <2>1. \/ row' = row
        \/ FetchAndClaimPending(i) \/ ClaimFails(i) \/ RevertToPending(i)
    BY <1>2 DEF Dispatcher, BeginPoll, DispatcherExit, BeginSend,
                CollectRemaining, Enqueue, EnqueueFails, RevertFails, database
  <2>2. FetchAndClaimPending(i) \/ ClaimFails(i) => row' = row \/ MarkProcessing
    BY DEF FetchAndClaimPending, ClaimFails
  <2> QED
    BY <1>1, <2>1, <2>2, ClaimMaps, HandBackMaps DEF Good
<1>3. ASSUME NEW i \in Instances, Process(i) PROVE row' = row
  BY <1>3 DEF Process, StopSignal, ClosePool, Exit, Kill, Boot, database
<1>4. ASSUME NEW i \in Instances, NEW w \in Workers, Worker(i, w) PROVE Good
  <2>1. \/ row' = row
        \/ /\ work[i][w].phase = "record"
           /\ row' = [row EXCEPT ![work[i][w].task.attempt] =
                        Outcome(work[i][w].task, work[i][w].result)]
    BY <1>4 DEF Worker, TakeTask, Deliver, RecordOutcome, RecordFindsNoRow,
                RecordFails, UpdateHealth, HealthFails, database
  <2> QED
    BY <1>1, <2>1, WriteStep DEF Good
<1>5. ASSUME Environment PROVE Good
  <2>1. ASSUME NEW a \in Attempts, BackoffElapses(a) PROVE Good
    BY <2>1, BackoffMaps DEF Good
  <2>2. ASSUME NEW a \in Attempts, GoStale(a) PROVE Good
    <3>1. row \in [Attempts -> Row] /\ row' = [row EXCEPT ![a].stale = TRUE]
      BY <2>2 DEF SafeInv, TypeInv, TypeOK, GoStale
    <3>2. \A b \in Attempts : /\ row'[b].status = row[b].status
                              /\ row'[b].number = row[b].number
                              /\ row'[b].due = row[b].due
      BY <3>1 DEF Row
    <3> QED
      BY <3>2, Stutters DEF Good
  <2>3. ASSUME NEW e \in Endpoints, NEW h \in Health, PatchEndpoint(e, h)
        PROVE  row' = row
    BY <2>3 DEF PatchEndpoint
  <2>4. ASSUME NEW e \in Endpoints, DeleteEndpoint(e) PROVE row' = row
    BY <2>4 DEF DeleteEndpoint
  <2> QED
    BY <1>1, <1>5, <2>1, <2>2, <2>3, <2>4, ManualRetryMaps DEF Environment, Good
<1>6. ASSUME UNCHANGED vars PROVE Good
  BY <1>1, <1>6 DEF vars, database
<1>7. Good
  BY <1>1, <1>2, <1>3, <1>4, <1>5, <1>6 DEF Next
<1> QED
  BY <1>7 DEF Good

\* Whatever the instances do to one another, each attempt goes through the life
\* cycle of AttemptLifecycle: rescheduled only below MaxRetries, dead-lettered
\* only at it, settled only from processing (recorder.go, delivery_repo.go).
THEOREM EngineImplementsLifecycle ==
    ASSUME MaxOverruns = 0
    PROVE  Spec => ImplementsLifecycle
<1>1. Init => Lifecycle!Init
  BY DEF Init, NewRow, Lifecycle!Init
<1>2. SafeInv /\ [Next]_vars => [Lifecycle!Next]_(Lifecycle!vars)
  BY LifecycleStep
<1>3. Init => SafeInv
  BY SafeInit
<1>4. SafeInv /\ [Next]_vars => SafeInv'
  BY SafeNext
<1> QED
  BY <1>1, <1>2, <1>3, <1>4, PTL DEF Spec, ImplementsLifecycle, Lifecycle!Spec

-----------------------------------------------------------------------------
(* What is settled stays settled                                           *)

\* One step of the life cycle, or of the engine, seen from one settled row.
LEMMA SettledStep ==
    ASSUME MaxOverruns = 0, SafeInv, [Next]_vars, NEW a \in Attempts
    PROVE  /\ row[a].status = "delivered" => row'[a].status = "delivered"
           /\ row[a].status \in {"failed", "dead_letter"} =>
                row'[a].status = row[a].status \/ row'[a] = NewRow
<1> DEFINE Kept == row'[a].status = row[a].status
           Still == row[a].status \in {"delivered", "failed", "dead_letter"}
<1> SUFFICES ASSUME Still
             PROVE  Kept \/ (row[a].status # "delivered" /\ row'[a] = NewRow)
  OBVIOUS
<1>1. row \in [Attempts -> Row] /\ ~Held(a)
  BY DEF SafeInv, TypeInv, TypeOK, Exclusive, Young, Held
<1>2. ASSUME NEW i \in Instances, Dispatcher(i) PROVE Kept
  <2>1. a \notin Claimed /\ a \notin unsent[i]
    BY <1>1 DEF Claimed, Claimable, Held, HeldBy, InUnsent
  <2> QED
    BY <1>1, <1>2, <2>1
    DEF Dispatcher, BeginPoll, DispatcherExit, FetchAndClaimPending, ClaimFails,
        MarkProcessing, BeginSend, CollectRemaining, Enqueue, EnqueueFails,
        RevertToPending, RevertFails, database
<1>3. ASSUME NEW i \in Instances, Process(i) PROVE Kept
  BY <1>3 DEF Process, StopSignal, ClosePool, Exit, Kill, Boot, database
<1>4. ASSUME NEW i \in Instances, NEW w \in Workers, Worker(i, w) PROVE Kept
  <2>1. CASE work[i][w].phase = "record"
    <3>1. work[i][w].task.attempt # a
      BY <1>1, <2>1 DEF Held, HeldBy, InWorker
    <3> QED
      BY <1>1, <1>4, <2>1, <3>1
      DEF Worker, TakeTask, Deliver, RecordOutcome, RecordFindsNoRow, RecordFails,
          UpdateHealth, HealthFails, database
  <2>2. CASE work[i][w].phase # "record"
    BY <1>4, <2>2 DEF Worker, TakeTask, Deliver, RecordOutcome, RecordFindsNoRow,
                      RecordFails, UpdateHealth, HealthFails, database
  <2> QED
    BY <2>1, <2>2
<1>5. CASE Environment
  <2>1. ASSUME NEW b \in Attempts, BackoffElapses(b) \/ GoStale(b) PROVE Kept
    BY <1>1, <2>1 DEF BackoffElapses, GoStale
  <2>2. ASSUME NEW b \in Attempts, ManualRetry(b)
        PROVE  Kept \/ (row[a].status # "delivered" /\ row'[a] = NewRow)
    BY <1>1, <2>2 DEF ManualRetry
  <2>3. ASSUME NEW e \in Endpoints, NEW h \in Health, PatchEndpoint(e, h)
        PROVE  Kept
    BY <2>3 DEF PatchEndpoint
  <2>4. ASSUME NEW e \in Endpoints, DeleteEndpoint(e) PROVE Kept
    BY <2>4 DEF DeleteEndpoint
  <2> QED
    BY <1>5, <2>1, <2>2, <2>3, <2>4 DEF Environment
<1>6. CASE UNCHANGED vars
  BY <1>6 DEF vars, database
<1> QED
  BY <1>2, <1>3, <1>4, <1>5, <1>6 DEF Next

\* A delivered attempt stays delivered and a failed or dead-lettered one waits
\* for an operator: no late worker, hand-back or rescue undoes an outcome, as
\* long as no task outlives the five minutes.
THEOREM EngineSettledIsFinal ==
    ASSUME MaxOverruns = 0
    PROVE  Spec => SettledIsFinal
<1> DEFINE Final ==
      \A a \in Attempts :
         /\ row[a].status = "delivered" => row'[a].status = "delivered"
         /\ row[a].status \in {"failed", "dead_letter"} =>
              row'[a].status = row[a].status \/ row'[a] = NewRow
<1>1. SafeInv /\ [Next]_vars => Final
  BY SettledStep
<1>2. Init => SafeInv
  BY SafeInit
<1>3. SafeInv /\ [Next]_vars => SafeInv'
  BY SafeNext
<1> QED
  BY <1>1, <1>2, <1>3, PTL DEF Spec, SettledIsFinal
=============================================================================
