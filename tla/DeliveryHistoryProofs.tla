------------------------ MODULE DeliveryHistoryProofs ------------------------
(***************************************************************************)
(* What the receivers have seen, what becomes of rows in processing, and   *)
(* what the breaker has counted: theorems about DeliveryEngine that relate *)
(* its history variables, rows and endpoints, on top of TypeInv, Quiet and *)
(* SafeInv of DeliveryEngineProofs.                                        *)
(***************************************************************************)
EXTENDS DeliveryEngineProofs

-----------------------------------------------------------------------------
(* Nothing is stranded.  A row enters processing only by a claim, which    *)
(* puts it into a batch, and a task leaves the memory of an instance only  *)
(* by a write, a hand-back or a fault.                                     *)

Guarded(a) == Present(a) /\ row[a].status = "processing" => Held(a)

KeptInv == TypeInv /\ Quiet /\ NothingStranded

\* A step after which whatever was held is held, and that claims nothing.
LEMMA KeptFrame ==
    ASSUME NothingStranded, faults' = faults,
           \A a \in Attempts :
              \/ Guarded(a)'
              \/ /\ Present(a)' => Present(a)
                 /\ row'[a].status = "processing" => row[a].status = "processing"
                 /\ Held(a) => Held(a)'
    PROVE  NothingStranded'
BY DEF NothingStranded, Guarded

\* A step that changes no memory and no row.
LEMMA KeptIdle ==
    ASSUME NothingStranded, UNCHANGED <<row, gone, faults, batch, unsent, queue, work>>
    PROVE  NothingStranded'
BY DEF NothingStranded, Present, Held, HeldBy, InBatch, InUnsent, InQueue, InWorker

\* A step of instance i that moves its own tasks about.
LEMMA KeptLocal ==
    ASSUME NothingStranded, UNCHANGED <<row, gone, faults>>, NEW i \in Instances,
           \A j \in Instances \ {i} :
              /\ batch'[j] = batch[j] /\ unsent'[j] = unsent[j]
              /\ queue'[j] = queue[j] /\ work'[j] = work[j],
           \A a \in Attempts : HeldBy(i, a) => HeldBy(i, a)'
    PROVE  NothingStranded'
<1>1. \A j \in Instances \ {i}, a \in Attempts : HeldBy(j, a)' <=> HeldBy(j, a)
  BY Frame
<1>2. \A a \in Attempts : Held(a) => Held(a)'
  BY <1>1 DEF Held
<1> QED
  BY <1>2, KeptFrame DEF Present

LEMMA KeptDispatcher ==
    ASSUME KeptInv, NEW i \in Instances, Dispatcher(i), faults' = 0
    PROVE  NothingStranded'
<1> USE DEF KeptInv, TypeInv, TypeOK, database, bounds, memory
<1>1. ~ClaimFails(i) /\ ~RevertFails(i)
  BY DEF ClaimFails, RevertFails
<1>2. CASE BeginPoll(i) \/ DispatcherExit(i) \/ BeginSend(i)
  BY <1>2, KeptIdle DEF BeginPoll, DispatcherExit, BeginSend
<1>3. CASE FetchAndClaimPending(i)
  <2>1. /\ batch[i] = {}
        /\ batch'[i] = {[attempt |-> a, number |-> row[a].number] : a \in Claimed}
        /\ \A j \in Instances \ {i} : batch'[j] = batch[j]
        /\ UNCHANGED <<gone, faults, unsent, queue, work>>
    BY <1>3 DEF FetchAndClaimPending, Quiet
  <2>2. ASSUME NEW a \in Claimed PROVE Held(a)'
    <3>1. [attempt |-> a, number |-> row[a].number] \in batch'[i]
      BY <2>1, <2>2
    <3> QED
      BY <3>1 DEF Held, HeldBy, InBatch
  <2>3. ASSUME NEW a \in Attempts, a \notin Claimed
        PROVE  row'[a] = row[a] /\ (Held(a) => Held(a)')
    <3>1. row'[a] = row[a]
      BY <1>3, <2>3 DEF FetchAndClaimPending, MarkProcessing
    <3>2. \A j \in Instances : HeldBy(j, a) => HeldBy(j, a)'
      BY <2>1 DEF HeldBy, InBatch, InUnsent, InQueue, InWorker
    <3> QED
      BY <3>1, <3>2 DEF Held
  <2> QED
    BY <2>1, <2>2, <2>3, KeptFrame DEF Guarded, Present
<1>4. CASE CollectRemaining(i)
  <2>1. /\ unsent'[i] = unsent[i] \cup {t.attempt : t \in batch[i]}
        /\ \A j \in Instances \ {i} : batch'[j] = batch[j] /\ unsent'[j] = unsent[j]
        /\ UNCHANGED <<row, gone, faults, queue, work>>
    BY <1>4 DEF CollectRemaining
  <2>2. ASSUME NEW a \in Attempts, HeldBy(i, a) PROVE HeldBy(i, a)'
    BY <2>1, <2>2 DEF HeldBy, InBatch, InUnsent, InQueue, InWorker
  <2> QED
    BY <2>1, <2>2, KeptLocal
<1>5. CASE Enqueue(i)
  <2>1. PICK t \in batch[i] :
          /\ queue'[i] = Append(queue[i], t) /\ batch'[i] = batch[i] \ {t}
          /\ \A j \in Instances \ {i} : batch'[j] = batch[j] /\ queue'[j] = queue[j]
    BY <1>5 DEF Enqueue, Next1
  <2>2. UNCHANGED <<row, gone, faults, unsent, work>>
    BY <1>5 DEF Enqueue
  <2>3. /\ Len(queue[i]) \in Nat /\ Len(queue'[i]) = Len(queue[i]) + 1
        /\ queue'[i][Len(queue[i]) + 1] = t
        /\ \A k \in 1..Len(queue[i]) : queue'[i][k] = queue[i][k]
    BY <2>1
  <2>4. ASSUME NEW a \in Attempts
        PROVE  InQueue(i, a) \/ t.attempt = a => InQueue(i, a)'
    <3>1. /\ Len(queue[i]) + 1 \in 1..Len(queue'[i])
          /\ \A k \in 1..Len(queue[i]) : k \in 1..Len(queue'[i])
      BY <2>3
    <3> QED
      BY <2>3, <3>1 DEF InQueue
  <2>5. ASSUME NEW a \in Attempts, HeldBy(i, a) PROVE HeldBy(i, a)'
    BY <2>1, <2>2, <2>4, <2>5 DEF HeldBy, InBatch, InUnsent, InWorker
  <2> QED
    BY <2>1, <2>2, <2>5, KeptLocal
<1>6. CASE EnqueueFails(i)
  <2>1. PICK t \in batch[i] :
          /\ unsent'[i] = unsent[i] \cup {t.attempt} /\ batch'[i] = batch[i] \ {t}
          /\ \A j \in Instances \ {i} : batch'[j] = batch[j] /\ unsent'[j] = unsent[j]
    BY <1>6 DEF EnqueueFails, Next1
  <2>2. UNCHANGED <<row, gone, faults, queue, work>>
    BY <1>6 DEF EnqueueFails
  <2>3. ASSUME NEW a \in Attempts, HeldBy(i, a) PROVE HeldBy(i, a)'
    BY <2>1, <2>2, <2>3 DEF HeldBy, InBatch, InUnsent, InQueue, InWorker
  <2> QED
    BY <2>1, <2>2, <2>3, KeptLocal
<1>7. CASE RevertToPending(i)
  <2>1. /\ \A j \in Instances \ {i} : unsent'[j] = unsent[j]
        /\ UNCHANGED <<gone, faults, batch, queue, work>>
    BY <1>7 DEF RevertToPending
  <2>2. ASSUME NEW a \in Attempts, a \in unsent[i], Present(a)
        PROVE  row'[a].status = "pending"
    BY <1>7, <2>2 DEF RevertToPending, Row
  <2>3. ASSUME NEW a \in Attempts, a \notin unsent[i]
        PROVE  row'[a] = row[a] /\ (Held(a) => Held(a)')
    <3>1. row'[a] = row[a]
      BY <1>7, <2>3 DEF RevertToPending
    <3>2. \A j \in Instances : HeldBy(j, a) => HeldBy(j, a)'
      BY <2>1, <2>3 DEF HeldBy, InBatch, InUnsent, InQueue, InWorker
    <3> QED
      BY <3>1, <3>2 DEF Held
  <2> QED
    BY <2>1, <2>2, <2>3, KeptFrame DEF Guarded, Present
<1> QED
  BY <1>1, <1>2, <1>3, <1>4, <1>5, <1>6, <1>7 DEF Dispatcher

LEMMA KeptWorker ==
    ASSUME KeptInv, NEW i \in Instances, NEW w \in Workers, Worker(i, w), faults' = 0
    PROVE  NothingStranded'
<1> USE DEF KeptInv, TypeInv, TypeOK, database, bounds, memory
<1>1. ~RecordFails(i, w) /\ ~HealthFails(i, w)
  BY DEF RecordFails, HealthFails
<1>2. CASE TakeTask(i, w)
  <2> DEFINE t == Head(queue[i])
  <2>1. /\ queue'[i] = Tail(queue[i]) /\ queue[i] # <<>>
        /\ work[i][w].phase = "idle"
        /\ work'[i][w] = [phase |-> "deliver", task |-> t]
        /\ \A v \in Workers \ {w} : work'[i][v] = work[i][v]
        /\ \A j \in Instances \ {i} : queue'[j] = queue[j] /\ work'[j] = work[j]
        /\ UNCHANGED <<row, gone, faults, batch, unsent>>
    BY <1>2 DEF TakeTask
  <2>2. /\ Len(queue[i]) \in Nat \ {0} /\ Len(queue'[i]) = Len(queue[i]) - 1
        /\ queue[i][1] = t
        /\ \A k \in 1..Len(queue'[i]) : queue'[i][k] = queue[i][k + 1]
    BY <2>1
  <2>3. ASSUME NEW a \in Attempts, InQueue(i, a)
        PROVE  InQueue(i, a)' \/ InWorker(i, w, a)'
    <3>1. PICK k \in 1..Len(queue[i]) : queue[i][k].attempt = a
      BY <2>3 DEF InQueue
    <3>2. CASE k = 1
      BY <2>1, <2>2, <3>1, <3>2 DEF InWorker
    <3>3. CASE k # 1
      <4>1. k - 1 \in 1..Len(queue'[i]) /\ (k - 1) + 1 = k
        BY <2>2, <3>1, <3>3
      <4>2. queue'[i][k - 1].attempt = a
        BY <2>2, <3>1, <4>1
      <4> QED
        BY <4>1, <4>2 DEF InQueue
    <3> QED
      BY <3>2, <3>3
  <2>4. ASSUME NEW a \in Attempts, HeldBy(i, a) PROVE HeldBy(i, a)'
    <3>1. \A v \in Workers : InWorker(i, v, a) => InWorker(i, v, a)'
      BY <2>1 DEF InWorker
    <3> QED
      BY <2>1, <2>3, <2>4, <3>1 DEF HeldBy, InBatch, InUnsent
  <2> QED
    BY <2>1, <2>4, KeptLocal
<1>3. ASSUME NEW result \in Result, NEW unheard \in BOOLEAN,
             Deliver(i, w, result, unheard)
      PROVE  NothingStranded'
  <2>1. /\ work[i][w].phase = "deliver"
        /\ work'[i][w] = [phase |-> "record", task |-> work[i][w].task, result |-> result]
        /\ \A v \in Workers \ {w} : work'[i][v] = work[i][v]
        /\ \A j \in Instances \ {i} : work'[j] = work[j]
        /\ UNCHANGED <<row, gone, faults, batch, unsent, queue>>
    BY <1>3 DEF Deliver
  <2>2. ASSUME NEW a \in Attempts, HeldBy(i, a) PROVE HeldBy(i, a)'
    <3>1. InWorker(i, w, a) => InWorker(i, w, a)'
      BY <2>1 DEF InWorker
    <3>2. \A v \in Workers \ {w} : InWorker(i, v, a) => InWorker(i, v, a)'
      BY <2>1 DEF InWorker
    <3> QED
      BY <2>1, <2>2, <3>1, <3>2 DEF HeldBy, InBatch, InUnsent, InQueue
  <2> QED
    BY <2>1, <2>2, KeptLocal
<1>4. CASE RecordOutcome(i, w) \/ RecordFindsNoRow(i, w)
  <2> DEFINE b == work[i][w].task.attempt
  <2>1. /\ work[i][w].phase = "record"
        /\ work[i][w].task \in Task /\ work[i][w].result \in Result
    BY <1>4 DEF RecordOutcome, RecordFindsNoRow, WorkerState, IdleWorker
  <2>2. /\ \A v \in Workers \ {w} : work'[i][v] = work[i][v]
        /\ \A j \in Instances \ {i} : work'[j] = work[j]
        /\ UNCHANGED <<gone, faults, batch, unsent, queue>>
    BY <1>4 DEF RecordOutcome, RecordFindsNoRow
  <2>3. b \in Attempts
    BY <2>1 DEF Task
  <2>4. \/ row'[b].status # "processing"
        \/ ~Present(b)
    BY <1>4, <2>1, <2>3, OutcomeType DEF RecordOutcome, RecordFindsNoRow
  <2>5. \A a \in Attempts \ {b} : row'[a] = row[a]
    BY <1>4 DEF RecordOutcome, RecordFindsNoRow
  <2> HIDE DEF b
  <2>6. ASSUME NEW a \in Attempts \ {b}, NEW j \in Instances, HeldBy(j, a)
        PROVE  HeldBy(j, a)'
    <3>1. ASSUME NEW v \in Workers, InWorker(j, v, a) PROVE InWorker(j, v, a)'
      <4>1. ~(j = i /\ v = w)
        BY <2>6, <3>1 DEF InWorker, b
      <4> QED
        BY <2>2, <3>1, <4>1 DEF InWorker
    <3> QED
      BY <2>2, <2>6, <3>1 DEF HeldBy, InBatch, InUnsent, InQueue
  <2> QED
    BY <2>2, <2>4, <2>5, <2>6, KeptFrame DEF Held, Present, Guarded
<1>5. CASE UpdateHealth(i, w)
  <2>1. /\ work[i][w].phase = "health"
        /\ \A v \in Workers \ {w} : work'[i][v] = work[i][v]
        /\ \A j \in Instances \ {i} : work'[j] = work[j]
        /\ UNCHANGED <<row, gone, faults, batch, unsent, queue>>
    BY <1>5 DEF UpdateHealth
  <2>2. ASSUME NEW a \in Attempts, HeldBy(i, a) PROVE HeldBy(i, a)'
    <3>1. \A v \in Workers : InWorker(i, v, a) => InWorker(i, v, a)'
      BY <2>1 DEF InWorker
    <3> QED
      BY <2>1, <2>2, <3>1 DEF HeldBy, InBatch, InUnsent, InQueue
  <2> QED
    BY <2>1, <2>2, KeptLocal
<1> QED
  BY <1>1, <1>2, <1>3, <1>4, <1>5 DEF Worker

LEMMA KeptRest ==
    ASSUME KeptInv, faults' = 0,
           Environment \/ UNCHANGED vars \/ \E i \in Instances : Process(i)
    PROVE  NothingStranded'
<1> USE DEF KeptInv, TypeInv, TypeOK, database, bounds, memory
<1>1. CASE UNCHANGED vars
  BY <1>1, KeptIdle DEF vars
<1>2. ASSUME NEW i \in Instances, Process(i) PROVE NothingStranded'
  <2>1. ~Kill(i)
    BY DEF Kill
  <2>2. UNCHANGED <<row, gone, faults, batch, unsent, queue, work>>
    BY <1>2, <2>1 DEF Process, StopSignal, ClosePool, Exit, Boot
  <2> QED
    BY <2>2, KeptIdle
<1>3. CASE Environment
  <2>1. UNCHANGED <<faults, batch, unsent, queue, work>>
    BY <1>3 DEF Environment, BackoffElapses, GoStale, ManualRetry, PatchEndpoint,
                DeleteEndpoint
  <2>2. gone \subseteq gone'
    BY <1>3 DEF Environment, BackoffElapses, GoStale, ManualRetry, PatchEndpoint,
                DeleteEndpoint
  <2>3. ASSUME NEW a \in Attempts
        PROVE  row'[a].status = "processing" => row[a].status = "processing"
    <3>1. ASSUME NEW b \in Attempts, BackoffElapses(b) \/ GoStale(b) \/ ManualRetry(b)
          PROVE  row'[a].status = "processing" => row[a].status = "processing"
      <4>1. BackoffElapses(b) => row'[a].status = row[a].status
        BY DEF BackoffElapses, Row
      <4>2. GoStale(b) => row'[a].status = row[a].status
        BY DEF GoStale, Row
      <4>3. ManualRetry(b) => row'[a].status \in {row[a].status, "pending"}
        BY DEF ManualRetry, NewRow
      <4> QED
        BY <3>1, <4>1, <4>2, <4>3
    <3>2. ASSUME NEW e \in Endpoints, DeleteEndpoint(e)
          PROVE  row' = row
      BY <3>2 DEF DeleteEndpoint
    <3>3. ASSUME NEW e \in Endpoints, NEW h \in Health, PatchEndpoint(e, h)
          PROVE  row' = row
      BY <3>3 DEF PatchEndpoint
    <3> QED
      BY <1>3, <3>1, <3>2, <3>3 DEF Environment
  <2>4. \A a \in Attempts : Held(a) => Held(a)'
    BY <2>1 DEF Held, HeldBy, InBatch, InUnsent, InQueue, InWorker
  <2> QED
    BY <2>1, <2>2, <2>3, <2>4, KeptFrame DEF Present
<1> QED
  BY <1>1, <1>2, <1>3

LEMMA KeptNext ==
    ASSUME KeptInv, [Next]_vars
    PROVE  KeptInv'
<1>1. TypeInv' /\ Quiet'
  BY TypeDispatcher, TypeWorker, TypeProcess, TypeEnvironment, QuietStep
  DEF KeptInv, Next, TypeInv, TypeOK, BreakerConsistent, vars, database, memory,
      history, bounds
<1>2. NothingStranded'
  <2>1. CASE faults' = 0
    BY <2>1, KeptDispatcher, KeptWorker, KeptRest DEF Next
  <2>2. CASE faults' # 0
    BY <2>2 DEF NothingStranded
  <2> QED
    BY <2>1, <2>2
<1> QED
  BY <1>1, <1>2 DEF KeptInv

\* Until a process is killed or a database call fails, every row in processing
\* is in somebody's hands: back-pressure, hand-backs and graceful shutdowns
\* strand nothing, even when tasks outlive the five minutes.  And no dispatcher
\* ever stands at a closed channel, on which a send would panic.
THEOREM EngineStrandsNothing == Spec => [](NothingStranded /\ NoSendOnClosedPool)
<1>1. Init => KeptInv
  <2>1. Init => NothingStranded
    BY DEF Init, NothingStranded, NewRow
  <2>2. Init => Quiet
    BY DEF Init, Quiet
  <2> QED
    BY <2>1, <2>2, TypeInit DEF KeptInv
<1>2. KeptInv /\ [Next]_vars => KeptInv'
  BY KeptNext
<1>3. KeptInv => NothingStranded /\ NoSendOnClosedPool
  BY DEF KeptInv, Quiet, NoSendOnClosedPool, PoolClosed
<1> QED
  BY <1>1, <1>2, <1>3, PTL DEF Spec

-----------------------------------------------------------------------------
(* What the receivers have seen.  Nothing here assumes that tasks stay in  *)
(* memory for less than five minutes: for each attempt there is an account *)
(* of one delivery, and one more for each overrun.  It is spent on a row   *)
(* that may be claimed (again), on a copy in memory that has not had a 2xx *)
(* yet, or on a 2xx that was not lost.                                     *)

\* A worker has a task for attempt a, and not yet an answer of the kind done.
Working(i, w, a, done) ==
    /\ InWorker(i, w, a)
    /\ ~(work[i][w].phase = "record" /\ work[i][w].result \in done)

\* A task for attempt a stands in place k of part x of instance i.
Stands(i, x, k, a, done) ==
    \/ x = "batch" /\ k = 0 /\ InBatch(i, a)
    \/ x = "unsent" /\ k = 0 /\ InUnsent(i, a)
    \/ x = "queue" /\ k \in 1..Len(queue[i]) /\ queue[i][k].attempt = a
    \/ x = "worker" /\ k \in Workers /\ Working(i, k, a, done)

Spot == Instances \X {"batch", "unsent", "queue", "worker"} \X ({0} \cup (1..QueueSize) \cup Workers)

Places(a, done) == {p \in Spot : Stands(p[1], p[2], p[3], a, done)}

\* Copies of a task that have not been accepted, that are still to be sent, and
\* those whose 2xx the worker is about to record.
Open(a)    == Places(a, {"success"})
ToSend(a)  == Places(a, Result)
Answers(a) == {p \in Instances \X {"worker"} \X Workers :
                 /\ work[p[1]][p[3]].phase = "record"
                 /\ work[p[1]][p[3]].task.attempt = a
                 /\ work[p[1]][p[3]].result = "success"}

MayBeClaimed(a) ==
    /\ row[a].status # "delivered"
    /\ row[a].status = "processing" /\ Held(a) => row[a].stale

Ledger(a) ==
    /\ IsFiniteSet(Open(a)) /\ IsFiniteSet(Answers(a))
    /\ Cardinality(Open(a)) + (IF MayBeClaimed(a) THEN 1 ELSE 0) + accepted[a]
         <= 1 + overruns + lost[a]
    /\ lost[a] + Cardinality(Answers(a)) <= accepted[a]
    /\ row[a].status = "delivered" => lost[a] + Cardinality(Answers(a)) < accepted[a]
    /\ IF Present(a) THEN after[a] = 0
                     ELSE after[a] + Cardinality(ToSend(a)) <= 1 + overruns

BatchOnce == \A i \in Instances : \A t, u \in batch[i] : t.attempt = u.attempt => t = u

LedgerInv == TypeInv /\ Quiet /\ BatchOnce /\ \A a \in Attempts : Ledger(a)

\* What an exchange of elements does to a cardinality.
LEMMA DropOne ==
    ASSUME NEW S, IsFiniteSet(S), NEW p \in S, NEW T, T \subseteq S \ {p}
    PROVE  IsFiniteSet(T) /\ Cardinality(T) <= Cardinality(S) - 1
<1>1. IsFiniteSet(S \ {p}) /\ Cardinality(S \ {p}) = Cardinality(S) - 1
  BY FS_RemoveElement
<1> QED
  BY <1>1, FS_Subset

LEMMA AddOne ==
    ASSUME NEW S, IsFiniteSet(S), NEW q, NEW T, T \subseteq S \cup {q}
    PROVE  IsFiniteSet(T) /\ Cardinality(T) <= Cardinality(S) + 1
<1>1. /\ IsFiniteSet(S \cup {q}) /\ Cardinality(S) \in Nat
      /\ Cardinality(S \cup {q}) \in {Cardinality(S), Cardinality(S) + 1}
  BY FS_AddElement, FS_CardinalityType
<1>2. /\ IsFiniteSet(T) /\ Cardinality(T) <= Cardinality(S \cup {q})
      /\ Cardinality(T) \in Nat
  BY <1>1, FS_Subset, FS_CardinalityType
<1> QED
  BY <1>1, <1>2

LEMMA MoveOne ==
    ASSUME NEW S, IsFiniteSet(S), NEW p \in S, NEW q, NEW T, T \subseteq (S \ {p}) \cup {q}
    PROVE  IsFiniteSet(T) /\ Cardinality(T) <= Cardinality(S)
<1>1. /\ IsFiniteSet(S \ {p}) /\ Cardinality(S \ {p}) = Cardinality(S) - 1
      /\ Cardinality(S) \in Nat
  BY FS_RemoveElement, FS_CardinalityType
<1>2. IsFiniteSet(T) /\ Cardinality(T) <= Cardinality(S \ {p}) + 1
  BY <1>1, AddOne
<1> QED
  BY <1>1, <1>2

LEMMA SizeOf ==
    ASSUME NEW S, IsFiniteSet(S)
    PROVE  /\ Cardinality(S) \in Nat
           /\ S # {} => Cardinality(S) >= 1
           /\ S = {} => Cardinality(S) = 0
<1>1. Cardinality(S) \in Nat /\ (Cardinality(S) = 0 <=> S = {})
  BY FS_CardinalityType, FS_EmptySet
<1> QED
  BY <1>1

\* A place that a task stands in is one of the places, with its parts; and
\* the holders of an attempt are its places, whatever the workers have heard.
PlaceFacts ==
    TypeInv => \A a \in Attempts : \A done :
        /\ \A i \in Instances : \A x, k :
              Stands(i, x, k, a, done) => <<i, x, k>> \in Places(a, done)
        /\ \A p \in Places(a, done) :
              /\ p = <<p[1], p[2], p[3]>> /\ p[1] \in Instances
              /\ Stands(p[1], p[2], p[3], a, done)

HolderFacts ==
    TypeInv => \A a \in Attempts :
        /\ Holders(a) \subseteq Open(a) \cup Answers(a)
        /\ ToSend(a) \subseteq Open(a)
        /\ Held(a) <=> Open(a) # {} \/ Answers(a) # {}

LEMMA PlaceIs == PlaceFacts
<1> SUFFICES ASSUME TypeInv, NEW a \in Attempts, NEW done
             PROVE  /\ \A i \in Instances : \A x, k :
                         Stands(i, x, k, a, done) => <<i, x, k>> \in Places(a, done)
                    /\ \A p \in Places(a, done) :
                         /\ p = <<p[1], p[2], p[3]>> /\ p[1] \in Instances
                         /\ Stands(p[1], p[2], p[3], a, done)
  BY DEF PlaceFacts
<1>1. ASSUME NEW i \in Instances, NEW x, NEW k, Stands(i, x, k, a, done)
      PROVE  <<i, x, k>> \in Places(a, done)
  <2>1. \A l \in 1..Len(queue[i]) : l \in 1..QueueSize
    BY EngineAssumption DEF TypeInv, TypeOK
  <2>2. /\ x \in {"batch", "unsent", "queue", "worker"}
        /\ k \in {0} \cup (1..QueueSize) \cup Workers
    BY <1>1, <2>1 DEF Stands
  <2> QED
    BY <1>1, <2>2 DEF Places, Spot
<1>2. ASSUME NEW p \in Places(a, done)
      PROVE  /\ p = <<p[1], p[2], p[3]>> /\ p[1] \in Instances
             /\ Stands(p[1], p[2], p[3], a, done)
  BY DEF Places, Spot
<1> QED
  BY <1>1, <1>2

LEMMA HoldersArePlaces == HolderFacts
<1> SUFFICES ASSUME TypeInv, NEW a \in Attempts
             PROVE  /\ Holders(a) \subseteq Open(a) \cup Answers(a)
                    /\ ToSend(a) \subseteq Open(a)
                    /\ Held(a) <=> Open(a) # {} \/ Answers(a) # {}
  BY DEF HolderFacts
<1>1. ASSUME NEW i \in Instances, NEW x, NEW k, Stands(i, x, k, a, {})
      PROVE  <<i, x, k>> \in Open(a) \cup Answers(a)
  <2>1. CASE Stands(i, x, k, a, {"success"})
    BY <2>1, PlaceIs DEF PlaceFacts, Open
  <2>2. CASE ~Stands(i, x, k, a, {"success"})
    <3>1. /\ x = "worker" /\ k \in Workers /\ InWorker(i, k, a)
          /\ work[i][k].phase = "record" /\ work[i][k].result = "success"
      BY <1>1, <2>2 DEF Stands, Working
    <3> QED
      BY <3>1 DEF Answers, InWorker
  <2> QED
    BY <2>1, <2>2
<1>2. ASSUME NEW p \in Holders(a)
      PROVE  \E i \in Instances : \E x, k : p = <<i, x, k>> /\ Stands(i, x, k, a, {})
  <2>1. CASE p \in {<<i, "batch", 0>> : i \in {j \in Instances : InBatch(j, a)}}
    BY <2>1 DEF Stands
  <2>2. CASE p \in {<<i, "unsent", 0>> : i \in {j \in Instances : InUnsent(j, a)}}
    BY <2>2 DEF Stands
  <2>3. CASE p \in {y \in Instances \X {"queue"} \X (1..QueueSize) :
                      y[3] <= Len(queue[y[1]]) /\ queue[y[1]][y[3]].attempt = a}
    <3>1. /\ p = <<p[1], "queue", p[3]>> /\ p[1] \in Instances
          /\ p[3] \in 1..QueueSize /\ p[3] <= Len(queue[p[1]])
          /\ queue[p[1]][p[3]].attempt = a
      BY <2>3
    <3>2. Len(queue[p[1]]) \in Nat
      BY <3>1 DEF TypeInv, TypeOK
    <3>3. p[3] \in 1..Len(queue[p[1]])
      BY <3>1, <3>2, EngineAssumption
    <3> QED
      BY <3>1, <3>3 DEF Stands
  <2>4. CASE p \in {y \in Instances \X {"worker"} \X Workers : InWorker(y[1], y[3], a)}
    <3>1. /\ p = <<p[1], "worker", p[3]>> /\ p[1] \in Instances
          /\ p[3] \in Workers /\ InWorker(p[1], p[3], a)
      BY <2>4
    <3> QED
      BY <3>1 DEF Stands, Working
  <2> QED
    BY <2>1, <2>2, <2>3, <2>4 DEF Holders
<1>3. Holders(a) \subseteq Open(a) \cup Answers(a)
  BY <1>1, <1>2
<1>4. ToSend(a) \subseteq Open(a)
  BY DEF ToSend, Open, Places, Stands, Working, Result
<1>5. ASSUME NEW p \in Open(a) PROVE Held(a)
  <2>1. p[1] \in Instances /\ Stands(p[1], p[2], p[3], a, {"success"})
    BY PlaceIs DEF PlaceFacts, Open
  <2> QED
    BY <2>1 DEF Held, HeldBy, Stands, Working, InQueue
<1>6. ASSUME NEW p \in Answers(a) PROVE Held(a)
  <2>1. /\ p[1] \in Instances /\ p[3] \in Workers /\ InWorker(p[1], p[3], a)
    BY DEF Answers, InWorker
  <2> QED
    BY <2>1 DEF Held, HeldBy
<1>7. ASSUME Held(a) PROVE Open(a) \cup Answers(a) # {}
  <2>1. PICK i \in Instances : HeldBy(i, a)
    BY <1>7 DEF Held
  <2>2. \E x, k : Stands(i, x, k, a, {})
    <3>1. InBatch(i, a) => Stands(i, "batch", 0, a, {})
      BY DEF Stands
    <3>2. InUnsent(i, a) => Stands(i, "unsent", 0, a, {})
      BY DEF Stands
    <3>3. \A k \in 1..Len(queue[i]) :
            queue[i][k].attempt = a => Stands(i, "queue", k, a, {})
      BY DEF Stands
    <3>4. \A w \in Workers : InWorker(i, w, a) => Stands(i, "worker", w, a, {})
      BY DEF Stands, Working
    <3> QED
      BY <2>1, <3>1, <3>2, <3>3, <3>4 DEF HeldBy, InQueue
  <2> QED
    BY <1>1, <2>2
<1> QED
  BY <1>3, <1>4, <1>5, <1>6, <1>7

LEMMA PlaceIsNext == PlaceFacts'
  BY PlaceIs, PTL

LEMMA HoldersArePlacesNext == HolderFacts'
  BY HoldersArePlaces, PTL

-----------------------------------------------------------------------------
(* How a step of one instance changes the places.                          *)

\* Only instance i has moved.
OnlyIn(i) ==
    \A j \in Instances \ {i} :
        /\ batch'[j] = batch[j] /\ unsent'[j] = unsent[j]
        /\ queue'[j] = queue[j] /\ work'[j] = work[j]

LEMMA Elsewhere ==
    ASSUME NEW i \in Instances, OnlyIn(i), NEW j \in Instances \ {i},
           NEW a \in Attempts, NEW done, NEW x, NEW k
    PROVE  Stands(j, x, k, a, done)' <=> Stands(j, x, k, a, done)
BY DEF OnlyIn, Stands, Working, InBatch, InUnsent, InWorker

\* Nothing came to a new place,
LEMMA NoNewPlace ==
    ASSUME TypeInv, TypeInv', NEW i \in Instances, OnlyIn(i),
           NEW a \in Attempts, NEW done,
           \A x, k : Stands(i, x, k, a, done)' => Stands(i, x, k, a, done)
    PROVE  Places(a, done)' \subseteq Places(a, done)
<1> SUFFICES ASSUME NEW p \in Places(a, done)' PROVE p \in Places(a, done)
  OBVIOUS
<1>1. /\ p = <<p[1], p[2], p[3]>> /\ p[1] \in Instances
      /\ Stands(p[1], p[2], p[3], a, done)'
  BY PlaceIs, PlaceIsNext DEF PlaceFacts
<1>2. Stands(p[1], p[2], p[3], a, done)
  BY <1>1, Elsewhere
<1> QED
  BY <1>1, <1>2, PlaceIs, PlaceIsNext DEF PlaceFacts

\* and this place was left, perhaps for that one.
LEMMA PlaceLeft ==
    ASSUME TypeInv, TypeInv', NEW i \in Instances, OnlyIn(i),
           NEW a \in Attempts, NEW done, NEW y, NEW l, NEW z, NEW m,
           Stands(i, y, l, a, done),
           \A x, k : Stands(i, x, k, a, done)' =>
              \/ Stands(i, x, k, a, done) /\ ~(x = y /\ k = l)
              \/ x = z /\ k = m
    PROVE  /\ <<i, y, l>> \in Places(a, done)
           /\ Places(a, done)' \subseteq (Places(a, done) \ {<<i, y, l>>}) \cup {<<i, z, m>>}
<1>1. <<i, y, l>> \in Places(a, done)
  BY PlaceIs, PlaceIsNext DEF PlaceFacts
<1>2. ASSUME NEW p \in Places(a, done)'
      PROVE  p \in (Places(a, done) \ {<<i, y, l>>}) \cup {<<i, z, m>>}
  <2>1. /\ p = <<p[1], p[2], p[3]>> /\ p[1] \in Instances
        /\ Stands(p[1], p[2], p[3], a, done)'
    BY <1>2, PlaceIs, PlaceIsNext DEF PlaceFacts
  <2>2. CASE p[1] # i
    <3>1. p \in Places(a, done)
      BY <2>1, <2>2, Elsewhere, PlaceIs, PlaceIsNext DEF PlaceFacts
    <3> QED
      BY <2>1, <2>2, <3>1
  <2>3. CASE p[1] = i
    <3>1. CASE p[2] = z /\ p[3] = m
      BY <2>1, <2>3, <3>1
    <3>2. CASE Stands(i, p[2], p[3], a, done) /\ ~(p[2] = y /\ p[3] = l)
      <4>1. p \in Places(a, done)
        BY <2>1, <2>3, <3>2, PlaceIs, PlaceIsNext DEF PlaceFacts
      <4>2. p # <<i, y, l>>
        BY <2>1, <3>2
      <4> QED
        BY <4>1, <4>2
    <3> QED
      BY <2>1, <2>3, <3>1, <3>2
  <2> QED
    BY <2>2, <2>3
<1> QED
  BY <1>1, <1>2

\* The attempt has no more places than before, in a step that leaves its row
\* and its history alone.
Fewer(a, done) == IsFiniteSet(Places(a, done)) =>
                     /\ IsFiniteSet(Places(a, done)')
                     /\ Cardinality(Places(a, done)') <= Cardinality(Places(a, done))

LEMMA FewerIf ==
    ASSUME NEW a \in Attempts, NEW done,
           \/ Places(a, done)' \subseteq Places(a, done)
           \/ \E p \in Places(a, done) : \E q :
                 Places(a, done)' \subseteq (Places(a, done) \ {p}) \cup {q}
    PROVE  Fewer(a, done)
BY FS_Subset, MoveOne DEF Fewer

LEMMA LedgerTypes ==
    ASSUME TypeInv, NEW a \in Attempts, Ledger(a)
    PROVE  /\ accepted[a] \in Nat /\ lost[a] \in Nat /\ after[a] \in Nat /\ overruns \in Nat
           /\ row[a] \in Row
           /\ Cardinality(Open(a)) \in Nat /\ Cardinality(Answers(a)) \in Nat
           /\ IsFiniteSet(ToSend(a)) /\ Cardinality(ToSend(a)) \in Nat
           /\ Cardinality(ToSend(a)) <= Cardinality(Open(a))
<1>1. /\ accepted[a] \in Nat /\ lost[a] \in Nat /\ after[a] \in Nat /\ overruns \in Nat
      /\ row[a] \in Row
  BY EngineAssumption DEF TypeInv, TypeOK
<1>2. ToSend(a) \in SUBSET Open(a)
  BY HoldersArePlaces DEF HolderFacts
<1> QED
  BY <1>1, <1>2, FS_Subset, FS_CardinalityType DEF Ledger

LEMMA LedgerStays ==
    ASSUME TypeInv, TypeInv', NEW a \in Attempts, Ledger(a),
           row'[a] = row[a], accepted'[a] = accepted[a], lost'[a] = lost[a],
           after'[a] = after[a], overruns' = overruns, Present(a)' <=> Present(a),
           Answers(a)' = Answers(a), Fewer(a, {"success"}), Fewer(a, Result)
    PROVE  Ledger(a)'
<1> DEFINE u == Cardinality(Open(a))
           v == Cardinality(Open(a)')
<1>1. /\ u \in Nat /\ v \in Nat /\ v <= u /\ IsFiniteSet(Open(a)')
      /\ Cardinality(ToSend(a)') <= Cardinality(ToSend(a))
      /\ Cardinality(ToSend(a)') \in Nat
  BY LedgerTypes, FS_CardinalityType DEF Ledger, Fewer, Open, ToSend
<1>2. ASSUME MayBeClaimed(a)', ~MayBeClaimed(a) PROVE v <= u - 1
  <2>1. Held(a) /\ ~Held(a)'
    BY <1>2 DEF MayBeClaimed
  <2>2. Open(a) # {} /\ Open(a)' = {}
    BY <2>1, HoldersArePlaces, HoldersArePlacesNext DEF HolderFacts
  <2> QED
    BY <1>1, <2>2, SizeOf DEF Ledger
<1>3. v + (IF MayBeClaimed(a)' THEN 1 ELSE 0) <= u + (IF MayBeClaimed(a) THEN 1 ELSE 0)
  BY <1>1, <1>2
<1>4. /\ accepted[a] \in Nat /\ lost[a] \in Nat /\ after[a] \in Nat /\ overruns \in Nat
      /\ Cardinality(ToSend(a)) \in Nat
  BY LedgerTypes
<1>5. v + (IF MayBeClaimed(a)' THEN 1 ELSE 0) + accepted[a] <= 1 + overruns + lost[a]
  <2>1. u + (IF MayBeClaimed(a) THEN 1 ELSE 0) + accepted[a] <= 1 + overruns + lost[a]
    BY DEF Ledger
  <2> HIDE DEF u, v
  <2> QED
    BY <1>1, <1>3, <1>4, <2>1
<1>6. IF Present(a)' THEN after'[a] = 0
                     ELSE after'[a] + Cardinality(ToSend(a)') <= 1 + overruns'
  BY <1>1, <1>4 DEF Ledger
<1> QED
  BY <1>1, <1>5, <1>6 DEF Ledger

LEMMA SameMemory ==
    ASSUME UNCHANGED <<batch, unsent, queue, work>>, NEW a \in Attempts
    PROVE  /\ \A done : Places(a, done)' = Places(a, done)
           /\ Open(a)' = Open(a) /\ ToSend(a)' = ToSend(a)
           /\ Answers(a)' = Answers(a) /\ (Held(a)' <=> Held(a))
<1>1. \A done : Places(a, done)' = Places(a, done)
  BY DEF Places, Stands, Working, InBatch, InUnsent, InWorker
<1> QED
  BY <1>1 DEF Open, ToSend, Answers, Held, HeldBy, InBatch, InUnsent, InQueue, InWorker

LEMMA SameAnswers ==
    ASSUME NEW i \in Instances, OnlyIn(i), NEW a \in Attempts,
           \A w \in Workers : \/ work'[i][w] = work[i][w]
                              \/ work'[i][w].phase # "record" /\ work[i][w].phase # "record"
    PROVE  Answers(a)' = Answers(a)
BY DEF Answers, OnlyIn

LEMMA LedgerIdle ==
    ASSUME TypeInv, TypeInv', NEW a \in Attempts, Ledger(a),
           UNCHANGED <<row, gone, history, overruns, batch, unsent, queue, work>>
    PROVE  Ledger(a)'
<1>1. Fewer(a, {"success"}) /\ Fewer(a, Result) /\ Answers(a)' = Answers(a)
  BY SameMemory, FewerIf
<1> QED
  BY <1>1, LedgerStays DEF history, Present

-----------------------------------------------------------------------------
(* The dispatcher                                                          *)

\* The row was free to be claimed, and now there is a copy instead.
LEMMA LedgerClaim ==
    ASSUME TypeInv, TypeInv', Quiet, NEW i \in Instances, FetchAndClaimPending(i),
           NEW a \in Attempts, Ledger(a)
    PROVE  Ledger(a)'
<1>1. /\ batch[i] = {}
      /\ batch'[i] = {[attempt |-> b, number |-> row[b].number] : b \in Claimed}
      /\ OnlyIn(i)
      /\ UNCHANGED <<gone, unsent, queue, work, history, overruns>>
  BY DEF FetchAndClaimPending, Quiet, TypeInv, TypeOK, OnlyIn, bounds
<1>2. Answers(a)' = Answers(a)
  BY <1>1, SameAnswers
<1>3. CASE a \notin Claimed
  <2>1. row'[a] = row[a]
    BY <1>3 DEF FetchAndClaimPending, MarkProcessing
  <2>2. ASSUME NEW done, NEW x, NEW k, Stands(i, x, k, a, done)'
        PROVE  Stands(i, x, k, a, done)
    BY <1>1, <1>3, <2>2 DEF Stands, Working, InBatch, InUnsent, InWorker
  <2>3. Fewer(a, {"success"}) /\ Fewer(a, Result)
    BY <1>1, <2>2, NoNewPlace, FewerIf
  <2> QED
    BY <1>1, <1>2, <2>1, <2>3, LedgerStays DEF history, Present
<1>4. CASE a \in Claimed
  <2>1. /\ Claimable(a) /\ row[a] \in Row
        /\ row'[a] = [row[a] EXCEPT !.status = "processing", !.stale = FALSE]
    BY <1>4 DEF FetchAndClaimPending, MarkProcessing, Claimed, TypeInv, TypeOK
  <2>2. row'[a].status = "processing" /\ ~row'[a].stale
    BY <2>1 DEF Row
  <2>3. MayBeClaimed(a) /\ Present(a)
    BY <2>1 DEF Claimable, MayBeClaimed
  <2>4. InBatch(i, a)'
    <3>1. [attempt |-> a, number |-> row[a].number] \in batch'[i]
      BY <1>1, <1>4
    <3> QED
      BY <3>1 DEF InBatch
  <2>5. ~MayBeClaimed(a)'
    BY <2>2, <2>4 DEF MayBeClaimed, Held, HeldBy
  <2>6. Open(a)' \subseteq Open(a) \cup {<<i, "batch", 0>>}
    <3> SUFFICES ASSUME NEW p \in Open(a)', p # <<i, "batch", 0>> PROVE p \in Open(a)
      OBVIOUS
    <3>1. /\ p = <<p[1], p[2], p[3]>> /\ p[1] \in Instances
          /\ Stands(p[1], p[2], p[3], a, {"success"})'
      BY PlaceIsNext DEF PlaceFacts, Open
    <3>2. ~(p[1] = i /\ p[2] = "batch")
      BY <3>1 DEF Stands
    <3>3. Stands(p[1], p[2], p[3], a, {"success"})
      BY <1>1, <3>1, <3>2 DEF Stands, Working, InBatch, InUnsent, InWorker, OnlyIn
    <3> QED
      BY <3>1, <3>3, PlaceIs DEF PlaceFacts, Open
  <2>7. /\ IsFiniteSet(Open(a)') /\ Cardinality(Open(a)') <= Cardinality(Open(a)) + 1
        /\ Cardinality(Open(a)') \in Nat
    BY <2>6, AddOne, FS_CardinalityType DEF Ledger
  <2>8. Present(a)' /\ row'[a].status # "delivered"
    BY <1>1, <2>2, <2>3 DEF Present
  <2> QED
    BY <1>1, <1>2, <2>3, <2>5, <2>7, <2>8, LedgerTypes DEF Ledger, history
<1> QED
  BY <1>3, <1>4

\* Rows claimed by nobody are free to be claimed again when they are old.
LEMMA LedgerClaimFails ==
    ASSUME TypeInv, TypeInv', NEW i \in Instances, ClaimFails(i),
           NEW a \in Attempts, Ledger(a)
    PROVE  Ledger(a)'
<1>1. UNCHANGED <<gone, batch, unsent, queue, work, history, overruns>>
  BY DEF ClaimFails
<1>2. CASE row'[a] = row[a]
  <2>1. Fewer(a, {"success"}) /\ Fewer(a, Result) /\ Answers(a)' = Answers(a)
    BY <1>1, SameMemory, FewerIf
  <2> QED
    BY <1>1, <1>2, <2>1, LedgerStays DEF history, Present
<1>3. CASE row'[a] # row[a]
  <2> DEFINE claimed == [row[a] EXCEPT !.status = "processing", !.stale = FALSE]
  <2>0. row'[a] = IF a \in Claimed THEN claimed ELSE row[a]
    BY <1>3, Zenon DEF ClaimFails, MarkProcessing
  <2>1. /\ a \in Claimed /\ Claimable(a) /\ row[a] \in Row
        /\ row'[a] = claimed
    BY <1>3, <2>0 DEF Claimed, TypeInv, TypeOK
  <2>2. row'[a].status = "processing" /\ MayBeClaimed(a) /\ Present(a)
    BY <2>1 DEF Row, Claimable, MayBeClaimed
  <2>3. Present(a)'
    BY <1>1, <2>2 DEF Present
  <2> QED
    BY <1>1, <2>2, <2>3, SameMemory, LedgerTypes DEF Ledger, history
<1> QED
  BY <1>2, <1>3

LEMMA LedgerCollect ==
    ASSUME TypeInv, TypeInv', NEW i \in Instances, CollectRemaining(i),
           NEW a \in Attempts, Ledger(a)
    PROVE  Ledger(a)'
<1>1. /\ unsent'[i] = unsent[i] \cup {t.attempt : t \in batch[i]}
      /\ batch'[i] = {}
      /\ OnlyIn(i)
      /\ UNCHANGED <<row, gone, queue, work, history, overruns>>
  BY DEF CollectRemaining, TypeInv, TypeOK, OnlyIn, bounds, database
<1>2. ASSUME NEW done PROVE Fewer(a, done)
  <2>1. CASE InBatch(i, a)
    <3>1. Stands(i, "batch", 0, a, done)
      BY <2>1 DEF Stands
    <3>2. ASSUME NEW x, NEW k, Stands(i, x, k, a, done)'
          PROVE  \/ Stands(i, x, k, a, done) /\ ~(x = "batch" /\ k = 0)
                 \/ x = "unsent" /\ k = 0
      BY <1>1, <3>2 DEF Stands, Working, InBatch, InUnsent, InWorker
    <3>3. /\ <<i, "batch", 0>> \in Places(a, done)
          /\ Places(a, done)' \subseteq
               (Places(a, done) \ {<<i, "batch", 0>>}) \cup {<<i, "unsent", 0>>}
      BY <1>1, <3>1, <3>2, PlaceLeft
    <3> QED
      BY <3>3, FewerIf
  <2>2. CASE ~InBatch(i, a)
    <3>1. ASSUME NEW x, NEW k, Stands(i, x, k, a, done)' PROVE Stands(i, x, k, a, done)
      BY <1>1, <2>2, <3>1 DEF Stands, Working, InBatch, InUnsent, InWorker
    <3> QED
      BY <1>1, <3>1, NoNewPlace, FewerIf
  <2> QED
    BY <2>1, <2>2
<1>3. Answers(a)' = Answers(a)
  BY <1>1, SameAnswers
<1> QED
  BY <1>1, <1>2, <1>3, LedgerStays DEF history, Present

\* A task goes from the batch into the channel or among the unsent ones.
LEMMA LedgerEnqueue ==
    ASSUME TypeInv, TypeInv', BatchOnce, NEW i \in Instances, Enqueue(i) \/ EnqueueFails(i),
           NEW a \in Attempts, Ledger(a)
    PROVE  Ledger(a)'
<1>1. /\ OnlyIn(i)
      /\ UNCHANGED <<row, gone, work, history, overruns>>
  BY DEF Enqueue, EnqueueFails, TypeInv, TypeOK, OnlyIn, bounds, database
<1>2. PICK t \in batch[i] :
        /\ batch'[i] = batch[i] \ {t}
        /\ \/ unsent'[i] = unsent[i] /\ queue'[i] = Append(queue[i], t)
           \/ unsent'[i] = unsent[i] \cup {t.attempt} /\ queue'[i] = queue[i]
  BY DEF Enqueue, EnqueueFails, Next1, TypeInv, TypeOK
<1>3. t \in Task /\ queue[i] \in Seq(Task)
  BY DEF TypeInv, TypeOK
<1>4. InBatch(i, t.attempt) /\ ~InBatch(i, t.attempt)'
  BY <1>2 DEF InBatch, BatchOnce
<1> DEFINE n == Len(queue[i]) + 1
<1>5. /\ Len(queue[i]) \in Nat /\ n # 0
      /\ queue'[i] = Append(queue[i], t) =>
           /\ Len(queue'[i]) = n /\ queue'[i][n] = t
           /\ \A k \in 1..Len(queue[i]) : queue'[i][k] = queue[i][k]
  BY <1>3
<1>6. ASSUME NEW done PROVE Fewer(a, done)
  <2>1. ASSUME NEW x, NEW k, Stands(i, x, k, a, done)'
        PROVE  \/ Stands(i, x, k, a, done) /\ ~(t.attempt = a /\ x = "batch")
               \/ t.attempt = a /\ x = "queue" /\ k = n /\ unsent'[i] = unsent[i]
               \/ t.attempt = a /\ x = "unsent" /\ k = 0 /\ unsent'[i] # unsent[i]
               \/ t.attempt = a /\ x = "unsent" /\ k = 0 /\ InUnsent(i, a)
    <3>1. CASE x = "batch"
      BY <1>2, <1>4, <2>1, <3>1 DEF Stands, InBatch
    <3>2. CASE x = "unsent"
      BY <1>2, <2>1, <3>2 DEF Stands, InUnsent
    <3>3. CASE x = "queue"
      <4>1. k \in 1..Len(queue'[i]) /\ queue'[i][k].attempt = a
        BY <2>1, <3>3 DEF Stands
      <4>2. CASE queue'[i] = queue[i]
        BY <3>3, <4>1, <4>2 DEF Stands
      <4>3. CASE queue'[i] = Append(queue[i], t) /\ k = n /\ unsent'[i] = unsent[i]
        BY <1>5, <3>3, <4>1, <4>3
      <4>4. CASE queue'[i] = Append(queue[i], t) /\ k # n
        <5>1. k \in 1..Len(queue[i]) /\ queue'[i][k] = queue[i][k]
          BY <1>5, <4>1, <4>4
        <5> QED
          BY <3>3, <4>1, <5>1 DEF Stands
      <4> QED
        BY <1>2, <4>2, <4>3, <4>4
    <3>4. CASE x = "worker"
      BY <1>1, <2>1, <3>4 DEF Stands, Working, InWorker
    <3> QED
      BY <2>1, <3>1, <3>2, <3>3, <3>4 DEF Stands
  <2>2. CASE t.attempt = a
    <3>1. Stands(i, "batch", 0, a, done)
      BY <1>4, <2>2 DEF Stands
    <3> DEFINE z == IF unsent'[i] = unsent[i] THEN "queue" ELSE "unsent"
               m == IF unsent'[i] = unsent[i] THEN n ELSE 0
    <3>2. ASSUME NEW x, NEW k, Stands(i, x, k, a, done)'
          PROVE  \/ Stands(i, x, k, a, done) /\ ~(x = "batch" /\ k = 0)
                 \/ x = z /\ k = m
      BY <2>1, <2>2, <3>2 DEF Stands
    <3> HIDE DEF z, m
    <3>3. /\ <<i, "batch", 0>> \in Places(a, done)
          /\ Places(a, done)' \subseteq (Places(a, done) \ {<<i, "batch", 0>>}) \cup {<<i, z, m>>}
      BY <1>1, <3>1, <3>2, PlaceLeft
    <3> QED
      BY <3>3, FewerIf
  <2>3. CASE t.attempt # a
    <3>1. \A x, k : Stands(i, x, k, a, done)' => Stands(i, x, k, a, done)
      BY <2>1, <2>3
    <3> QED
      BY <1>1, <3>1, NoNewPlace, FewerIf
  <2> QED
    BY <2>2, <2>3
<1>7. Answers(a)' = Answers(a)
  BY <1>1, SameAnswers
<1> QED
  BY <1>1, <1>6, <1>7, LedgerStays DEF history, Present

\* A hand-back gives up a copy, and at the most frees the row for it.
LEMMA LedgerHandBack ==
    ASSUME TypeInv, TypeInv', NEW i \in Instances, RevertToPending(i) \/ RevertFails(i),
           NEW a \in Attempts, Ledger(a)
    PROVE  Ledger(a)'
<1>1. /\ unsent'[i] = {} /\ OnlyIn(i)
      /\ UNCHANGED <<gone, batch, queue, work, history, overruns>>
  BY DEF RevertToPending, RevertFails, TypeInv, TypeOK, OnlyIn, bounds, database
<1>2. ASSUME NEW done
      PROVE  Places(a, done)' \subseteq Places(a, done)
  <2>1. ASSUME NEW x, NEW k, Stands(i, x, k, a, done)' PROVE Stands(i, x, k, a, done)
    BY <1>1, <2>1 DEF Stands, Working, InBatch, InUnsent, InWorker
  <2> QED
    BY <1>1, <2>1, NoNewPlace
<1>3. Answers(a)' = Answers(a)
  BY <1>1, SameAnswers
<1>4. CASE row'[a] = row[a]
  <2>1. Fewer(a, {"success"}) /\ Fewer(a, Result)
    BY <1>2, FewerIf
  <2> QED
    BY <1>1, <1>3, <1>4, <2>1, LedgerStays DEF history, Present
<1>5. CASE row'[a] # row[a]
  <2> DEFINE freed == [row[a] EXCEPT !.status = "pending", !.stale = FALSE]
  <2>0. RevertToPending(i)
    BY <1>5 DEF RevertFails, database
  <2>8. row'[a] = IF a \in unsent[i] /\ Present(a) THEN freed ELSE row[a]
    BY <2>0, Zenon DEF RevertToPending
  <2>1. /\ a \in unsent[i] /\ Present(a) /\ row[a] \in Row
        /\ row'[a] = freed
    BY <1>5, <2>8 DEF TypeInv, TypeOK
  <2>2. row'[a].status = "pending" /\ Present(a)'
    BY <1>1, <2>1 DEF Row, Present
  <2>3. Stands(i, "unsent", 0, a, {"success"}) /\ ~Stands(i, "unsent", 0, a, {"success"})'
    BY <1>1, <2>1 DEF Stands, InUnsent
  <2>4. <<i, "unsent", 0>> \in Open(a)
    BY <2>3, PlaceIs DEF PlaceFacts, Open
  <2>5. <<i, "unsent", 0>> \notin Open(a)'
    BY <2>3, PlaceIsNext DEF PlaceFacts, Open
  <2>6. Open(a)' \subseteq Open(a) \ {<<i, "unsent", 0>>}
    BY <1>2, <2>5 DEF Open
  <2>7. /\ IsFiniteSet(Open(a)') /\ Cardinality(Open(a)') <= Cardinality(Open(a)) - 1
        /\ Cardinality(Open(a)') \in Nat
    BY <2>4, <2>6, DropOne, FS_CardinalityType DEF Ledger
  <2> QED
    BY <1>1, <1>3, <2>1, <2>2, <2>7, LedgerTypes DEF Ledger, history
<1> QED
  BY <1>4, <1>5

LEMMA LedgerDispatcher ==
    ASSUME LedgerInv, TypeInv', NEW i \in Instances, Dispatcher(i)
    PROVE  BatchOnce' /\ \A a \in Attempts : Ledger(a)'
<1>1. BatchOnce'
  <2> SUFFICES ASSUME NEW j \in Instances, NEW t \in batch'[j], NEW u \in batch'[j],
                      t.attempt = u.attempt
               PROVE  t = u
    BY DEF BatchOnce
  <2>1. CASE FetchAndClaimPending(i) /\ j = i
    <3>1. batch'[j] = {[attempt |-> b, number |-> row[b].number] : b \in Claimed}
      BY <2>1 DEF FetchAndClaimPending, LedgerInv, TypeInv, TypeOK
    <3> QED
      BY <3>1
  <2>2. CASE ~(FetchAndClaimPending(i) /\ j = i)
    <3>1. batch'[j] \subseteq batch[j]
      <4>1. batch \in [Instances -> SUBSET Task]
        BY DEF LedgerInv, TypeInv, TypeOK
      <4>2. CASE FetchAndClaimPending(i)
        BY <2>2, <4>1, <4>2 DEF FetchAndClaimPending
      <4>3. CASE CollectRemaining(i)
        BY <4>1, <4>3 DEF CollectRemaining
      <4>4. CASE Enqueue(i) \/ EnqueueFails(i)
        BY <4>1, <4>4 DEF Enqueue, EnqueueFails
      <4>5. CASE ~(FetchAndClaimPending(i) \/ CollectRemaining(i) \/ Enqueue(i) \/ EnqueueFails(i))
        BY <4>5 DEF Dispatcher, BeginPoll, DispatcherExit, ClaimFails, BeginSend,
                    RevertToPending, RevertFails
      <4> QED
        BY <4>2, <4>3, <4>4, <4>5
    <3> QED
      BY <3>1 DEF LedgerInv, BatchOnce
  <2> QED
    BY <2>1, <2>2
<1>2. CASE BeginPoll(i) \/ DispatcherExit(i) \/ BeginSend(i)
  <2>1. UNCHANGED <<row, gone, history, overruns, batch, unsent, queue, work>>
    BY <1>2 DEF BeginPoll, DispatcherExit, BeginSend, database, bounds
  <2> QED
    BY <1>1, <2>1, LedgerIdle DEF LedgerInv
<1> QED
  BY <1>1, <1>2, LedgerClaim, LedgerClaimFails, LedgerCollect, LedgerEnqueue, LedgerHandBack
  DEF Dispatcher, LedgerInv

-----------------------------------------------------------------------------
(* The workers                                                             *)

\* The head of the channel goes to worker w, and the others move up by one.
LEMMA TakeShifts ==
    ASSUME TypeInv, TypeInv', NEW i \in Instances, NEW w \in Workers, TakeTask(i, w),
           NEW a \in Attempts, NEW done
    PROVE  Fewer(a, done)
<1> DEFINE S == Places(a, done)
           T == Places(a, done)'
           from(p) == IF p[1] = i /\ p[2] = "queue" THEN <<i, "queue", p[3] + 1>>
                      ELSE IF p = <<i, "worker", w>> THEN <<i, "queue", 1>>
                      ELSE p
           f == [p \in T |-> from(p)]
<1>1. /\ work[i][w].phase = "idle" /\ queue[i] # <<>>
      /\ work'[i][w] = [phase |-> "deliver", task |-> Head(queue[i])]
      /\ \A v \in Workers \ {w} : work'[i][v] = work[i][v]
      /\ queue'[i] = Tail(queue[i]) /\ queue[i] \in Seq(Task)
      /\ OnlyIn(i)
      /\ UNCHANGED <<batch, unsent>>
  BY DEF TakeTask, TypeInv, TypeOK, OnlyIn
<1>2. /\ Len(queue[i]) \in Nat \ {0} /\ Len(queue'[i]) = Len(queue[i]) - 1
      /\ queue[i][1] = Head(queue[i])
      /\ \A k \in 1..Len(queue'[i]) : queue'[i][k] = queue[i][k + 1]
  BY <1>1
<1>3. ASSUME NEW p \in T
      PROVE  /\ p = <<p[1], p[2], p[3]>> /\ p[1] \in Instances
             /\ Stands(p[1], p[2], p[3], a, done)'
  BY PlaceIsNext DEF PlaceFacts
<1>4. ASSUME NEW p \in T, p[1] = i, p[2] = "queue"
      PROVE  p[3] \in Nat \ {0} /\ Stands(i, "queue", p[3] + 1, a, done)
  <2>1. p[3] \in 1..Len(queue'[i]) /\ queue'[i][p[3]].attempt = a
    BY <1>3, <1>4 DEF Stands
  <2>2. p[3] \in Nat \ {0} /\ p[3] + 1 \in 1..Len(queue[i]) /\ queue[i][p[3] + 1].attempt = a
    BY <1>2, <2>1
  <2> QED
    BY <2>2 DEF Stands
<1>5. ASSUME NEW p \in T, p = <<i, "worker", w>>
      PROVE  Stands(i, "queue", 1, a, done)
  <2>1. Working(i, w, a, done)'
    BY <1>3, <1>5 DEF Stands
  <2>2. Head(queue[i]).attempt = a
    BY <1>1, <2>1 DEF Working, InWorker
  <2>3. 1 \in 1..Len(queue[i]) /\ queue[i][1].attempt = a
    BY <1>2, <2>2
  <2> QED
    BY <2>3 DEF Stands
<1>6. ASSUME NEW p \in T, ~(p[1] = i /\ p[2] = "queue"), p # <<i, "worker", w>>
      PROVE  p \in S
  <2>1. Stands(p[1], p[2], p[3], a, done)
    <3>1. CASE p[1] # i
      BY <1>1, <1>3, <3>1, Elsewhere
    <3>2. CASE p[1] = i
      BY <1>1, <1>3, <1>6, <3>2 DEF Stands, Working, InBatch, InUnsent, InWorker
    <3> QED
      BY <3>1, <3>2
  <2> QED
    BY <1>3, <2>1, PlaceIs DEF PlaceFacts
<1>7. ASSUME NEW p \in T PROVE from(p) \in S
  BY <1>3, <1>4, <1>5, <1>6, PlaceIs DEF PlaceFacts
<1>8. ASSUME NEW p \in T, NEW q \in T, from(p) = from(q) PROVE p = q
  <2> DEFINE inQueue(x) == x[1] = i /\ x[2] = "queue"
  <2>1. ASSUME NEW x \in T, inQueue(x)
        PROVE  from(x) = <<i, "queue", x[3] + 1>> /\ x = <<i, "queue", x[3]>> /\ x[3] \in Nat \ {0}
    BY <1>3, <1>4, <2>1
  <2>2. ASSUME NEW x \in T, ~inQueue(x), x = <<i, "worker", w>>
        PROVE  from(x) = <<i, "queue", 1>>
    BY <2>2
  <2>3. ASSUME NEW x \in T, ~inQueue(x), x # <<i, "worker", w>>
        PROVE  from(x) = x /\ ~inQueue(from(x))
    BY <2>3
  <2>4. CASE inQueue(p) /\ inQueue(q)
    <3>1. <<i, "queue", p[3] + 1>> = <<i, "queue", q[3] + 1>>
      BY <1>8, <2>1, <2>4
    <3>2. p[3] + 1 = q[3] + 1
      BY <3>1
    <3>3. /\ p = <<i, "queue", p[3]>> /\ p[3] \in Nat
          /\ q = <<i, "queue", q[3]>> /\ q[3] \in Nat
      BY <2>1, <2>4
    <3>4. p[3] = q[3]
      BY <3>2, <3>3
    <3> QED
      BY <3>3, <3>4
  <2>5. CASE inQueue(p) /\ ~inQueue(q)
    <3>1. inQueue(from(p)) /\ from(p)[3] = p[3] + 1 /\ p[3] \in Nat \ {0}
      BY <2>1, <2>5
    <3>2. q = <<i, "worker", w>>
      BY <1>8, <2>3, <2>5, <3>1
    <3>3. from(q)[3] = 1
      BY <2>2, <2>5, <3>2
    <3> QED
      BY <1>8, <3>1, <3>3
  <2>6. CASE ~inQueue(p) /\ inQueue(q)
    <3>1. inQueue(from(q)) /\ from(q)[3] = q[3] + 1 /\ q[3] \in Nat \ {0}
      BY <2>1, <2>6
    <3>2. p = <<i, "worker", w>>
      BY <1>8, <2>3, <2>6, <3>1
    <3>3. from(p)[3] = 1
      BY <2>2, <2>6, <3>2
    <3> QED
      BY <1>8, <3>1, <3>3
  <2>7. CASE ~inQueue(p) /\ ~inQueue(q)
    <3>1. CASE p = <<i, "worker", w>> /\ q # <<i, "worker", w>>
      <4>1. inQueue(from(p)) /\ ~inQueue(from(q))
        BY <2>2, <2>3, <2>7, <3>1
      <4> QED
        BY <1>8, <4>1
    <3>2. CASE p # <<i, "worker", w>> /\ q = <<i, "worker", w>>
      <4>1. inQueue(from(q)) /\ ~inQueue(from(p))
        BY <2>2, <2>3, <2>7, <3>2
      <4> QED
        BY <1>8, <4>1
    <3>3. CASE p # <<i, "worker", w>> /\ q # <<i, "worker", w>>
      BY <1>8, <2>3, <2>7, <3>3
    <3> QED
      BY <3>1, <3>2, <3>3
  <2> QED
    BY <2>4, <2>5, <2>6, <2>7
<1> HIDE DEF S, T, from
<1>9. f \in Injection(T, S)
  BY <1>7, <1>8 DEF Injection, IsInjective
<1> QED
  BY <1>9, FS_Injection DEF Fewer, S, T

LEMMA LedgerTake ==
    ASSUME TypeInv, TypeInv', NEW i \in Instances, NEW w \in Workers, TakeTask(i, w),
           NEW a \in Attempts, Ledger(a)
    PROVE  Ledger(a)'
<1>1. UNCHANGED <<row, gone, history, overruns>>
  BY DEF TakeTask, database, bounds
<1>2. /\ OnlyIn(i)
      /\ \A v \in Workers : \/ work'[i][v] = work[i][v]
                            \/ work'[i][v].phase # "record" /\ work[i][v].phase # "record"
  BY DEF TakeTask, TypeInv, TypeOK, OnlyIn
<1>3. Answers(a)' = Answers(a)
  BY <1>2, SameAnswers
<1> QED
  BY <1>1, <1>3, TakeShifts, LedgerStays DEF history, Present

\* What a worker does with its task changes the places of that attempt alone.
LEMMA WorkerPlaces ==
    ASSUME TypeInv, TypeInv', NEW i \in Instances, NEW w \in Workers,
           UNCHANGED <<batch, unsent, queue>>,
           \A j \in Instances, v \in Workers : ~(j = i /\ v = w) => work'[j][v] = work[j][v],
           NEW a \in Attempts
    PROVE  /\ OnlyIn(i)
           /\ \A done : (Working(i, w, a, done)' => Working(i, w, a, done)) =>
                           Places(a, done)' \subseteq Places(a, done)
           /\ \A done : ~Working(i, w, a, done)' =>
                           Places(a, done)' \subseteq Places(a, done) \ {<<i, "worker", w>>}
           /\ <<i, "worker", w>> \notin Answers(a)' => 
                 Answers(a)' = Answers(a) \ {<<i, "worker", w>>}
           /\ Answers(a)' \subseteq Answers(a) \cup {<<i, "worker", w>>}
<1>1. OnlyIn(i)
  <2>1. ASSUME NEW j \in Instances \ {i} PROVE work'[j] = work[j]
    <3>1. \A v \in Workers : work'[j][v] = work[j][v]
      OBVIOUS
    <3>2. work'[j] \in [Workers -> WorkerState] /\ work[j] \in [Workers -> WorkerState]
      BY DEF TypeInv, TypeOK
    <3> QED
      BY <3>1, <3>2
  <2> QED
    BY <2>1 DEF OnlyIn
<1>2. ASSUME NEW done, Working(i, w, a, done)' => Working(i, w, a, done)
      PROVE  Places(a, done)' \subseteq Places(a, done)
  <2>1. ASSUME NEW x, NEW k, Stands(i, x, k, a, done)' PROVE Stands(i, x, k, a, done)
    <3>1. CASE x = "worker"
      <4>1. k \in Workers /\ Working(i, k, a, done)'
        BY <2>1, <3>1 DEF Stands
      <4>2. Working(i, k, a, done)
        BY <1>2, <4>1 DEF Working, InWorker
      <4> QED
        BY <3>1, <4>1, <4>2 DEF Stands
    <3>2. CASE x # "worker"
      BY <2>1, <3>2 DEF Stands, InBatch, InUnsent
    <3> QED
      BY <3>1, <3>2
  <2> QED
    BY <1>1, <2>1, NoNewPlace
<1>3. ASSUME NEW done, ~Working(i, w, a, done)'
      PROVE  Places(a, done)' \subseteq Places(a, done) \ {<<i, "worker", w>>}
  <2>1. Places(a, done)' \subseteq Places(a, done)
    BY <1>2, <1>3
  <2>2. ASSUME NEW p \in Places(a, done)' PROVE p # <<i, "worker", w>>
    BY <1>3, PlaceIsNext DEF PlaceFacts, Stands
  <2> QED
    BY <2>1, <2>2
<1>4. ASSUME NEW p, p # <<i, "worker", w>>
      PROVE  p \in Answers(a)' <=> p \in Answers(a)
  <2>1. ASSUME p \in Instances \X {"worker"} \X Workers
        PROVE  work'[p[1]][p[3]] = work[p[1]][p[3]]
    <3>1. p = <<p[1], "worker", p[3]>> /\ p[1] \in Instances /\ p[3] \in Workers
      BY <2>1
    <3>2. ~(p[1] = i /\ p[3] = w)
      BY <1>4, <3>1
    <3> QED
      BY <3>1, <3>2
  <2> QED
    BY <2>1 DEF Answers
<1> QED
  BY <1>1, <1>2, <1>3, <1>4

\* A POST whose 2xx the worker hears turns a copy into an accepted delivery; a
\* 2xx it does not hear is accepted and lost at once; any other answer leaves
\* the copy where it is until the outcome is written.
LEMMA LedgerDeliver ==
    ASSUME TypeInv, TypeInv', NEW i \in Instances, NEW w \in Workers,
           NEW result \in Result, NEW unheard \in BOOLEAN,
           Deliver(i, w, result, unheard),
           NEW a \in Attempts, Ledger(a)
    PROVE  Ledger(a)'
<1> DEFINE p == <<i, "worker", w>>
           heard == IF result = "success" /\ a = work[i][w].task.attempt THEN 1 ELSE 0
           missed == IF unheard /\ a = work[i][w].task.attempt THEN 1 ELSE 0
<1>1. /\ work[i][w].phase = "deliver" /\ work[i][w].task \in Task
      /\ work'[i][w] = [phase |-> "record", task |-> work[i][w].task, result |-> result]
      /\ \A j \in Instances, v \in Workers : ~(j = i /\ v = w) => work'[j][v] = work[j][v]
      /\ UNCHANGED <<row, gone, batch, unsent, queue, overruns>>
      /\ unheard => result = "retryable"
  BY DEF Deliver, TypeInv, TypeOK, WorkerState, IdleWorker, database, bounds
<1>2. PICK b \in Attempts : b = work[i][w].task.attempt
  BY <1>1 DEF Task
<1>3. /\ heard \in {0, 1} /\ missed \in {0, 1}
      /\ accepted'[a] = accepted[a] + heard + missed
      /\ lost'[a] = lost[a] + missed
      /\ after'[a] = after[a] + (IF ~Present(a) /\ a = b THEN 1 ELSE 0)
  <2>1. /\ accepted \in [Attempts -> Nat] /\ after \in [Attempts -> Nat]
        /\ lost \in [Attempts -> Nat]
        /\ accepted' = IF result = "success" \/ unheard
                       THEN [accepted EXCEPT ![b] = @ + 1] ELSE accepted
        /\ lost' = IF unheard THEN [lost EXCEPT ![b] = @ + 1] ELSE lost
        /\ after' = IF Present(b) THEN after ELSE [after EXCEPT ![b] = @ + 1]
    BY <1>2 DEF Deliver, TypeInv, TypeOK
  <2>2. accepted[a] \in Nat /\ after[a] \in Nat /\ lost[a] \in Nat
    BY <2>1
  <2>3. accepted'[a] = accepted[a] + heard + missed
    BY <1>1, <1>2, <2>1, <2>2
  <2>4. after'[a] = after[a] + (IF ~Present(a) /\ a = b THEN 1 ELSE 0)
    BY <2>1, <2>2
  <2>5. lost'[a] = lost[a] + missed
    BY <1>2, <2>1, <2>2
  <2> QED
    BY <2>3, <2>4, <2>5
<1>4. /\ \A done : Working(i, w, a, done) <=> a = b
      /\ \A done : Working(i, w, a, done)' <=> a = b /\ result \notin done
      /\ p \in Answers(a)' <=> a = b /\ result = "success"
      /\ p \notin Answers(a)
  <2>1. /\ work'[i][w].phase = "record" /\ work'[i][w].task.attempt = b
        /\ work'[i][w].result = result
    BY <1>1, <1>2
  <2>2. /\ \A done : Working(i, w, a, done) <=> a = b
        /\ \A done : Working(i, w, a, done)' <=> a = b /\ result \notin done
    BY <1>1, <1>2, <2>1 DEF Working, InWorker
  <2>3. p \in Answers(a)' <=> a = b /\ result = "success"
    BY <2>1 DEF Answers
  <2>4. p \notin Answers(a)
    BY <1>1 DEF Answers
  <2> QED
    BY <2>2, <2>3, <2>4
<1>5. /\ Open(a)' \subseteq Open(a)
      /\ ToSend(a)' \subseteq ToSend(a)
      /\ a = b /\ result = "success" => p \in Open(a) /\ Open(a)' \subseteq Open(a) \ {p}
      /\ a = b => p \in ToSend(a) /\ ToSend(a)' \subseteq ToSend(a) \ {p}
      /\ ~(a = b /\ result = "success") => Answers(a)' = Answers(a)
      /\ Answers(a)' \subseteq Answers(a) \cup {p}
  <2>1. /\ \A done : Places(a, done)' \subseteq Places(a, done)
        /\ \A done : ~Working(i, w, a, done)' => Places(a, done)' \subseteq Places(a, done) \ {p}
        /\ p \notin Answers(a)' => Answers(a)' = Answers(a) \ {p}
        /\ Answers(a)' \subseteq Answers(a) \cup {p}
    BY <1>1, <1>4, WorkerPlaces
  <2>2. \A done : a = b => p \in Places(a, done)
    BY <1>4, PlaceIs DEF PlaceFacts, Stands
  <2> QED
    BY <1>4, <2>1, <2>2 DEF Open, ToSend
<1> HIDE DEF p
<1>6. CASE a # b
  <2>1. Fewer(a, {"success"}) /\ Fewer(a, Result)
    BY <1>5, FewerIf DEF Open, ToSend
  <2>2. accepted'[a] = accepted[a] /\ lost'[a] = lost[a] /\ after'[a] = after[a]
    BY <1>2, <1>3, <1>6, LedgerTypes
  <2> QED
    BY <1>1, <1>5, <1>6, <2>1, <2>2, LedgerStays DEF Present
<1>7. CASE a = b
  <2>1. Present(a)' <=> Present(a)
    BY <1>1 DEF Present
  <2>2. Held(a) /\ Held(a)'
    <3>1. InWorker(i, w, a) /\ InWorker(i, w, a)'
      BY <1>1, <1>2, <1>7 DEF InWorker
    <3> QED
      BY <3>1 DEF Held, HeldBy
  <2>3. MayBeClaimed(a)' <=> MayBeClaimed(a)
    BY <1>1, <2>2 DEF MayBeClaimed
  <2>4. /\ accepted[a] \in Nat /\ lost[a] \in Nat /\ after[a] \in Nat /\ overruns \in Nat
        /\ Cardinality(Open(a)) \in Nat /\ Cardinality(Answers(a)) \in Nat
        /\ IsFiniteSet(ToSend(a)) /\ Cardinality(ToSend(a)) \in Nat
    BY LedgerTypes
  <2>5. Cardinality(ToSend(a)') \in Nat /\ Cardinality(ToSend(a)') <= Cardinality(ToSend(a)) - 1
    BY <1>5, <1>7, <2>4, DropOne, FS_CardinalityType
  <2>6. IF Present(a)' THEN after'[a] = 0
                       ELSE after'[a] + Cardinality(ToSend(a)') <= 1 + overruns'
    BY <1>1, <1>3, <1>7, <2>1, <2>4, <2>5 DEF Ledger
  <2>7. CASE result = "success"
    <3>0. heard = 1 /\ missed = 0
      BY <1>1, <1>2, <1>7, <2>7
    <3>1. /\ IsFiniteSet(Open(a)') /\ Cardinality(Open(a)') \in Nat
          /\ Cardinality(Open(a)') <= Cardinality(Open(a)) - 1
      BY <1>5, <1>7, <2>7, DropOne, FS_CardinalityType DEF Ledger
    <3>2. /\ IsFiniteSet(Answers(a)') /\ Cardinality(Answers(a)') \in Nat
          /\ Cardinality(Answers(a)') <= Cardinality(Answers(a)) + 1
      BY <1>5, AddOne, FS_CardinalityType DEF Ledger
    <3> HIDE DEF heard, missed
    <3> QED
      BY <1>1, <1>3, <1>7, <2>3, <2>4, <2>6, <2>7, <3>0, <3>1, <3>2 DEF Ledger
  <2>8. CASE result # "success"
    <3>0. heard = 0
      BY <2>8
    <3>1. /\ IsFiniteSet(Open(a)') /\ Cardinality(Open(a)') \in Nat
          /\ Cardinality(Open(a)') <= Cardinality(Open(a))
      BY <1>5, FS_Subset, FS_CardinalityType DEF Ledger
    <3>2. Answers(a)' = Answers(a)
      BY <1>5, <2>8
    <3> HIDE DEF heard, missed
    <3> QED
      BY <1>1, <1>3, <2>3, <2>4, <2>6, <2>8, <3>0, <3>1, <3>2 DEF Ledger
  <2> QED
    BY <2>7, <2>8
<1> QED
  BY <1>6, <1>7

\* A worker lets go of its task: the outcome is written, or the answer is
\* forgotten and counted as lost.
LEMMA LedgerRelease ==
    ASSUME TypeInv, TypeInv', NEW i \in Instances, NEW w \in Workers,
           RecordOutcome(i, w) \/ RecordFindsNoRow(i, w) \/ RecordFails(i, w),
           NEW a \in Attempts, Ledger(a)
    PROVE  Ledger(a)'
<1> DEFINE p == <<i, "worker", w>>
<1>1. /\ work[i][w].phase = "record" /\ work[i][w].task \in Task
      /\ work[i][w].result \in Result
      /\ work'[i][w].phase \notin {"deliver", "record"}
      /\ \A j \in Instances, v \in Workers : ~(j = i /\ v = w) => work'[j][v] = work[j][v]
      /\ UNCHANGED <<gone, batch, unsent, queue, accepted, after, overruns>>
  <2>1. work[i][w].phase = "record" /\ work[i][w].task \in Task /\ work[i][w].result \in Result
    <3>1. work[i][w].phase = "record"
      BY DEF RecordOutcome, RecordFindsNoRow, RecordFails
    <3>2. work[i][w] \in WorkerState
      BY DEF TypeInv, TypeOK
    <3> QED
      BY <3>1, <3>2 DEF WorkerState, IdleWorker
  <2>2. \E state \in {IdleWorker, [phase |-> "health", task |-> work[i][w].task,
                                   result |-> work[i][w].result]} :
           work' = [work EXCEPT ![i][w] = state]
    BY DEF RecordOutcome, RecordFindsNoRow, RecordFails
  <2>3. /\ work'[i][w].phase \notin {"deliver", "record"}
        /\ \A j \in Instances, v \in Workers : ~(j = i /\ v = w) => work'[j][v] = work[j][v]
    BY <2>2 DEF TypeInv, TypeOK, IdleWorker
  <2>4. UNCHANGED <<gone, batch, unsent, queue, accepted, after, overruns>>
    BY DEF RecordOutcome, RecordFindsNoRow, RecordFails, database, history, bounds
  <2> QED
    BY <2>1, <2>3, <2>4
<1>2. PICK t \in Task, b \in Attempts, r \in Result :
        /\ t = work[i][w].task /\ b = t.attempt /\ r = work[i][w].result
  BY <1>1 DEF Task
<1>3. \/ row' = [row EXCEPT ![b] = Outcome(t, r)] /\ lost' = lost
      \/ /\ row' = row
         /\ lost' = IF r = "success" THEN [lost EXCEPT ![b] = @ + 1] ELSE lost
  BY <1>2 DEF RecordOutcome, RecordFindsNoRow, RecordFails, Forget, database, history
<1>4. /\ \A done : ~Working(i, w, a, done)'
      /\ \A done : Working(i, w, a, done) <=> a = b /\ r \notin done
      /\ p \notin Answers(a)'
      /\ p \in Answers(a) <=> a = b /\ r = "success"
  <2>1. \A done : ~Working(i, w, a, done)'
    BY <1>1 DEF Working, InWorker
  <2>2. \A done : Working(i, w, a, done) <=> a = b /\ r \notin done
    BY <1>1, <1>2 DEF Working, InWorker
  <2>3. p \notin Answers(a)'
    BY <1>1 DEF Answers
  <2>4. p \in Answers(a) <=> a = b /\ r = "success"
    BY <1>1, <1>2 DEF Answers
  <2> QED
    BY <2>1, <2>2, <2>3, <2>4
<1>5. /\ Open(a)' \subseteq Open(a) \ {p} /\ ToSend(a)' \subseteq ToSend(a) \ {p}
      /\ a = b /\ r # "success" => p \in Open(a)
      /\ Answers(a)' = Answers(a) \ {p}
  <2>1. /\ \A done : Places(a, done)' \subseteq Places(a, done) \ {p}
        /\ Answers(a)' = Answers(a) \ {p}
    BY <1>1, <1>4, WorkerPlaces
  <2>2. ASSUME a = b, r # "success" PROVE p \in Open(a)
    <3>1. Stands(i, "worker", w, a, {"success"})
      BY <1>4, <2>2 DEF Stands
    <3> QED
      BY <3>1, PlaceIs DEF PlaceFacts, Open
  <2> QED
    BY <2>1, <2>2 DEF Open, ToSend
<1> HIDE DEF p
<1>6. CASE row'[a] = row[a] /\ lost'[a] = lost[a] /\ p \notin Answers(a)
  <2>1. Fewer(a, {"success"}) /\ Fewer(a, Result)
    BY <1>5, FewerIf DEF Open, ToSend
  <2>2. Answers(a)' = Answers(a)
    BY <1>5, <1>6
  <2> QED
    BY <1>1, <1>6, <2>1, <2>2, LedgerStays DEF Present
<1>7. CASE a = b /\ ~(row' = row /\ r # "success")
  <2>1. /\ accepted[a] \in Nat /\ lost[a] \in Nat /\ after[a] \in Nat /\ overruns \in Nat
        /\ Cardinality(Open(a)) \in Nat /\ Cardinality(Answers(a)) \in Nat
        /\ IsFiniteSet(ToSend(a)) /\ Cardinality(ToSend(a)) \in Nat
        /\ row \in [Attempts -> Row] /\ lost \in [Attempts -> Nat]
    BY LedgerTypes DEF TypeInv, TypeOK
  <2>2. /\ IsFiniteSet(Open(a)') /\ Cardinality(Open(a)') \in Nat
        /\ Cardinality(Open(a)') <= Cardinality(Open(a))
        /\ r # "success" => Cardinality(Open(a)') <= Cardinality(Open(a)) - 1
    BY <1>5, <1>7, FS_Subset, DropOne, FS_CardinalityType DEF Ledger
  <2>3. /\ IsFiniteSet(Answers(a)') /\ Cardinality(Answers(a)') \in Nat
        /\ Cardinality(Answers(a)') <= Cardinality(Answers(a))
        /\ r = "success" => /\ Cardinality(Answers(a)') <= Cardinality(Answers(a)) - 1
                            /\ Cardinality(Answers(a)) >= 1
    BY <1>4, <1>5, <1>7, FS_Subset, DropOne, SizeOf DEF Ledger
  <2>4. Cardinality(ToSend(a)') \in Nat /\ Cardinality(ToSend(a)') <= Cardinality(ToSend(a))
    BY <1>5, <2>1, FS_Subset, FS_CardinalityType
  <2>5. IF Present(a)' THEN after'[a] = 0
                       ELSE after'[a] + Cardinality(ToSend(a)') <= 1 + overruns'
    BY <1>1, <2>1, <2>4 DEF Ledger, Present
  <2>6. CASE row' = [row EXCEPT ![b] = Outcome(t, r)] /\ lost' = lost
    <3>1. row'[a] = Outcome(t, r)
      BY <1>7, <2>1, <2>6
    <3>2. Outcome(t, r).status = "delivered" <=> r = "success"
      BY EngineAssumption DEF Outcome, Result, Task
    <3>3. MayBeClaimed(a)' => r # "success"
      BY <3>1, <3>2 DEF MayBeClaimed
    <3>4. row'[a].status = "delivered" =>
            lost'[a] + Cardinality(Answers(a)') < accepted'[a]
      BY <1>1, <2>1, <2>3, <2>6, <3>1, <3>2 DEF Ledger
    <3> QED
      BY <1>1, <2>1, <2>2, <2>3, <2>5, <2>6, <3>3, <3>4 DEF Ledger
  <2>7. CASE row' = row /\ r = "success" /\ lost' = [lost EXCEPT ![b] = @ + 1]
    <3>1. lost'[a] = lost[a] + 1
      BY <1>7, <2>1, <2>7
    <3> QED
      BY <1>1, <2>1, <2>2, <2>3, <2>5, <2>7, <3>1 DEF Ledger
  <2> QED
    BY <1>3, <1>7, <2>6, <2>7
<1>8. CASE ~(a = b /\ ~(row' = row /\ r # "success"))
  <2>1. row'[a] = row[a] /\ lost'[a] = lost[a]
    BY <1>3, <1>8 DEF TypeInv, TypeOK
  <2>2. p \notin Answers(a)
    BY <1>4, <1>8
  <2> QED
    BY <1>6, <2>1, <2>2
<1> QED
  BY <1>7, <1>8

LEMMA LedgerHealth ==
    ASSUME TypeInv, TypeInv', NEW i \in Instances, NEW w \in Workers,
           UpdateHealth(i, w) \/ HealthFails(i, w),
           NEW a \in Attempts, Ledger(a)
    PROVE  Ledger(a)'
<1>1. /\ work[i][w].phase = "health" /\ work'[i][w].phase = "idle"
      /\ \A j \in Instances, v \in Workers : ~(j = i /\ v = w) => work'[j][v] = work[j][v]
      /\ UNCHANGED <<row, gone, batch, unsent, queue, accepted, lost, after, overruns>>
  BY DEF UpdateHealth, HealthFails, TypeInv, TypeOK, IdleWorker, database, history, bounds
<1>2. /\ \A done : ~Working(i, w, a, done)'
      /\ <<i, "worker", w>> \notin Answers(a)' /\ <<i, "worker", w>> \notin Answers(a)
  BY <1>1 DEF Working, InWorker, Answers
<1>3. /\ \A done : Places(a, done)' \subseteq Places(a, done) \ {<<i, "worker", w>>}
      /\ Answers(a)' = Answers(a) \ {<<i, "worker", w>>}
  BY <1>1, <1>2, WorkerPlaces
<1>4. Fewer(a, {"success"}) /\ Fewer(a, Result)
  BY <1>3, FewerIf
<1>5. Answers(a)' = Answers(a)
  BY <1>2, <1>3
<1> QED
  BY <1>1, <1>4, <1>5, LedgerStays DEF Present

\* The copies that die with a process are gone, and the answers among them are
\* counted as lost.
LEMMA LedgerKill ==
    ASSUME TypeInv, TypeInv', NEW i \in Instances, Kill(i),
           NEW a \in Attempts, Ledger(a)
    PROVE  Ledger(a)'
<1> DEFINE W == {w \in Workers : /\ work[i][w].phase = "record"
                                 /\ work[i][w].task.attempt = a
                                 /\ work[i][w].result = "success"}
           dead == {q \in Answers(a) : q[1] = i}
<1>1. /\ batch'[i] = {} /\ unsent'[i] = {} /\ queue'[i] = <<>>
      /\ \A w \in Workers : work'[i][w] = IdleWorker
      /\ OnlyIn(i)
      /\ lost'[a] = lost[a] + Forgotten(i, a)
      /\ UNCHANGED <<row, gone, accepted, after, overruns>>
  BY DEF Kill, OnlyIn, TypeInv, TypeOK, database
<1>2. ASSUME NEW done PROVE Places(a, done)' \subseteq Places(a, done)
  <2>1. ASSUME NEW x, NEW k PROVE ~Stands(i, x, k, a, done)'
    BY <1>1 DEF Stands, Working, InBatch, InUnsent, InWorker, IdleWorker
  <2> QED
    BY <1>1, <2>1, NoNewPlace
<1>3. Answers(a)' = Answers(a) \ dead
  BY <1>1 DEF Answers, OnlyIn, IdleWorker
<1>4. /\ IsFiniteSet(dead) /\ Cardinality(dead) = Forgotten(i, a)
  <2> DEFINE f == [w \in W |-> <<i, "worker", w>>]
  <2>1. f \in Bijection(W, dead)
    <3>1. f \in [W -> dead]
      BY DEF Answers
    <3>2. \A v, w \in W : f[v] = f[w] => v = w
      OBVIOUS
    <3>3. \A q \in dead : q[3] \in W /\ f[q[3]] = q
      BY DEF Answers
    <3> QED
      BY <3>1, <3>2, <3>3 DEF Bijection, Injection, Surjection, IsInjective
  <2>2. IsFiniteSet(W)
    BY EngineAssumption, FS_Subset
  <2> QED
    BY <2>1, <2>2, FS_Bijection DEF ExistsBijection, Forgotten
<1> HIDE DEF dead, W
<1>5. /\ IsFiniteSet(Answers(a)') /\ Forgotten(i, a) \in Nat
      /\ Cardinality(Answers(a)') = Cardinality(Answers(a)) - Forgotten(i, a)
  <2>1. Answers(a) \cap dead = dead
    BY DEF dead
  <2> QED
    <3>1. IsFiniteSet(Answers(a))
      BY DEF Ledger
    <3>2. /\ IsFiniteSet(Answers(a) \ dead)
          /\ Cardinality(Answers(a) \ dead) = Cardinality(Answers(a)) - Cardinality(dead)
      BY <2>1, <3>1, FS_Difference
    <3>3. Forgotten(i, a) \in Nat
      BY <1>4, FS_CardinalityType
    <3> QED
      BY <1>3, <1>4, <3>2, <3>3
<1>6. /\ accepted[a] \in Nat /\ lost[a] \in Nat /\ after[a] \in Nat /\ overruns \in Nat
      /\ Cardinality(Open(a)) \in Nat /\ Cardinality(Answers(a)) \in Nat
      /\ IsFiniteSet(ToSend(a)) /\ Cardinality(ToSend(a)) \in Nat
  BY LedgerTypes
<1>7. /\ IsFiniteSet(Open(a)') /\ Cardinality(Open(a)') \in Nat
      /\ Cardinality(Open(a)') <= Cardinality(Open(a))
      /\ Cardinality(ToSend(a)') \in Nat /\ Cardinality(ToSend(a)') <= Cardinality(ToSend(a))
  BY <1>2, <1>6, FS_Subset, FS_CardinalityType DEF Ledger, Open, ToSend
<1>8. ASSUME MayBeClaimed(a)', ~MayBeClaimed(a)
      PROVE  Cardinality(Open(a)') + 1 <= Cardinality(Open(a)) + Forgotten(i, a)
  <2>1. Held(a) /\ ~Held(a)'
    BY <1>1, <1>8 DEF MayBeClaimed
  <2>2. /\ Open(a) # {} \/ Answers(a) # {}
        /\ Open(a)' = {} /\ Answers(a)' = {}
    BY <2>1, HoldersArePlaces, HoldersArePlacesNext DEF HolderFacts
  <2>3. /\ Open(a) # {} => Cardinality(Open(a)) >= 1
        /\ Answers(a) # {} => Cardinality(Answers(a)) >= 1
        /\ Cardinality(Open(a)') = 0 /\ Cardinality(Answers(a)') = 0
    BY <1>5, <1>7, <2>2, SizeOf DEF Ledger
  <2> QED
    <3>1. Cardinality(Answers(a)) = Forgotten(i, a)
      BY <1>5, <1>6, <2>3
    <3>2. Cardinality(Open(a)) >= 1 \/ Forgotten(i, a) >= 1
      BY <2>2, <2>3, <3>1
    <3> QED
      BY <1>5, <1>6, <2>3, <3>2
<1>9. IF Present(a)' THEN after'[a] = 0
                     ELSE after'[a] + Cardinality(ToSend(a)') <= 1 + overruns'
  BY <1>1, <1>6, <1>7 DEF Ledger, Present
<1> QED
  <2> DEFINE old == IF MayBeClaimed(a) THEN 1 ELSE 0
             new == IF MayBeClaimed(a)' THEN 1 ELSE 0
  <2>0. old \in Nat /\ new \in Nat
    OBVIOUS
  <2>1. Cardinality(Open(a)') + new <= Cardinality(Open(a)) + old + Forgotten(i, a)
    BY <1>5, <1>6, <1>7, <1>8
  <2>4. Cardinality(Open(a)) + old + accepted[a] <= 1 + overruns + lost[a]
    BY DEF Ledger
  <2>5. accepted'[a] = accepted[a] /\ overruns' = overruns /\ lost'[a] = lost[a] + Forgotten(i, a)
    BY <1>1
  <2>2. Cardinality(Open(a)') + new + accepted'[a] <= 1 + overruns' + lost'[a]
    <3> HIDE DEF old, new
    <3> QED
      BY <1>5, <1>6, <1>7, <2>0, <2>1, <2>4, <2>5
  <2>3. lost'[a] + Cardinality(Answers(a)') <= accepted'[a]
    BY <1>1, <1>5, <1>6 DEF Ledger
  <2> QED
    BY <1>1, <1>5, <1>6, <1>7, <1>9, <2>2, <2>3 DEF Ledger

-----------------------------------------------------------------------------
(* Time and operators                                                      *)

LEMMA LedgerEnvironment ==
    ASSUME TypeInv, TypeInv', Environment, NEW a \in Attempts, Ledger(a)
    PROVE  Ledger(a)'
<1>1. UNCHANGED <<batch, unsent, queue, work, accepted, lost, after>>
  BY DEF Environment, BackoffElapses, GoStale, ManualRetry, PatchEndpoint, DeleteEndpoint,
         memory, history
<1>2. /\ Open(a)' = Open(a) /\ ToSend(a)' = ToSend(a)
      /\ Answers(a)' = Answers(a) /\ (Held(a)' <=> Held(a))
  BY <1>1, SameMemory
<1>3. /\ accepted[a] \in Nat /\ lost[a] \in Nat /\ after[a] \in Nat /\ overruns \in Nat
      /\ overruns' \in Nat
      /\ Cardinality(Open(a)) \in Nat /\ Cardinality(Answers(a)) \in Nat
      /\ IsFiniteSet(ToSend(a)) /\ Cardinality(ToSend(a)) \in Nat
      /\ Cardinality(ToSend(a)) <= Cardinality(Open(a))
  BY LedgerTypes, EngineAssumption DEF TypeInv, TypeOK
<1>4. ASSUME NEW b \in Attempts, BackoffElapses(b) \/ GoStale(b) \/ ManualRetry(b)
      PROVE  Ledger(a)'
  <2>1. /\ gone' = gone
        /\ row'[a].status = "delivered" => row[a].status = "delivered"
        /\ \/ overruns' = overruns /\ (MayBeClaimed(a)' => MayBeClaimed(a))
           \/ overruns' = overruns + 1
    <3> USE DEF TypeInv, TypeOK
    <3>0. row \in [Attempts -> Row] /\ row[a] \in Row /\ row[b] \in Row
      OBVIOUS
    <3>1. CASE BackoffElapses(b)
      <4>1. /\ gone' = gone /\ overruns' = overruns
            /\ row' = [row EXCEPT ![b].due = TRUE]
        BY <3>1 DEF BackoffElapses, bounds
      <4>2. row'[a].status = row[a].status /\ row'[a].stale = row[a].stale
        BY <3>0, <4>1 DEF Row
      <4> QED
        BY <1>2, <4>1, <4>2 DEF MayBeClaimed
    <3>2. CASE GoStale(b)
      <4>1. /\ gone' = gone /\ row' = [row EXCEPT ![b].stale = TRUE]
            /\ (overruns' = overruns /\ ~Held(b)) \/ overruns' = overruns + 1
        BY <3>2 DEF GoStale
      <4>2. row'[a].status = row[a].status /\ (a # b => row'[a] = row[a])
        BY <3>0, <4>1 DEF Row
      <4> QED
        BY <1>2, <4>1, <4>2 DEF MayBeClaimed
    <3>3. CASE ManualRetry(b)
      <4>1. /\ gone' = gone /\ overruns' = overruns
            /\ row[b].status \in {"failed", "dead_letter"}
            /\ row' = [row EXCEPT ![b] = NewRow]
        BY <3>3 DEF ManualRetry
      <4>2. CASE a = b
        BY <3>0, <4>1, <4>2 DEF MayBeClaimed, NewRow
      <4>3. CASE a # b
        BY <1>2, <3>0, <4>1, <4>3 DEF MayBeClaimed
      <4> QED
        BY <4>2, <4>3
    <3> QED
      BY <1>4, <3>1, <3>2, <3>3
  <2>2. Present(a)' <=> Present(a)
    BY <2>1 DEF Present
  <2> QED
    BY <1>1, <1>2, <1>3, <2>1, <2>2 DEF Ledger
<1>5. ASSUME NEW e \in Endpoints, NEW h \in Health, PatchEndpoint(e, h) PROVE Ledger(a)'
  <2>1. UNCHANGED <<row, gone, history, overruns, batch, unsent, queue, work>>
    BY <1>5 DEF PatchEndpoint, memory
  <2> QED
    BY <2>1, LedgerIdle
<1>6. ASSUME NEW e \in Endpoints, DeleteEndpoint(e) PROVE Ledger(a)'
  <2>1. UNCHANGED <<row, overruns>> /\ (Present(a)' => Present(a))
    BY <1>6 DEF DeleteEndpoint, Present
  <2>2. MayBeClaimed(a)' <=> MayBeClaimed(a)
    BY <1>2, <2>1 DEF MayBeClaimed
  <2>3. after[a] + Cardinality(ToSend(a)) <= 1 + overruns
    BY <1>3 DEF Ledger
  <2>4. IF Present(a)' THEN after'[a] = 0
                       ELSE after'[a] + Cardinality(ToSend(a)') <= 1 + overruns'
    BY <1>1, <1>2, <2>1, <2>3 DEF Ledger
  <2> QED
    BY <1>1, <1>2, <2>1, <2>2, <2>4 DEF Ledger
<1> QED
  BY <1>4, <1>5, <1>6 DEF Environment

LEMMA LedgerNext ==
    ASSUME LedgerInv, [Next]_vars
    PROVE  LedgerInv'
<1>1. TypeInv' /\ Quiet'
  BY TypeDispatcher, TypeWorker, TypeProcess, TypeEnvironment, QuietStep
  DEF LedgerInv, Next, TypeInv, TypeOK, BreakerConsistent, vars, database, memory,
      history, bounds
<1>2. ASSUME UNCHANGED <<row, gone, history, overruns, batch, unsent, queue, work>>
      PROVE  BatchOnce' /\ \A a \in Attempts : Ledger(a)'
  BY <1>1, <1>2, LedgerIdle DEF LedgerInv, BatchOnce
<1>3. ASSUME NEW i \in Instances, Process(i)
      PROVE  BatchOnce' /\ \A a \in Attempts : Ledger(a)'
  <2>1. CASE Kill(i)
    <3>1. BatchOnce'
      BY <2>1 DEF Kill, LedgerInv, TypeInv, TypeOK, BatchOnce
    <3> QED
      BY <1>1, <2>1, <3>1, LedgerKill DEF LedgerInv
  <2>2. CASE ~Kill(i)
    <3>1. UNCHANGED <<row, gone, history, overruns, batch, unsent, queue, work>>
      BY <1>3, <2>2 DEF Process, StopSignal, ClosePool, Exit, Boot, database, memory, bounds
    <3> QED
      BY <1>2, <3>1
  <2> QED
    BY <2>1, <2>2
<1>4. ASSUME NEW i \in Instances, NEW w \in Workers, Worker(i, w)
      PROVE  BatchOnce' /\ \A a \in Attempts : Ledger(a)'
  <2>1. batch' = batch
    BY <1>4 DEF Worker, TakeTask, Deliver, RecordOutcome, RecordFindsNoRow, RecordFails,
           UpdateHealth, HealthFails
  <2>2. BatchOnce'
    BY <2>1 DEF LedgerInv, BatchOnce
  <2> QED
    BY <1>1, <1>4, <2>2, LedgerTake, LedgerDeliver, LedgerRelease, LedgerHealth
    DEF Worker, LedgerInv
<1>5. ASSUME Environment PROVE BatchOnce' /\ \A a \in Attempts : Ledger(a)'
  <2>1. batch' = batch
    BY <1>5 DEF Environment, BackoffElapses, GoStale, ManualRetry, PatchEndpoint,
                DeleteEndpoint, memory
  <2> QED
    BY <1>1, <1>5, <2>1, LedgerEnvironment DEF LedgerInv, BatchOnce
<1>6. CASE UNCHANGED vars
  <2>1. UNCHANGED <<row, gone, history, overruns, batch, unsent, queue, work>>
    BY <1>6 DEF vars, database, memory, bounds
  <2> QED
    BY <1>1, <1>2, <2>1 DEF LedgerInv
<1> QED
  BY <1>1, <1>3, <1>4, <1>5, <1>6, LedgerDispatcher DEF Next, LedgerInv

LEMMA LedgerInit == Init => LedgerInv
<1> SUFFICES ASSUME Init PROVE LedgerInv
  OBVIOUS
<1>1. TypeInv /\ Quiet /\ BatchOnce
  BY TypeInit DEF Init, Quiet, BatchOnce
<1> SUFFICES ASSUME NEW a \in Attempts PROVE Ledger(a)
  BY <1>1 DEF LedgerInv
<1>2. \A done : \A i \in Instances : \A x, k : ~Stands(i, x, k, a, done)
  BY DEF Init, Stands, Working, InBatch, InUnsent, InWorker, IdleWorker
<1>3. Open(a) = {} /\ ToSend(a) = {} /\ Answers(a) = {}
  <2>1. \A done : Places(a, done) = {}
    BY <1>1, <1>2, PlaceIs DEF PlaceFacts
  <2>2. Answers(a) = {}
    BY DEF Init, Answers, IdleWorker
  <2> QED
    BY <2>1, <2>2 DEF Open, ToSend
<1>4. IsFiniteSet({}) /\ Cardinality({}) = 0
  BY FS_EmptySet
<1>5. /\ accepted[a] = 0 /\ lost[a] = 0 /\ after[a] = 0 /\ overruns = 0
      /\ row[a].status = "pending" /\ Present(a)
  BY DEF Init, NewRow, Present
<1> QED
  BY <1>3, <1>4, <1>5 DEF Ledger

\* However many tasks outlive the five minutes, a row says delivered only if
\* the receiver answered 2xx, and each overrun pays for one more copy of a task
\* at the most, one more 2xx of an attempt and one more POST to an endpoint
\* that was deleted.
THEOREM EngineHistory == Spec => [](/\ DeliveredWasAccepted
                                    /\ CopiesBounded
                                    /\ DuplicatesPaidFor
                                    /\ DeletedIsSentOnce)
<1>1. ASSUME LedgerInv
      PROVE  DeliveredWasAccepted /\ CopiesBounded /\ DuplicatesPaidFor /\ DeletedIsSentOnce
  <2> SUFFICES ASSUME NEW a \in Attempts
               PROVE  /\ row[a].status = "delivered" => accepted[a] > lost[a]
                      /\ Cardinality(Holders(a)) <= 1 + overruns
                      /\ accepted[a] <= lost[a] + (1 + overruns)
                      /\ after[a] <= 1 + overruns
    BY <1>1 DEF DeliveredWasAccepted, CopiesBounded, DuplicatesPaidFor, DeletedIsSentOnce,
                Copies
  <2>1. TypeInv /\ Ledger(a)
    BY <1>1 DEF LedgerInv
  <2>2. /\ accepted[a] \in Nat /\ lost[a] \in Nat /\ after[a] \in Nat /\ overruns \in Nat
        /\ Cardinality(Open(a)) \in Nat /\ Cardinality(Answers(a)) \in Nat
        /\ Cardinality(ToSend(a)) \in Nat
    BY <2>1, LedgerTypes
  <2>3. Holders(a) \in SUBSET (Open(a) \cup Answers(a))
    BY <2>1, HoldersArePlaces DEF HolderFacts
  <2>4. /\ IsFiniteSet(Open(a) \cup Answers(a))
        /\ Cardinality(Open(a) \cup Answers(a)) <= Cardinality(Open(a)) + Cardinality(Answers(a))
    <3>1. IsFiniteSet(Open(a)) /\ IsFiniteSet(Answers(a))
      BY <2>1 DEF Ledger
    <3>2. /\ IsFiniteSet(Open(a) \cup Answers(a))
          /\ Cardinality(Open(a) \cup Answers(a))
               = Cardinality(Open(a)) + Cardinality(Answers(a)) - Cardinality(Open(a) \cap Answers(a))
      BY <3>1, FS_Union
    <3>3. Cardinality(Open(a) \cap Answers(a)) \in Nat
      BY <3>1, FS_Subset, FS_CardinalityType
    <3> QED
      BY <2>2, <3>2, <3>3
  <2>5. /\ Cardinality(Holders(a)) \in Nat
        /\ Cardinality(Holders(a)) <= Cardinality(Open(a)) + Cardinality(Answers(a))
    <3>1. /\ IsFiniteSet(Holders(a))
          /\ Cardinality(Holders(a)) <= Cardinality(Open(a) \cup Answers(a))
      BY <2>3, <2>4, FS_Subset
    <3> QED
      BY <2>2, <2>4, <3>1, FS_CardinalityType
  <2> QED
    BY <2>1, <2>2, <2>5 DEF Ledger
<1> QED
  BY <1>1, LedgerInit, LedgerNext, PTL DEF Spec
-----------------------------------------------------------------------------
(* What the breaker has counted.  The rows tell how often an attempt has   *)
(* failed, and each failure is on its way to the breaker, has been counted *)
(* by it, or is lost to a fault.                                           *)

\* The streak of an endpoint that has answered 2xx may have been ended by that
\* answer: by then a row says delivered, and it says so for good.
Undelivered(e) == \A a \in Attempts : EndpointOf[a] = e => row[a].status # "delivered"

\* The failures that faults may have taken away.
Allowance == faults * Cardinality(Workers)

Streak(e) ==
    /\ IsFiniteSet(Reporting(e))
    /\ health[e].failures + Cardinality(Reporting(e)) <= Cardinality(RecordedFailures(e))
    /\ health[e].status = "active" /\ Undelivered(e) =>
         Cardinality(RecordedFailures(e))
             <= health[e].failures + Cardinality(Reporting(e)) + Allowance

\* A worker reports a success only after the row has it.
Reported ==
    \A i \in Instances, w \in Workers :
        work[i][w].phase = "health" /\ work[i][w].result = "success" =>
            row[work[i][w].task.attempt].status = "delivered"

Streaks == operator = 0 => gone = {} /\ \A e \in Endpoints : Streak(e)

StreakInv == SafeInv /\ LedgerInv /\ Reported /\ Streaks

LEMMA StreakTypes ==
    ASSUME TypeInv, NEW e \in Endpoints
    PROVE  /\ IsFiniteSet(RecordedFailures(e)) /\ Cardinality(RecordedFailures(e)) \in Nat
           /\ health[e] \in Health /\ health[e].failures \in Nat
           /\ Allowance \in Nat /\ Cardinality(Workers) \in Nat
<1>1. NAttempts \in Int /\ LastNumber \in Int /\ 1 \in Int
  BY EngineAssumption, LastNumberType
<1>2. IsFiniteSet(1..NAttempts) /\ IsFiniteSet(1..LastNumber)
  BY <1>1, FS_Interval
<1>3. IsFiniteSet(Attempts \X (1..LastNumber))
  BY <1>2, FS_Product DEF Attempts
<1>4. RecordedFailures(e) \in SUBSET (Attempts \X (1..LastNumber))
  BY DEF RecordedFailures
<1>5. IsFiniteSet(RecordedFailures(e)) /\ Cardinality(RecordedFailures(e)) \in Nat
  BY <1>3, <1>4, FS_Subset, FS_CardinalityType
<1>6. health[e] \in Health /\ health[e].failures \in Nat
  BY MaxFailuresAssumption DEF TypeInv, TypeOK, Health
<1>7. faults \in Nat /\ Cardinality(Workers) \in Nat
  BY EngineAssumption, FS_CardinalityType DEF TypeInv, TypeOK
<1> QED
  BY <1>5, <1>6, <1>7 DEF Allowance

\* What a product does when its first factor grows.
LEMMA AllowanceGrows ==
    ASSUME TypeInv, faults' \in Nat
    PROVE  /\ faults' = faults => Allowance' = Allowance
           /\ faults' = faults + 1 => Allowance' = Allowance + Cardinality(Workers)
<1>1. faults \in Nat /\ Cardinality(Workers) \in Nat
  BY EngineAssumption, FS_CardinalityType DEF TypeInv, TypeOK
<1>2. \A n, c \in Nat : (n + 1) * c = n * c + c
  OBVIOUS
<1> QED
  BY <1>1, <1>2 DEF Allowance

\* A step that keeps the numbers of the rows and what has ended in failure.
LEMMA SameFailures ==
    ASSUME NEW e \in Endpoints,
           \A a \in Attempts :
              /\ row'[a].number = row[a].number
              /\ row'[a].status \in {"failed", "dead_letter"}
                   <=> row[a].status \in {"failed", "dead_letter"}
    PROVE  RecordedFailures(e)' = RecordedFailures(e)
BY DEF RecordedFailures

\* A step after which the same failures are recorded, counted and on their way,
\* with or without a fault.
LEMMA StreakStays ==
    ASSUME TypeInv, TypeInv', NEW e \in Endpoints, Streak(e),
           RecordedFailures(e)' = RecordedFailures(e), Reporting(e)' = Reporting(e),
           health'[e] = health[e], Undelivered(e)' => Undelivered(e),
           faults' = faults \/ faults' = faults + 1
    PROVE  Streak(e)'
<1> DEFINE F == Cardinality(RecordedFailures(e))
           G == Cardinality(Reporting(e))
           h == health[e].failures
           A == Allowance
           C == Cardinality(Workers)
<1>1. F \in Nat /\ h \in Nat /\ A \in Nat /\ C \in Nat /\ G \in Nat
  BY StreakTypes, SizeOf DEF Streak
<1>2. faults' \in Nat
  BY EngineAssumption DEF TypeInv, TypeOK
<1>3. A' = A \/ A' = A + C
  BY <1>2, AllowanceGrows
<1>4. /\ Cardinality(RecordedFailures(e)') = F /\ Cardinality(Reporting(e)') = G
      /\ health'[e].failures = h
  OBVIOUS
<1>5. IsFiniteSet(Reporting(e)') /\ h + G <= F
  BY DEF Streak
<1>6. health[e].status = "active" /\ Undelivered(e) => F <= h + G + A
  BY DEF Streak
<1>7. health'[e].status = "active" /\ Undelivered(e)' => F <= h + G + A'
  <2> HIDE DEF F, G, h, A, C
  <2> QED
    BY <1>1, <1>3, <1>6
<1> QED
  BY <1>4, <1>5, <1>7 DEF Streak

\* A delivered row stays delivered, so an endpoint none of whose attempts is
\* delivered had none before.
LEMMA UndeliveredBefore ==
    ASSUME MaxOverruns = 0, SafeInv, [Next]_vars, NEW e \in Endpoints, Undelivered(e)'
    PROVE  Undelivered(e)
BY SettledStep DEF Undelivered

\* A step that touches neither the workers nor the breaker, nor what has failed.
LEMMA StreakIdle ==
    ASSUME MaxOverruns = 0, SafeInv, SafeInv', [Next]_vars, NEW e \in Endpoints, Streak(e),
           UNCHANGED <<health, work>>, faults' = faults \/ faults' = faults + 1,
           \A a \in Attempts :
              /\ row'[a].number = row[a].number
              /\ row'[a].status \in {"failed", "dead_letter"}
                   <=> row[a].status \in {"failed", "dead_letter"}
    PROVE  Streak(e)'
<1>1. RecordedFailures(e)' = RecordedFailures(e)
  BY SameFailures
<1>2. Reporting(e)' = Reporting(e)
  BY DEF Reporting
<1> QED
  BY <1>1, <1>2, UndeliveredBefore, StreakStays DEF SafeInv

\* The claim and the hand-back write rows in pending and processing only.
LEMMA StreakDispatcher ==
    ASSUME MaxOverruns = 0, SafeInv, SafeInv', Next, NEW i \in Instances, Dispatcher(i),
           NEW e \in Endpoints, Streak(e)
    PROVE  Streak(e)'
<1>1. /\ UNCHANGED <<health, work>> /\ (faults' = faults \/ faults' = faults + 1)
      /\ row' = row \/ MarkProcessing \/ RevertToPending(i)
  BY DEF Dispatcher, BeginPoll, DispatcherExit, FetchAndClaimPending, ClaimFails, BeginSend,
         CollectRemaining, Enqueue, EnqueueFails, RevertToPending, RevertFails, database,
         bounds
<1>2. row \in [Attempts -> Row]
  BY DEF SafeInv, TypeInv, TypeOK
<1>3. ASSUME NEW a \in Attempts
      PROVE  /\ row'[a].number = row[a].number
             /\ row'[a].status \in {"failed", "dead_letter"}
                  <=> row[a].status \in {"failed", "dead_letter"}
  <2>1. CASE row' = row
    BY <2>1
  <2>2. CASE MarkProcessing
    <3>1. row'[a] = IF a \in Claimed
                    THEN [row[a] EXCEPT !.status = "processing", !.stale = FALSE]
                    ELSE row[a]
      BY <2>2 DEF MarkProcessing
    <3>2. a \in Claimed => row[a].status \in {"pending", "processing"}
      BY DEF Claimed, Claimable
    <3> QED
      BY <1>2, <3>1, <3>2 DEF Row
  <2>3. CASE RevertToPending(i)
    <3>1. row'[a] = IF a \in unsent[i] /\ Present(a)
                    THEN [row[a] EXCEPT !.status = "pending", !.stale = FALSE]
                    ELSE row[a]
      BY <2>3 DEF RevertToPending
    <3>2. a \in unsent[i] => row[a].status = "processing"
      BY DEF SafeInv, Exclusive, Young, HeldBy, InUnsent
    <3> QED
      BY <1>2, <3>1, <3>2 DEF Row
  <2> QED
    BY <1>1, <2>1, <2>2, <2>3
<1> QED
  BY <1>1, <1>3, StreakIdle

\* A killed process takes one failure per worker at the most with it.
LEMMA StreakKill ==
    ASSUME MaxOverruns = 0, SafeInv, SafeInv', Next, NEW i \in Instances, Kill(i),
           NEW e \in Endpoints, Streak(e)
    PROVE  Streak(e)'
<1> DEFINE P == {i} \X Workers
           F == Cardinality(RecordedFailures(e))
           G == Cardinality(Reporting(e))
           H == Cardinality(Reporting(e)')
           h == health[e].failures
           C == Cardinality(Workers)
<1>1. /\ row' = row /\ health' = health /\ faults' = faults + 1
      /\ work' = [work EXCEPT ![i] = [w \in Workers |-> IdleWorker]]
  BY DEF Kill, database
<1>2. TypeInv /\ TypeInv' /\ faults' \in Nat
  BY EngineAssumption DEF SafeInv, TypeInv, TypeOK
<1>3. Reporting(e)' = Reporting(e) \ P
  BY <1>1, <1>2 DEF Reporting, TypeInv, TypeOK, IdleWorker
<1>4. IsFiniteSet(P) /\ Cardinality(P) = C
  <2>1. IsFiniteSet({i}) /\ Cardinality({i}) = 1 /\ IsFiniteSet(Workers) /\ C \in Nat
    BY FS_Singleton, EngineAssumption, FS_CardinalityType
  <2>2. IsFiniteSet(P) /\ Cardinality(P) = Cardinality({i}) * C
    BY <2>1, FS_Product
  <2> QED
    BY <2>1, <2>2
<1>5. IsFiniteSet(Reporting(e))
  BY DEF Streak
<1>6. /\ IsFiniteSet(Reporting(e)')
      /\ H = G - Cardinality(Reporting(e) \cap P)
  BY <1>3, <1>5, FS_Difference
<1>7. Cardinality(Reporting(e) \cap P) \in Nat /\ Cardinality(Reporting(e) \cap P) <= C
  <2>1. (Reporting(e) \cap P) \in SUBSET P
    OBVIOUS
  <2> QED
    BY <1>4, <2>1, FS_Subset, FS_CardinalityType
<1>8. F \in Nat /\ G \in Nat /\ h \in Nat /\ Allowance \in Nat /\ C \in Nat
  BY <1>2, <1>5, StreakTypes, FS_CardinalityType
<1>9. Allowance' = Allowance + C
  BY <1>1, <1>2, AllowanceGrows
<1>10. RecordedFailures(e)' = RecordedFailures(e) /\ health'[e] = health[e]
  BY <1>1 DEF RecordedFailures
<1>11. Undelivered(e)' => Undelivered(e)
  BY UndeliveredBefore
<1>12. /\ h + G <= F
       /\ health[e].status = "active" /\ Undelivered(e) => F <= h + G + Allowance
  BY DEF Streak
<1>13. /\ h + H <= F
       /\ health[e].status = "active" /\ Undelivered(e)' => F <= h + H + Allowance'
  <2> DEFINE D == Cardinality(Reporting(e) \cap P)
  <2>1. H = G - D /\ D \in Nat /\ D <= C
    BY <1>6, <1>7
  <2> HIDE DEF F, G, H, h, C, D
  <2> QED
    BY <1>8, <1>9, <1>11, <1>12, <2>1
<1> QED
  BY <1>6, <1>10, <1>13 DEF Streak

LEMMA StreakProcess ==
    ASSUME MaxOverruns = 0, SafeInv, SafeInv', Next, NEW i \in Instances, Process(i),
           NEW e \in Endpoints, Streak(e)
    PROVE  Streak(e)'
<1>1. CASE Kill(i)
  BY <1>1, StreakKill
<1>2. CASE ~Kill(i)
  <2>1. UNCHANGED <<row, health, work, faults>>
    BY <1>2 DEF Process, StopSignal, ClosePool, Exit, Boot, database, memory, bounds
  <2> QED
    BY <2>1, StreakIdle
<1> QED
  BY <1>1, <1>2

\* As long as no operator acts, the environment is the clock.
LEMMA StreakEnvironment ==
    ASSUME MaxOverruns = 0, SafeInv, SafeInv', Next, Environment, operator' = 0,
           NEW e \in Endpoints, Streak(e)
    PROVE  Streak(e)'
<1>0. row \in [Attempts -> Row] /\ operator \in Nat
  BY EngineAssumption DEF SafeInv, TypeInv, TypeOK
<1>1. PICK b \in Attempts : BackoffElapses(b) \/ GoStale(b)
  BY <1>0 DEF Environment, ManualRetry, PatchEndpoint, DeleteEndpoint
<1>2. /\ UNCHANGED <<health, work, faults>>
      /\ row' = [row EXCEPT ![b].due = TRUE] \/ row' = [row EXCEPT ![b].stale = TRUE]
  BY <1>1 DEF BackoffElapses, GoStale, memory, bounds
<1>3. \A a \in Attempts : row'[a].number = row[a].number /\ row'[a].status = row[a].status
  BY <1>0, <1>2 DEF Row
<1> QED
  BY <1>2, <1>3, StreakIdle

\* What a step of worker w of instance i does to the failures on their way.
Reports(j, e) == /\ j.phase = "health"
                 /\ EndpointOf[j.task.attempt] = e
                 /\ j.result # "success"

LEMMA WorkerReports ==
    ASSUME TypeInv, NEW i \in Instances, NEW w \in Workers, NEW x,
           work' = [work EXCEPT ![i][w] = x], NEW e \in Endpoints
    PROVE  /\ <<i, w>> \in Reporting(e) <=> Reports(work[i][w], e)
           /\ Reports(x, e) => Reporting(e)' = Reporting(e) \cup {<<i, w>>}
           /\ ~Reports(x, e) => Reporting(e)' = Reporting(e) \ {<<i, w>>}
<1>1. work'[i][w] = x
  BY DEF TypeInv, TypeOK
<1>2. \A j \in Instances, v \in Workers : <<j, v>> # <<i, w>> => work'[j][v] = work[j][v]
  BY DEF TypeInv, TypeOK
<1>3. \A q \in Instances \X Workers :
         /\ q \in Reporting(e) <=> Reports(work[q[1]][q[2]], e)
         /\ q \in Reporting(e)' <=> Reports(work'[q[1]][q[2]], e)
  BY DEF Reporting, Reports
<1>4. \A q \in Instances \X Workers :
         q # <<i, w>> => (q \in Reporting(e)' <=> q \in Reporting(e))
  <2> TAKE q \in Instances \X Workers
  <2>1. q = <<q[1], q[2]>> /\ q[1] \in Instances /\ q[2] \in Workers
    OBVIOUS
  <2> QED
    BY <1>2, <1>3, <2>1
<1>5. <<i, w>> \in Instances \X Workers
  OBVIOUS
<1>6. /\ <<i, w>> \in Reporting(e) <=> Reports(work[i][w], e)
      /\ <<i, w>> \in Reporting(e)' <=> Reports(x, e)
  BY <1>1, <1>3, <1>5
<1>7. Reporting(e) \subseteq Instances \X Workers /\ Reporting(e)' \subseteq Instances \X Workers
  BY DEF Reporting
<1> QED
  BY <1>4, <1>5, <1>6, <1>7

LEMMA IdleReportsNothing == \A e \in Endpoints : ~Reports(IdleWorker, e)
BY DEF Reports, IdleWorker

\* An outcome other than a success is one more failure on the record, and a
\* success none.
LEMMA OutcomeCounts ==
    ASSUME TypeInv, NEW t \in Task, NEW r \in Result, NEW e \in Endpoints,
           row[t.attempt].status = "processing", row[t.attempt].number = t.number,
           row' = [row EXCEPT ![t.attempt] = Outcome(t, r)]
    PROVE  LET f == <<t.attempt, t.number>>
           IN  /\ f \notin RecordedFailures(e)
               /\ RecordedFailures(e)' =
                    IF r # "success" /\ EndpointOf[t.attempt] = e
                    THEN RecordedFailures(e) \cup {f}
                    ELSE RecordedFailures(e)
<1> DEFINE a == t.attempt
           n == t.number
           Fails(s, m, k) == m < k \/ (m = k /\ s \in {"failed", "dead_letter"})
<1>1. a \in Attempts /\ n \in 1..LastNumber /\ n \in Nat /\ LastNumber \in Nat
  BY LastNumberType DEF Task
<1>2. row \in [Attempts -> Row] /\ row'[a] = Outcome(t, r)
  BY <1>1 DEF TypeInv, TypeOK
<1>3. \A b \in Attempts : b # a => row'[b] = row[b]
  BY <1>1, <1>2
<1>4. \A m \in 1..LastNumber : ~Fails(row[a].status, m, row[a].number) \/ m < n
  BY <1>1
<1>5. \A m \in 1..LastNumber :
         Fails(row'[a].status, m, row'[a].number) <=> m < n \/ (m = n /\ r # "success")
  <2>1. CASE r = "success"
    <3>1. row'[a].status = "delivered" /\ row'[a].number = n
      BY <1>2, <2>1 DEF Outcome
    <3> QED
      BY <1>1, <2>1, <3>1
  <2>2. CASE r # "success"
    <3>1. row'[a].status # "delivered"
      BY <1>1, <1>2, <2>2, EngineAssumption DEF Outcome, Result
    <3>2. \/ row'[a].status \in {"failed", "dead_letter"} /\ row'[a].number = n
          \/ row'[a].status = "pending" /\ row'[a].number = n + 1
      BY <1>2, <3>1, OutcomeIs
    <3> QED
      BY <1>1, <2>2, <3>2
  <2> QED
    BY <2>1, <2>2
<1>6. \A m \in 1..LastNumber : m < n => Fails(row[a].status, m, row[a].number)
  BY <1>1
<1> QED
  BY <1>1, <1>3, <1>4, <1>5, <1>6 DEF RecordedFailures

\* The row is written, and the report is to come.
LEMMA StreakRecord ==
    ASSUME MaxOverruns = 0, StreakInv, SafeInv', Next, NEW i \in Instances,
           NEW w \in Workers, RecordOutcome(i, w), NEW e \in Endpoints, Streak(e)
    PROVE  Streak(e)'
<1> DEFINE t == work[i][w].task
           r == work[i][w].result
           F == Cardinality(RecordedFailures(e))
           G == Cardinality(Reporting(e))
           h == health[e].failures
<1>1. /\ work[i][w].phase = "record"
      /\ row' = [row EXCEPT ![t.attempt] = Outcome(t, r)]
      /\ work' = [work EXCEPT ![i][w] = [phase |-> "health", task |-> t, result |-> r]]
      /\ health' = health /\ faults' = faults
  BY DEF RecordOutcome, bounds
<1>2. /\ t \in Task /\ t.attempt \in Attempts /\ r \in Result
      /\ row[t.attempt].status = "processing" /\ row[t.attempt].number = t.number
  BY <1>1, RecorderHolds DEF StreakInv
<1>3. TypeInv /\ TypeInv' /\ faults' \in Nat
  BY EngineAssumption DEF StreakInv, SafeInv, TypeInv, TypeOK
<1>4. /\ <<i, w>> \notin Reporting(e)
      /\ Reporting(e)' = IF r # "success" /\ EndpointOf[t.attempt] = e
                         THEN Reporting(e) \cup {<<i, w>>}
                         ELSE Reporting(e) \ {<<i, w>>}
  <2> DEFINE x == [phase |-> "health", task |-> t, result |-> r]
  <2>1. Reports(x, e) <=> EndpointOf[t.attempt] = e /\ r # "success"
    BY DEF Reports
  <2>2. ~Reports(work[i][w], e)
    BY <1>1 DEF Reports
  <2>3. work' = [work EXCEPT ![i][w] = x]
    BY <1>1
  <2> HIDE DEF x
  <2> QED
    BY <1>3, <2>1, <2>2, <2>3, WorkerReports
<1>5. /\ <<t.attempt, t.number>> \notin RecordedFailures(e)
      /\ RecordedFailures(e)' = IF r # "success" /\ EndpointOf[t.attempt] = e
                                THEN RecordedFailures(e) \cup {<<t.attempt, t.number>>}
                                ELSE RecordedFailures(e)
  BY <1>1, <1>2, <1>3, OutcomeCounts
<1>6. Undelivered(e)' => Undelivered(e)
  BY UndeliveredBefore DEF StreakInv
<1>7. CASE ~(r # "success" /\ EndpointOf[t.attempt] = e)
  <2>1. RecordedFailures(e)' = RecordedFailures(e) /\ Reporting(e)' = Reporting(e)
    BY <1>4, <1>5, <1>7
  <2> QED
    BY <1>1, <1>3, <1>6, <2>1, StreakStays
<1>8. CASE r # "success" /\ EndpointOf[t.attempt] = e
  <2>1. /\ IsFiniteSet(Reporting(e)) /\ IsFiniteSet(RecordedFailures(e))
        /\ F \in Nat /\ G \in Nat /\ h \in Nat /\ Allowance \in Nat
    BY <1>3, StreakTypes, FS_CardinalityType DEF Streak
  <2>2. IsFiniteSet(Reporting(e)') /\ Cardinality(Reporting(e)') = G + 1
    <3>1. Reporting(e)' = Reporting(e) \cup {<<i, w>>} /\ <<i, w>> \notin Reporting(e)
      BY <1>4, <1>8
    <3>2. /\ IsFiniteSet(Reporting(e) \cup {<<i, w>>})
          /\ Cardinality(Reporting(e) \cup {<<i, w>>}) = G + 1
      BY <2>1, <3>1, FS_AddElement
    <3> QED
      BY <3>1, <3>2
  <2>3. Cardinality(RecordedFailures(e)') = F + 1
    BY <1>5, <1>8, <2>1, FS_AddElement
  <2>4. Allowance' = Allowance /\ health'[e] = health[e]
    BY <1>1, <1>3, AllowanceGrows
  <2>5. /\ h + G <= F
        /\ health[e].status = "active" /\ Undelivered(e) => F <= h + G + Allowance
    BY DEF Streak
  <2>6. /\ h + (G + 1) <= F + 1
        /\ health[e].status = "active" /\ Undelivered(e)' =>
             F + 1 <= h + (G + 1) + Allowance
    <3> HIDE DEF F, G, h
    <3> QED
      BY <1>6, <2>1, <2>5
  <2> QED
    BY <2>2, <2>3, <2>4, <2>6 DEF Streak
<1> QED
  BY <1>7, <1>8

\* The write fails, whether or not the row has been written: the failure is not
\* reported, and the fault pays for it.
LEMMA StreakRecordFails ==
    ASSUME MaxOverruns = 0, StreakInv, SafeInv', Next, NEW i \in Instances,
           NEW w \in Workers, RecordFails(i, w), NEW e \in Endpoints, Streak(e)
    PROVE  Streak(e)'
<1> DEFINE t == work[i][w].task
           r == work[i][w].result
           F == Cardinality(RecordedFailures(e))
           G == Cardinality(Reporting(e))
           h == health[e].failures
           C == Cardinality(Workers)
<1>1. /\ work[i][w].phase = "record"
      /\ row' = row \/ row' = [row EXCEPT ![t.attempt] = Outcome(t, r)]
      /\ work' = [work EXCEPT ![i][w] = IdleWorker]
      /\ health' = health /\ faults' = faults + 1
  BY DEF RecordFails
<1>2. /\ t \in Task /\ t.attempt \in Attempts /\ r \in Result
      /\ row[t.attempt].status = "processing" /\ row[t.attempt].number = t.number
  BY <1>1, RecorderHolds DEF StreakInv
<1>3. TypeInv /\ TypeInv' /\ faults' \in Nat
  BY EngineAssumption DEF StreakInv, SafeInv, TypeInv, TypeOK
<1>4. Reporting(e)' = Reporting(e)
  <2>1. <<i, w>> \notin Reporting(e) /\ Reporting(e)' = Reporting(e) \ {<<i, w>>}
    <3>1. ~Reports(IdleWorker, e) /\ ~Reports(work[i][w], e)
      BY <1>1, IdleReportsNothing DEF Reports
    <3>2. work' = [work EXCEPT ![i][w] = IdleWorker]
      BY <1>1
    <3> QED
      BY <1>3, <3>1, <3>2, WorkerReports
  <2> QED
    BY <2>1
<1>5. \/ RecordedFailures(e)' = RecordedFailures(e)
      \/ /\ <<t.attempt, t.number>> \notin RecordedFailures(e)
         /\ RecordedFailures(e)' = RecordedFailures(e) \cup {<<t.attempt, t.number>>}
  <2>1. CASE row' = row
    BY <2>1 DEF RecordedFailures
  <2>2. CASE row' = [row EXCEPT ![t.attempt] = Outcome(t, r)]
    BY <1>2, <1>3, <2>2, OutcomeCounts
  <2> QED
    BY <1>1, <2>1, <2>2
<1>6. Undelivered(e)' => Undelivered(e)
  BY UndeliveredBefore DEF StreakInv
<1>7. /\ IsFiniteSet(Reporting(e)) /\ IsFiniteSet(RecordedFailures(e))
      /\ F \in Nat /\ G \in Nat /\ h \in Nat /\ Allowance \in Nat /\ C \in Nat
  BY <1>3, StreakTypes, FS_CardinalityType DEF Streak
<1>8. Cardinality(RecordedFailures(e)') = F \/ Cardinality(RecordedFailures(e)') = F + 1
  BY <1>5, <1>7, FS_AddElement
<1>9. Allowance' = Allowance + C /\ C >= 1
  <2>1. IsFiniteSet(Workers) /\ Workers # {}
    BY EngineAssumption
  <2> QED
    BY <1>1, <1>3, <2>1, AllowanceGrows, SizeOf
<1>10. /\ h + G <= F
       /\ health[e].status = "active" /\ Undelivered(e) => F <= h + G + Allowance
  BY DEF Streak
<1>11. /\ h + G <= F /\ h + G <= F + 1
       /\ health[e].status = "active" /\ Undelivered(e)' =>
            F <= h + G + Allowance' /\ F + 1 <= h + G + Allowance'
  <2> HIDE DEF F, G, h, C
  <2> QED
    BY <1>6, <1>7, <1>9, <1>10
<1>12. health'[e] = health[e]
  BY <1>1
<1> QED
  BY <1>4, <1>7, <1>8, <1>11, <1>12 DEF Streak

\* The report is made: a failure is counted if the endpoint is still active, and
\* a success, which the row has by now, ends the streak.
LEMMA StreakUpdate ==
    ASSUME MaxOverruns = 0, StreakInv, SafeInv', Next, gone = {}, NEW i \in Instances,
           NEW w \in Workers, UpdateHealth(i, w), NEW e \in Endpoints, Streak(e)
    PROVE  Streak(e)'
<1> DEFINE a == work[i][w].task.attempt
           success == work[i][w].result = "success"
           F == Cardinality(RecordedFailures(e))
           G == Cardinality(Reporting(e))
           h == health[e].failures
<1>1. /\ work[i][w].phase = "health" /\ row' = row /\ faults' = faults
      /\ health' = [health EXCEPT ![EndpointOf[a]] = RecordDeliveryResult(@, success)]
      /\ work' = [work EXCEPT ![i][w] = IdleWorker]
  BY DEF UpdateHealth, bounds
<1>2. TypeInv /\ TypeInv' /\ faults' \in Nat
  BY EngineAssumption DEF StreakInv, SafeInv, TypeInv, TypeOK
<1>3. a \in Attempts /\ EndpointOf[a] \in Endpoints
  <2>1. work[i][w] \in WorkerState
    BY <1>2 DEF TypeInv, TypeOK
  <2>2. a \in Attempts
    BY <1>1, <2>1 DEF WorkerState, IdleWorker, Task
  <2> QED
    BY <2>2, EngineAssumption
<1>4. /\ <<i, w>> \in Reporting(e) <=> EndpointOf[a] = e /\ ~success
      /\ Reporting(e)' = Reporting(e) \ {<<i, w>>}
  <2>1. Reports(work[i][w], e) <=> EndpointOf[a] = e /\ ~success
    BY <1>1 DEF Reports
  <2> QED
    BY <1>1, <1>2, <2>1, WorkerReports, IdleReportsNothing
<1>5. /\ RecordedFailures(e)' = RecordedFailures(e)
      /\ Undelivered(e)' <=> Undelivered(e)
  BY <1>1 DEF RecordedFailures, Undelivered
<1>6. /\ IsFiniteSet(Reporting(e)) /\ IsFiniteSet(Reporting(e)')
      /\ F \in Nat /\ G \in Nat /\ h \in Nat /\ Allowance \in Nat /\ Allowance' = Allowance
  <2>1. IsFiniteSet(Reporting(e))
    BY DEF Streak
  <2> QED
    BY <1>1, <1>2, <1>4, <2>1, StreakTypes, AllowanceGrows, FS_CardinalityType, FS_Difference
<1>7. /\ h + G <= F
      /\ health[e].status = "active" /\ Undelivered(e) => F <= h + G + Allowance
  BY DEF Streak
<1>8. health[e] \in Health /\ health \in [Endpoints -> Health]
  BY <1>2 DEF TypeInv, TypeOK
<1>9. CASE EndpointOf[a] # e
  <2>1. health'[e] = health[e] /\ Reporting(e)' = Reporting(e)
    BY <1>1, <1>4, <1>8, <1>9
  <2> QED
    BY <1>1, <1>2, <1>5, <2>1, StreakStays
<1>10. CASE EndpointOf[a] = e /\ success
  <2>1. Reporting(e)' = Reporting(e)
    BY <1>4, <1>10
  <2>2. ~Undelivered(e)'
    BY <1>1, <1>3, <1>10 DEF StreakInv, Reported, Undelivered
  <2>3. health'[e].failures = 0
    BY <1>1, <1>8, <1>10 DEF RecordDeliveryResult, ResetStreak, Health
  <2>4. 0 + G <= F
    <3> HIDE DEF F, G, h
    <3> QED
      BY <1>6, <1>7
  <2> QED
    BY <1>5, <1>6, <2>1, <2>2, <2>3, <2>4 DEF Streak
<1>11. CASE EndpointOf[a] = e /\ ~success
  <2>1. <<i, w>> \in Reporting(e)
    BY <1>4, <1>11
  <2>2. Cardinality(Reporting(e)') = G - 1
    <3>1. Cardinality(Reporting(e) \ {<<i, w>>}) = G - 1
      BY <1>6, <2>1, FS_RemoveElement
    <3> QED
      BY <1>4, <3>1
  <2>3. health'[e] = CountFailure(health[e])
    BY <1>1, <1>8, <1>11 DEF RecordDeliveryResult
  <2>4. CASE health[e].status # "active"
    <3>1. health'[e] = health[e]
      BY <2>3, <2>4 DEF CountFailure
    <3>2. h + (G - 1) <= F
      <4> HIDE DEF F, G, h
      <4> QED
        BY <1>6, <1>7
    <3> QED
      BY <1>5, <1>6, <2>2, <2>4, <3>1, <3>2 DEF Streak
  <2>5. CASE health[e].status = "active"
    <3>1. health'[e].failures = h + 1
      BY <2>3, <2>5 DEF CountFailure
    <3>2. /\ (h + 1) + (G - 1) <= F
          /\ Undelivered(e)' => F <= (h + 1) + (G - 1) + Allowance'
      <4> HIDE DEF F, G, h
      <4> QED
        BY <1>5, <1>6, <1>7, <2>5
    <3> QED
      BY <1>5, <1>6, <2>2, <3>1, <3>2 DEF Streak
  <2> QED
    BY <2>4, <2>5
<1> QED
  BY <1>9, <1>10, <1>11

\* The report is lost, and the fault pays for it.
LEMMA StreakUpdateFails ==
    ASSUME MaxOverruns = 0, StreakInv, SafeInv', Next, NEW i \in Instances,
           NEW w \in Workers, HealthFails(i, w), NEW e \in Endpoints, Streak(e)
    PROVE  Streak(e)'
<1> DEFINE F == Cardinality(RecordedFailures(e))
           G == Cardinality(Reporting(e))
           H == Cardinality(Reporting(e)')
           h == health[e].failures
           C == Cardinality(Workers)
<1>1. /\ row' = row /\ health' = health /\ faults' = faults + 1
      /\ work' = [work EXCEPT ![i][w] = IdleWorker]
  BY DEF HealthFails, database
<1>2. TypeInv /\ TypeInv' /\ faults' \in Nat
  BY EngineAssumption DEF StreakInv, SafeInv, TypeInv, TypeOK
<1>3. Reporting(e)' = Reporting(e) \ {<<i, w>>}
  BY <1>1, <1>2, WorkerReports, IdleReportsNothing
<1>4. IsFiniteSet(Reporting(e))
  BY DEF Streak
<1>5. /\ F \in Nat /\ G \in Nat /\ h \in Nat /\ Allowance \in Nat /\ C \in Nat
  BY <1>2, <1>4, StreakTypes, FS_CardinalityType
<1>6. IsFiniteSet(Reporting(e)') /\ (H = G \/ H = G - 1)
  <2>1. /\ IsFiniteSet(Reporting(e) \ {<<i, w>>})
        /\ \/ Cardinality(Reporting(e) \ {<<i, w>>}) = G
           \/ Cardinality(Reporting(e) \ {<<i, w>>}) = G - 1
    BY <1>4, FS_RemoveElement
  <2> QED
    BY <1>3, <2>1
<1>7. Allowance' = Allowance + C /\ C >= 1
  <2>1. IsFiniteSet(Workers) /\ Workers # {}
    BY EngineAssumption
  <2> QED
    BY <1>1, <1>2, <2>1, AllowanceGrows, SizeOf
<1>8. /\ h + G <= F
      /\ health[e].status = "active" /\ Undelivered(e) => F <= h + G + Allowance
  BY DEF Streak
<1>9. RecordedFailures(e)' = RecordedFailures(e) /\ (Undelivered(e)' <=> Undelivered(e))
  BY <1>1 DEF RecordedFailures, Undelivered
<1>10. /\ h + H <= F
       /\ health[e].status = "active" /\ Undelivered(e)' => F <= h + H + Allowance'
  <2> HIDE DEF F, G, H, h, C
  <2> QED
    BY <1>5, <1>6, <1>7, <1>8, <1>9
<1> QED
  BY <1>1, <1>6, <1>9, <1>10 DEF Streak

LEMMA StreakWorker ==
    ASSUME MaxOverruns = 0, StreakInv, SafeInv', Next, gone = {}, NEW i \in Instances,
           NEW w \in Workers, Worker(i, w), NEW e \in Endpoints, Streak(e)
    PROVE  Streak(e)'
<1>1. TypeInv /\ TypeInv'
  BY DEF StreakInv, SafeInv
<1>2. ~RecordFindsNoRow(i, w)
  BY DEF RecordFindsNoRow, Present
<1>3. ASSUME NEW x, work' = [work EXCEPT ![i][w] = x], UNCHANGED <<row, health, faults>>,
             ~Reports(work[i][w], e), ~Reports(x, e)
      PROVE  Streak(e)'
  <2>1. Reporting(e)' = Reporting(e)
    <3>1. <<i, w>> \notin Reporting(e) /\ Reporting(e)' = Reporting(e) \ {<<i, w>>}
      BY <1>1, <1>3, WorkerReports
    <3> QED
      BY <3>1
  <2>2. RecordedFailures(e)' = RecordedFailures(e) /\ (Undelivered(e)' <=> Undelivered(e))
    BY <1>3 DEF RecordedFailures, Undelivered
  <2> QED
    BY <1>1, <1>3, <2>1, <2>2, StreakStays
<1>4. CASE TakeTask(i, w)
  <2> DEFINE x == [phase |-> "deliver", task |-> Head(queue[i])]
  <2>1. /\ work' = [work EXCEPT ![i][w] = x] /\ UNCHANGED <<row, health, faults>>
        /\ work[i][w].phase = "idle"
    BY <1>4 DEF TakeTask, database, bounds
  <2>2. ~Reports(work[i][w], e) /\ ~Reports(x, e)
    BY <2>1 DEF Reports
  <2> HIDE DEF x
  <2> QED
    BY <1>3, <2>1, <2>2
<1>5. ASSUME NEW r \in Result, NEW unheard \in BOOLEAN, Deliver(i, w, r, unheard)
      PROVE  Streak(e)'
  <2> DEFINE x == [phase |-> "record", task |-> work[i][w].task, result |-> r]
  <2>1. /\ work' = [work EXCEPT ![i][w] = x] /\ UNCHANGED <<row, health, faults>>
        /\ work[i][w].phase = "deliver"
    BY <1>5 DEF Deliver, database, bounds
  <2>2. ~Reports(work[i][w], e) /\ ~Reports(x, e)
    BY <2>1 DEF Reports
  <2> HIDE DEF x
  <2> QED
    BY <1>3, <2>1, <2>2
<1> QED
  BY <1>2, <1>4, <1>5, StreakRecord, StreakRecordFails, StreakUpdate, StreakUpdateFails
  DEF Worker

\* A worker that is to report a success has written it, and nothing undoes that.
LEMMA ReportedNext ==
    ASSUME MaxOverruns = 0, SafeInv, Reported, [Next]_vars
    PROVE  Reported'
<1> SUFFICES ASSUME NEW j \in Instances, NEW v \in Workers,
                    work'[j][v].phase = "health", work'[j][v].result = "success"
             PROVE  row'[work'[j][v].task.attempt].status = "delivered"
  BY DEF Reported
<1> USE DEF SafeInv, TypeInv, TypeOK
<1>1. CASE work'[j][v] = work[j][v]
  <2>1. work[j][v] \in WorkerState
    OBVIOUS
  <2>2. work[j][v].task.attempt \in Attempts
    BY <1>1, <2>1 DEF WorkerState, IdleWorker, Task
  <2>3. row[work[j][v].task.attempt].status = "delivered"
    BY <1>1 DEF Reported
  <2> QED
    BY <1>1, <2>2, <2>3, SettledStep
<1>2. CASE work'[j][v] # work[j][v]
  <2>1. RecordOutcome(j, v)
    <3>1. ASSUME NEW i \in Instances, Dispatcher(i) PROVE work' = work
      BY <3>1 DEF Dispatcher, BeginPoll, DispatcherExit, FetchAndClaimPending, ClaimFails,
             BeginSend, CollectRemaining, Enqueue, EnqueueFails, RevertToPending,
             RevertFails
    <3>2. ASSUME NEW i \in Instances, Process(i)
          PROVE  work'[j][v] \in {work[j][v], IdleWorker}
      <4>1. CASE Kill(i)
        <5>1. work' = [work EXCEPT ![i] = [w \in Workers |-> IdleWorker]]
          BY <4>1 DEF Kill
        <5>2. CASE i = j
          BY <5>1, <5>2
        <5>3. CASE i # j
          BY <5>1, <5>3
        <5> QED
          BY <5>2, <5>3
      <4>2. CASE ~Kill(i)
        <5>1. work' = work
          BY <3>2, <4>2 DEF Process, StopSignal, ClosePool, Exit, Boot, memory
        <5> QED
          BY <5>1
      <4> QED
        BY <4>1, <4>2
    <3>3. Environment => work' = work
      BY DEF Environment, BackoffElapses, GoStale, ManualRetry, PatchEndpoint,
             DeleteEndpoint, memory
    <3>4. work'[j][v] # IdleWorker
      BY DEF IdleWorker
    <3>5. PICK i \in Instances, w \in Workers : Worker(i, w)
      BY <1>2, <3>1, <3>2, <3>3, <3>4 DEF Next, vars, memory
    <3>6. i = j /\ w = v
      <4>1. PICK x : work' = [work EXCEPT ![i][w] = x]
        BY <3>5 DEF Worker, TakeTask, Deliver, RecordOutcome, RecordFindsNoRow,
                    RecordFails, UpdateHealth, HealthFails
      <4>2. ~(i = j /\ w = v) => work'[j][v] = work[j][v]
        BY <4>1
      <4> QED
        BY <1>2, <4>2
    <3>7. ~TakeTask(j, v)
      BY DEF TakeTask
    <3>8. \A r \in Result, unheard \in BOOLEAN : ~Deliver(j, v, r, unheard)
      BY DEF Deliver
    <3>9. /\ ~RecordFindsNoRow(j, v) /\ ~RecordFails(j, v)
          /\ ~UpdateHealth(j, v) /\ ~HealthFails(j, v)
      BY <3>4 DEF RecordFindsNoRow, RecordFails, UpdateHealth, HealthFails
    <3> QED
      BY <3>5, <3>6, <3>7, <3>8, <3>9 DEF Worker
  <2>2. /\ work[j][v].phase = "record"
        /\ work'[j][v].task = work[j][v].task /\ work'[j][v].result = work[j][v].result
        /\ row' = [row EXCEPT ![work[j][v].task.attempt] =
                         Outcome(work[j][v].task, work[j][v].result)]
    BY <2>1 DEF RecordOutcome
  <2>3. work[j][v].task.attempt \in Attempts
    BY <2>2, RecorderHolds
  <2>4. row'[work[j][v].task.attempt].status = "delivered"
    BY <2>2, <2>3 DEF Outcome
  <2> QED
    BY <2>2, <2>4
<1> QED
  BY <1>1, <1>2

\* No operator, no deletion.
LEMMA NothingDeleted ==
    ASSUME TypeInv, [Next]_vars, operator' = 0
    PROVE  operator = 0 /\ (gone = {} => gone' = {})
<1>1. operator \in Nat
  BY EngineAssumption DEF TypeInv, TypeOK
<1> DEFINE Untouched == operator' = operator /\ gone' = gone
           Acted == operator' = operator + 1
<1>2. ASSUME NEW i \in Instances, Dispatcher(i) PROVE Untouched
  BY <1>2 DEF Dispatcher, BeginPoll, DispatcherExit, FetchAndClaimPending, ClaimFails,
         BeginSend, CollectRemaining, Enqueue, EnqueueFails, RevertToPending, RevertFails,
         database, bounds
<1>3. ASSUME NEW i \in Instances, Process(i) PROVE Untouched
  BY <1>3 DEF Process, StopSignal, ClosePool, Exit, Kill, Boot, database, bounds
<1>4. ASSUME NEW i \in Instances, NEW w \in Workers, Worker(i, w) PROVE Untouched
  BY <1>4 DEF Worker, TakeTask, Deliver, RecordOutcome, RecordFindsNoRow, RecordFails,
         UpdateHealth, HealthFails, database, bounds
<1>5. Environment => Untouched \/ Acted
  BY DEF Environment, BackoffElapses, GoStale, ManualRetry, PatchEndpoint, DeleteEndpoint,
         bounds
<1>6. UNCHANGED vars => Untouched
  BY DEF vars, database, bounds
<1>7. Untouched \/ Acted
  BY <1>2, <1>3, <1>4, <1>5, <1>6 DEF Next
<1> QED
  BY <1>1, <1>7

LEMMA StreakNext ==
    ASSUME MaxOverruns = 0, StreakInv, [Next]_vars
    PROVE  StreakInv'
<1>1. SafeInv' /\ LedgerInv' /\ Reported'
  BY SafeNext, LedgerNext, ReportedNext DEF StreakInv
<1>2. ASSUME operator' = 0 PROVE gone' = {} /\ \A e \in Endpoints : Streak(e)'
  <2>1. gone = {} /\ gone' = {} /\ \A e \in Endpoints : Streak(e)
    BY <1>2, NothingDeleted DEF StreakInv, SafeInv, Streaks
  <2> SUFFICES ASSUME NEW e \in Endpoints PROVE Streak(e)'
    BY <2>1
  <2>2. CASE Next
    BY <1>1, <1>2, <2>1, <2>2, StreakDispatcher, StreakProcess, StreakWorker,
       StreakEnvironment
    DEF Next, StreakInv
  <2>3. CASE UNCHANGED vars
    <3>1. UNCHANGED <<row, health, work, faults>>
      BY <2>3 DEF vars, database, memory, bounds
    <3> QED
      BY <1>1, <2>1, <3>1, StreakIdle DEF StreakInv
  <2> QED
    BY <2>2, <2>3
<1> QED
  BY <1>1, <1>2 DEF StreakInv, Streaks

LEMMA StreakInit == Init => StreakInv
<1> SUFFICES ASSUME Init PROVE StreakInv
  OBVIOUS
<1>1. SafeInv /\ LedgerInv
  BY SafeInit, LedgerInit
<1>2. Reported
  BY DEF Init, Reported, IdleWorker
<1>3. ASSUME NEW e \in Endpoints PROVE Streak(e)
  <2>1. Reporting(e) = {}
    BY DEF Init, Reporting, IdleWorker
  <2>2. RecordedFailures(e) = {}
    BY LastNumberType DEF Init, RecordedFailures, NewRow
  <2>3. IsFiniteSet({}) /\ Cardinality({}) = 0
    BY FS_EmptySet
  <2>4. health[e].failures = 0 /\ Allowance \in Nat
    BY <1>1, StreakTypes DEF Init, CleanSlate, SafeInv
  <2> QED
    BY <2>1, <2>2, <2>3, <2>4 DEF Streak
<1>4. gone = {}
  BY DEF Init
<1> QED
  BY <1>1, <1>2, <1>3, <1>4 DEF StreakInv, Streaks

\* The breaker of an endpoint counts failures that the rows tell of and no
\* others, each once; and until the endpoint is heard to answer 2xx it misses
\* none but through a fault, which takes one failure per worker at the most.
THEOREM EngineStreaks ==
    ASSUME MaxOverruns = 0
    PROVE  Spec => [](StreakIsRecorded /\ StreakIsComplete)
<1>1. ASSUME StreakInv PROVE StreakIsRecorded /\ StreakIsComplete
  <2>1. ASSUME NEW e \in Endpoints, operator = 0 PROVE Streak(e)
    BY <1>1, <2>1 DEF StreakInv, Streaks
  <2>2. ASSUME NEW a \in Attempts, accepted[a] = lost[a]
        PROVE  row[a].status # "delivered"
    <3>1. Ledger(a)
      BY <1>1 DEF StreakInv, LedgerInv
    <3>2. lost[a] \in Nat /\ Cardinality(Answers(a)) \in Nat
      BY <1>1, <3>1, LedgerTypes DEF StreakInv, LedgerInv
    <3> QED
      BY <2>2, <3>1, <3>2 DEF Ledger
  <2>3. StreakIsRecorded
    BY <2>1 DEF StreakIsRecorded, Streak
  <2>4. StreakIsComplete
    BY <2>1, <2>2 DEF StreakIsComplete, Streak, Undelivered, Allowance
  <2> QED
    BY <2>3, <2>4
<1>2. Init => StreakInv
  BY StreakInit
<1>3. StreakInv /\ [Next]_vars => StreakInv'
  BY StreakNext
<1> QED
  BY <1>1, <1>2, <1>3, PTL DEF Spec
=============================================================================
