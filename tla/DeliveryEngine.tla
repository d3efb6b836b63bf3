--------------------------- MODULE DeliveryEngine ---------------------------
(***************************************************************************)
(* The delivery engine of HookOps: the table delivery_attempts used as a   *)
(* queue, and the instances of the server that drain it.  An instance has  *)
(* one dispatcher goroutine, which claims rows and feeds a bounded channel,*)
(* and a fixed set of worker goroutines, which POST the webhook and record *)
(* what came of it.  Instances share nothing but the database; everything  *)
(* else is memory and is gone when the process is.                         *)
(*                                                                         *)
(* Every SQL statement is one atomic step.  Whatever happens between two   *)
(* statements, or between a statement and the next channel operation, is   *)
(* an interleaving.  A delivery attempt is named by its rank in created_at *)
(* order, which is the order the claiming query serves rows in.            *)
(***************************************************************************)
EXTENDS Integers, Sequences, FiniteSets, EndpointHealth

CONSTANTS
    NAttempts,    \* rows of delivery_attempts
    Endpoints,    \* rows of endpoints
    EndpointOf,   \* endpoint_id of each attempt
    Instances,    \* server processes polling the same database
    Workers,      \* worker goroutines of one instance
    QueueSize,    \* capacity of the task channel
    BatchSize,    \* LIMIT of the claiming query
    MaxRetries    \* RetryConfig.MaxRetries

CONSTANTS         \* bounds on what the environment does
    MaxStops,     \* graceful shutdowns
    MaxFaults,    \* kills of a process and database calls that fail
    MaxOperator,  \* manual retries, endpoint updates and deletions
    MaxLost,      \* 2xx answers to one attempt the network still loses: it loses
                  \* none once so many are lost
    MaxOverruns   \* times a task outlives five minutes in the memory of a
                  \* live instance; 0 says that every instance is timely

Attempts == 1..NAttempts

ASSUME EngineAssumption ==
    /\ NAttempts \in Nat
    /\ EndpointOf \in [Attempts -> Endpoints]
    /\ IsFiniteSet(Workers)
    /\ QueueSize \in Nat \ {0}
    /\ BatchSize \in Nat \ {0}
    /\ MaxRetries \in Nat
    /\ MaxStops \in Nat
    /\ MaxFaults \in Nat
    /\ MaxOperator \in Nat
    /\ MaxLost \in Nat
    /\ MaxOverruns \in Nat

VARIABLES
    row,        \* delivery_attempts: what every instance can see
    health,     \* endpoints: status and consecutive_failures
    gone,       \* endpoints that were deleted, and their attempts with them
    proc,       \* state of each process
    disp,       \* where the dispatcher goroutine of an instance stands
    batch,      \* tasks the dispatcher has claimed and not yet offered
    unsent,     \* attempts it has claimed and failed to enqueue
    queue,      \* the task channel
    work,       \* what each worker goroutine is doing
    accepted,   \* history: 2xx answers an attempt has had
    lost,       \* history: 2xx answers that never reached the row
    after,      \* history: POSTs of an attempt that ended after its deletion
    stops, faults, operator, overruns      \* the bounds used up so far

database == <<row, health, gone>>
memory   == <<disp, batch, unsent, queue, work>>
history  == <<accepted, lost, after>>
bounds   == <<stops, faults, operator, overruns>>
vars     == <<database, proc, memory, history, bounds>>

-----------------------------------------------------------------------------
(* Data                                                                    *)

DeliveryStatus == {"pending", "processing", "delivered", "failed", "dead_letter"}

\* attempt_number never passes this: the last attempt is not rescheduled.
LastNumber == IF MaxRetries = 0 THEN 1 ELSE MaxRetries

\* due: next_retry_at is NULL or past.  stale: updated_at is more than five
\* minutes old, which the code asks only of rows in processing.
Row == [status : DeliveryStatus, number : 1..LastNumber,
        due : BOOLEAN, stale : BOOLEAN]

\* A task carries the attempt_number its claim returned; workers never reread it.
Task == [attempt : Attempts, number : 1..LastNumber]

\* retryable: no HTTP status (network error, time-out, rate-limit wait given
\* up, panic in the worker), 429 or 5xx.  permanent: every other answer.
Result == {"success", "retryable", "permanent"}

IdleWorker == [phase |-> "idle"]

WorkerState ==
    {IdleWorker}
    \cup [phase : {"deliver"}, task : Task]
    \cup [phase : {"record", "health"}, task : Task, result : Result]

NewRow == [status |-> "pending", number |-> 1, due |-> TRUE, stale |-> FALSE]

\* Mutant: dead-letters one attempt too late.
OutcomeOffByOne(task, result) ==
    LET written(s, n, d) == [status |-> s, number |-> n, due |-> d, stale |-> FALSE]
    IN  CASE result = "success"   -> written("delivered", task.number, TRUE)
          [] result = "permanent" -> written("failed", task.number, TRUE)
          [] result = "retryable" /\ task.number > MaxRetries
                                  -> written("dead_letter", task.number, TRUE)
          [] result = "retryable" /\ task.number <= MaxRetries
                                  -> written("pending", task.number + 1, FALSE)

\* Mutant: takes an answer that must not be retried for a delivery.
OutcomeOptimistic(task, result) ==
    LET written(s, n, d) == [status |-> s, number |-> n, due |-> d, stale |-> FALSE]
    IN  IF result \in {"success", "permanent"}
        THEN written("delivered", task.number, TRUE)
        ELSE IF task.number >= MaxRetries
             THEN written("dead_letter", task.number, TRUE)
             ELSE written("pending", task.number + 1, FALSE)

\* Mutant: reschedules without counting the attempt.
OutcomeUncounted(task, result) ==
    LET written(s, n, d) == [status |-> s, number |-> n, due |-> d, stale |-> FALSE]
    IN  CASE result = "success"   -> written("delivered", task.number, TRUE)
          [] result = "permanent" -> written("failed", task.number, TRUE)
          [] result = "retryable" /\ task.number >= MaxRetries
                                  -> written("dead_letter", task.number, TRUE)
          [] result = "retryable" /\ task.number < MaxRetries
                                  -> written("pending", task.number, FALSE)

\* What NewResultRecorder decides, and what RecordOutcome writes over the row
\* whatever the row holds by now.
Outcome(task, result) ==
    LET written(s, n, d) == [status |-> s, number |-> n, due |-> d, stale |-> FALSE]
    IN  CASE result = "success"   -> written("delivered", task.number, TRUE)
          [] result = "permanent" -> written("failed", task.number, TRUE)
          [] result = "retryable" /\ task.number >= MaxRetries
                                  -> written("dead_letter", task.number, TRUE)
          [] result = "retryable" /\ task.number < MaxRetries
                                  -> written("pending", task.number + 1, FALSE)

-----------------------------------------------------------------------------
(* Deletion: an endpoint takes its attempts with it (ON DELETE CASCADE),   *)
(* whoever is working on one.  The row stays as it was in the model, but   *)
(* no statement finds it any more.                                         *)

Present(a) == EndpointOf[a] \notin gone

-----------------------------------------------------------------------------
(* Who holds an attempt: the places a task can be between its claim and    *)
(* the moment its outcome is written or it is handed back.                 *)

InBatch(i, a)     == \E t \in batch[i] : t.attempt = a
InUnsent(i, a)    == a \in unsent[i]
InQueue(i, a)     == \E k \in 1..Len(queue[i]) : queue[i][k].attempt = a
InWorker(i, w, a) == /\ work[i][w].phase \in {"deliver", "record"}
                     /\ work[i][w].task.attempt = a

HeldBy(i, a) == \/ InBatch(i, a)
                \/ InUnsent(i, a)
                \/ InQueue(i, a)
                \/ \E w \in Workers : InWorker(i, w, a)

Held(a) == \E i \in Instances : HeldBy(i, a)

-----------------------------------------------------------------------------
(* The dispatcher                                                          *)

\* dispatchLoop, top of the loop: the stop signal is looked at, then a poll
\* begins.  A signal that arrives from here on is seen only after the claim.
BeginPoll(i) ==
    /\ proc[i] = "up"
    /\ disp[i] = "poll"
    /\ disp' = [disp EXCEPT ![i] = "fetch"]
    /\ UNCHANGED <<database, proc, batch, unsent, queue, work, history, bounds>>

DispatcherExit(i) ==
    /\ proc[i] = "stopping"
    /\ disp[i] = "poll"
    /\ disp' = [disp EXCEPT ![i] = "exited"]
    /\ UNCHANGED <<database, proc, batch, unsent, queue, work, history, bounds>>

\* Mutant: rescues a row in processing whatever its age.
ClaimableAtAnyAge(a) ==
    /\ Present(a)
    /\ health[EndpointOf[a]].status = "active"
    /\ \/ row[a].status = "pending" /\ row[a].due
       \/ row[a].status = "processing"

\* Mutant: no rescue clause.
ClaimableOnlyPending(a) ==
    /\ Present(a)
    /\ health[EndpointOf[a]].status = "active"
    /\ row[a].status = "pending" /\ row[a].due

Claimable(a) ==
    /\ Present(a)
    /\ health[EndpointOf[a]].status = "active"
    /\ \/ row[a].status = "pending" /\ row[a].due
       \/ row[a].status = "processing" /\ row[a].stale

\* ORDER BY created_at LIMIT BatchSize.
Claimed ==
    LET C == {a \in Attempts : Claimable(a)}
    IN  {a \in C : Cardinality({b \in C : b < a}) < BatchSize}

MarkProcessing ==
    row' = [a \in Attempts |->
              IF a \in Claimed
              THEN [row[a] EXCEPT !.status = "processing", !.stale = FALSE]
              ELSE row[a]]

FetchAndClaimPending(i) ==
    /\ disp[i] = "fetch"
    /\ MarkProcessing
    /\ batch' = [batch EXCEPT ![i] =
                   {[attempt |-> a, number |-> row[a].number] : a \in Claimed}]
    /\ disp' = [disp EXCEPT ![i] = IF Claimed = {} THEN "poll" ELSE "check"]
    /\ UNCHANGED <<health, gone, proc, unsent, queue, work, history, bounds>>

\* The five-second context expires, or the connection breaks, before or after
\* the database has committed: in the second case the rows stay claimed by
\* nobody.
ClaimFails(i) ==
    /\ disp[i] = "fetch"
    /\ faults < MaxFaults
    /\ faults' = faults + 1
    /\ MarkProcessing \/ UNCHANGED row
    /\ disp' = [disp EXCEPT ![i] = "poll"]
    /\ UNCHANGED <<health, gone, proc, batch, unsent, queue, work, history,
                   stops, operator, overruns>>

\* pollAndDispatch looks at the stop signal before each task.
BeginSend(i) ==
    /\ disp[i] = "check"
    /\ batch[i] # {}
    /\ proc[i] = "up"
    /\ disp' = [disp EXCEPT ![i] = "send"]
    /\ UNCHANGED <<database, proc, batch, unsent, queue, work, history, bounds>>

\* Mutant: the rest of the batch is dropped on the stop signal.
CollectNothing(i) ==
    /\ disp[i] = "check"
    /\ batch[i] # {}
    /\ proc[i] # "up"
    /\ batch' = [batch EXCEPT ![i] = {}]
    /\ UNCHANGED <<database, proc, disp, unsent, queue, work, history, bounds>>

CollectRemaining(i) ==
    /\ disp[i] = "check"
    /\ batch[i] # {}
    /\ proc[i] # "up"
    /\ unsent' = [unsent EXCEPT ![i] = @ \cup {t.attempt : t \in batch[i]}]
    /\ batch' = [batch EXCEPT ![i] = {}]
    /\ UNCHANGED <<database, proc, disp, queue, work, history, bounds>>

\* The claim returns its rows in attempt_number order.
Next1(b) == {t \in b : \A u \in b : t.number <= u.number}

PoolClosed(i) == proc[i] \in {"draining", "down"}

\* Mutant: a task that has been sent stays in the batch.
EnqueueKeeps(i) ==
    /\ disp[i] = "send"
    /\ Len(queue[i]) < QueueSize
    /\ ~PoolClosed(i)
    /\ \E t \in Next1(batch[i]) :
         queue' = [queue EXCEPT ![i] = Append(@, t)]
    /\ disp' = [disp EXCEPT ![i] = "check"]
    /\ UNCHANGED <<database, proc, batch, unsent, work, history, bounds>>

Enqueue(i) ==
    /\ disp[i] = "send"
    /\ ~PoolClosed(i)
    /\ Len(queue[i]) < QueueSize
    /\ \E t \in Next1(batch[i]) :
         /\ queue' = [queue EXCEPT ![i] = Append(@, t)]
         /\ batch' = [batch EXCEPT ![i] = @ \ {t}]
    /\ disp' = [disp EXCEPT ![i] = "check"]
    /\ UNCHANGED <<database, proc, unsent, work, history, bounds>>

\* The pool is closed, or the channel stays full for EnqueueTimeout.
EnqueueFails(i) ==
    /\ disp[i] = "send"
    /\ PoolClosed(i) \/ Len(queue[i]) = QueueSize
    /\ \E t \in Next1(batch[i]) :
         /\ unsent' = [unsent EXCEPT ![i] = @ \cup {t.attempt}]
         /\ batch' = [batch EXCEPT ![i] = @ \ {t}]
    /\ disp' = [disp EXCEPT ![i] = "check"]
    /\ UNCHANGED <<database, proc, queue, work, history, bounds>>

\* The batch is done: what could not be enqueued is handed back, by id and
\* whatever the rows hold by now.
RevertToPending(i) ==
    /\ disp[i] = "check"
    /\ batch[i] = {}
    /\ row' = [a \in Attempts |->
                 IF a \in unsent[i] /\ Present(a)
                 THEN [row[a] EXCEPT !.status = "pending", !.stale = FALSE]
                 ELSE row[a]]
    /\ unsent' = [unsent EXCEPT ![i] = {}]
    /\ disp' = [disp EXCEPT ![i] = "poll"]
    /\ UNCHANGED <<health, gone, proc, batch, queue, work, history, bounds>>

\* The hand-back fails: logged as critical, and the rows stay in processing.
RevertFails(i) ==
    /\ disp[i] = "check"
    /\ batch[i] = {}
    /\ unsent[i] # {}
    /\ faults < MaxFaults
    /\ faults' = faults + 1
    /\ unsent' = [unsent EXCEPT ![i] = {}]
    /\ disp' = [disp EXCEPT ![i] = "poll"]
    /\ UNCHANGED <<database, proc, batch, queue, work, history,
                   stops, operator, overruns>>

Dispatcher(i) ==
    \/ BeginPoll(i) \/ DispatcherExit(i)
    \/ FetchAndClaimPending(i) \/ ClaimFails(i)
    \/ BeginSend(i) \/ CollectRemaining(i)
    \/ Enqueue(i) \/ EnqueueFails(i)
    \/ RevertToPending(i) \/ RevertFails(i)

-----------------------------------------------------------------------------
(* The workers                                                             *)

TakeTask(i, w) ==
    /\ work[i][w].phase = "idle"
    /\ queue[i] # <<>>
    /\ work' = [work EXCEPT ![i][w] = [phase |-> "deliver", task |-> Head(queue[i])]]
    /\ queue' = [queue EXCEPT ![i] = Tail(@)]
    /\ UNCHANGED <<database, proc, disp, batch, unsent, history, bounds>>

\* Rate-limit wait and POST, whatever their length, end in one of the results.
\* unheard: the receiver answered 2xx, and the time-out or a broken connection
\* came before the answer, so that the worker knows of a network error only.
Deliver(i, w, result, unheard) ==
    /\ work[i][w].phase = "deliver"
    /\ LET t == work[i][w].task IN
         /\ unheard => result = "retryable" /\ lost[t.attempt] < MaxLost
         /\ work' = [work EXCEPT ![i][w] =
                       [phase |-> "record", task |-> t, result |-> result]]
         /\ accepted' = IF result = "success" \/ unheard
                        THEN [accepted EXCEPT ![t.attempt] = @ + 1]
                        ELSE accepted
         /\ lost' = IF unheard THEN [lost EXCEPT ![t.attempt] = @ + 1] ELSE lost
         /\ after' = IF Present(t.attempt) THEN after
                     ELSE [after EXCEPT ![t.attempt] = @ + 1]
    /\ UNCHANGED <<database, proc, disp, batch, unsent, queue, bounds>>

\* Mutant: a failure that is not retried is not reported to the breaker.
RecordOutcomeSkipsHealth(i, w) ==
    /\ work[i][w].phase = "record"
    /\ LET j == work[i][w] IN
         /\ Present(j.task.attempt)
         /\ row' = [row EXCEPT ![j.task.attempt] = Outcome(j.task, j.result)]
         /\ work' = [work EXCEPT ![i][w] =
                       IF j.result = "permanent" THEN IdleWorker
                       ELSE [phase |-> "health", task |-> j.task, result |-> j.result]]
    /\ UNCHANGED <<health, gone, proc, disp, batch, unsent, queue, history, bounds>>

RecordOutcome(i, w) ==
    /\ work[i][w].phase = "record"
    /\ LET j == work[i][w] IN
         /\ Present(j.task.attempt)
         /\ row' = [row EXCEPT ![j.task.attempt] = Outcome(j.task, j.result)]
         /\ work' = [work EXCEPT ![i][w] =
                       [phase |-> "health", task |-> j.task, result |-> j.result]]
    /\ UNCHANGED <<health, gone, proc, disp, batch, unsent, queue, history, bounds>>

\* A 2xx that nobody writes down.
Forget(j) == lost' = IF j.result = "success"
                     THEN [lost EXCEPT ![j.task.attempt] = @ + 1]
                     ELSE lost

\* Mutant: the worker tries again until the outcome is written.
RecordFindsNoRowAgain(i, w) ==
    /\ work[i][w].phase = "record"
    /\ ~Present(work[i][w].task.attempt)
    /\ Forget(work[i][w])
    /\ work' = [work EXCEPT ![i][w] = [phase |-> "deliver", task |-> @.task]]
    /\ UNCHANGED <<database, proc, disp, batch, unsent, queue, accepted, after, bounds>>

\* ErrDeliveryAttemptNotFound: logged, and that is the end of it.
RecordFindsNoRow(i, w) ==
    /\ work[i][w].phase = "record"
    /\ ~Present(work[i][w].task.attempt)
    /\ Forget(work[i][w])
    /\ work' = [work EXCEPT ![i][w] = IdleWorker]
    /\ UNCHANGED <<database, proc, disp, batch, unsent, queue, accepted, after, bounds>>

\* Mutant: the handler does not return, and reports the delivery as well.
RecordFailsGoesOn(i, w) ==
    /\ work[i][w].phase = "record"
    /\ faults < MaxFaults
    /\ faults' = faults + 1
    /\ LET j == work[i][w] IN
         /\ \/ /\ Present(j.task.attempt)
               /\ row' = [row EXCEPT ![j.task.attempt] = Outcome(j.task, j.result)]
               /\ UNCHANGED lost
            \/ Forget(j) /\ UNCHANGED row
         /\ work' = [work EXCEPT ![i][w] =
                       [phase |-> "health", task |-> j.task, result |-> j.result]]
    /\ UNCHANGED <<health, gone, proc, disp, batch, unsent, queue, accepted, after,
                   stops, operator, overruns>>

\* RecordOutcome returns an error: the handler logs it and returns, so the
\* endpoint's health is not updated either.  The row may have been written.
RecordFails(i, w) ==
    /\ work[i][w].phase = "record"
    /\ faults < MaxFaults
    /\ faults' = faults + 1
    /\ LET j == work[i][w] IN
         \/ /\ Present(j.task.attempt)
            /\ row' = [row EXCEPT ![j.task.attempt] = Outcome(j.task, j.result)]
            /\ UNCHANGED lost
         \/ Forget(j) /\ UNCHANGED row
    /\ work' = [work EXCEPT ![i][w] = IdleWorker]
    /\ UNCHANGED <<health, gone, proc, disp, batch, unsent, queue, accepted, after,
                   stops, operator, overruns>>

UpdateHealth(i, w) ==
    /\ work[i][w].phase = "health"
    /\ LET e == EndpointOf[work[i][w].task.attempt] IN
         health' = IF e \in gone THEN health
                   ELSE [health EXCEPT ![e] =
                           RecordDeliveryResult(@, work[i][w].result = "success")]
    /\ work' = [work EXCEPT ![i][w] = IdleWorker]
    /\ UNCHANGED <<row, gone, proc, disp, batch, unsent, queue, history, bounds>>

\* The second statement fails and is only logged: the endpoint's streak misses
\* this delivery.
HealthFails(i, w) ==
    /\ work[i][w].phase = "health"
    /\ faults < MaxFaults
    /\ faults' = faults + 1
    /\ work' = [work EXCEPT ![i][w] = IdleWorker]
    /\ UNCHANGED <<database, proc, disp, batch, unsent, queue, history,
                   stops, operator, overruns>>

Worker(i, w) ==
    \/ TakeTask(i, w)
    \/ \E result \in Result, unheard \in BOOLEAN : Deliver(i, w, result, unheard)
    \/ RecordOutcome(i, w) \/ RecordFindsNoRow(i, w) \/ RecordFails(i, w)
    \/ UpdateHealth(i, w) \/ HealthFails(i, w)

-----------------------------------------------------------------------------
(* The process: start, graceful shutdown, crash                            *)

\* The signal: Dispatcher.Stop closes stopChan and waits for the dispatcher.
StopSignal(i) ==
    /\ proc[i] = "up"
    /\ stops < MaxStops
    /\ stops' = stops + 1
    /\ proc' = [proc EXCEPT ![i] = "stopping"]
    /\ UNCHANGED <<database, memory, history, faults, operator, overruns>>

\* Mutant: main closes the channel without waiting for the dispatcher.
ClosePoolAtOnce(i) ==
    /\ proc[i] = "stopping"
    /\ proc' = [proc EXCEPT ![i] = "draining"]
    /\ UNCHANGED <<database, memory, history, bounds>>

\* Only when the dispatcher has returned does main close the task channel.
ClosePool(i) ==
    /\ proc[i] = "stopping"
    /\ disp[i] = "exited"
    /\ proc' = [proc EXCEPT ![i] = "draining"]
    /\ UNCHANGED <<database, memory, history, bounds>>

\* WorkerPool.Shutdown: the workers have drained the closed channel.
Exit(i) ==
    /\ proc[i] = "draining"
    /\ queue[i] = <<>>
    /\ \A w \in Workers : work[i][w] = IdleWorker
    /\ proc' = [proc EXCEPT ![i] = "down"]
    /\ UNCHANGED <<database, memory, history, bounds>>

\* 2xx answers of attempt a that die with instance i.
Forgotten(i, a) ==
    Cardinality({w \in Workers : /\ work[i][w].phase = "record"
                                 /\ work[i][w].task.attempt = a
                                 /\ work[i][w].result = "success"})

\* A crash, or the 15 s budget of the drain running out and main returning.
Kill(i) ==
    /\ proc[i] # "down"
    /\ faults < MaxFaults
    /\ faults' = faults + 1
    /\ proc' = [proc EXCEPT ![i] = "down"]
    /\ disp' = [disp EXCEPT ![i] = "exited"]
    /\ batch' = [batch EXCEPT ![i] = {}]
    /\ unsent' = [unsent EXCEPT ![i] = {}]
    /\ queue' = [queue EXCEPT ![i] = <<>>]
    /\ work' = [work EXCEPT ![i] = [w \in Workers |-> IdleWorker]]
    /\ lost' = [a \in Attempts |-> lost[a] + Forgotten(i, a)]
    /\ UNCHANGED <<database, accepted, after, stops, operator, overruns>>

Boot(i) ==
    /\ proc[i] = "down"
    /\ proc' = [proc EXCEPT ![i] = "up"]
    /\ disp' = [disp EXCEPT ![i] = "poll"]
    /\ UNCHANGED <<database, batch, unsent, queue, work, history, bounds>>

Process(i) == StopSignal(i) \/ ClosePool(i) \/ Exit(i) \/ Kill(i) \/ Boot(i)

-----------------------------------------------------------------------------
(* Time and operators                                                      *)

\* next_retry_at passes.
BackoffElapses(a) ==
    /\ Present(a)
    /\ row[a].status = "pending"
    /\ ~row[a].due
    /\ row' = [row EXCEPT ![a].due = TRUE]
    /\ UNCHANGED <<health, gone, proc, memory, history, bounds>>

\* updated_at becomes five minutes old.  That this happens while an instance
\* still holds the task is an overrun.
GoStale(a) ==
    /\ Present(a)
    /\ row[a].status = "processing"
    /\ ~row[a].stale
    /\ \/ ~Held(a) /\ UNCHANGED overruns
       \/ Held(a) /\ overruns < MaxOverruns /\ overruns' = overruns + 1
    /\ row' = [row EXCEPT ![a].stale = TRUE]
    /\ UNCHANGED <<health, gone, proc, memory, history, stops, faults, operator>>

\* Mutant: no state guard in the UPDATE.
ManualRetryUnguarded(a) ==
    /\ operator < MaxOperator
    /\ operator' = operator + 1
    /\ row' = [row EXCEPT ![a] = NewRow]
    /\ UNCHANGED <<health, gone, proc, memory, history, stops, faults, overruns>>

\* POST /deliveries/:id/retry.
ManualRetry(a) ==
    /\ operator < MaxOperator
    /\ operator' = operator + 1
    /\ Present(a) /\ row[a].status \in {"failed", "dead_letter"}
    /\ row' = [row EXCEPT ![a] = NewRow]
    /\ UNCHANGED <<health, gone, proc, memory, history, stops, faults, overruns>>

\* PATCH /endpoints/:id writes back a row read earlier, so it may restore any
\* health the row has had.  CircuitBreaker splits the read from the write and
\* shows that what it writes is always Consistent.
PatchEndpoint(e, h) ==
    /\ operator < MaxOperator
    /\ operator' = operator + 1
    /\ e \notin gone /\ Consistent(h)
    /\ health' = [health EXCEPT ![e] = h]
    /\ UNCHANGED <<row, gone, proc, memory, history, stops, faults, overruns>>

\* DELETE /endpoints/:id.
DeleteEndpoint(e) ==
    /\ operator < MaxOperator
    /\ operator' = operator + 1
    /\ e \notin gone
    /\ gone' = gone \cup {e}
    /\ UNCHANGED <<row, health, proc, memory, history, stops, faults, overruns>>

Environment ==
    \/ \E a \in Attempts : BackoffElapses(a) \/ GoStale(a) \/ ManualRetry(a)
    \/ \E e \in Endpoints, h \in Health : PatchEndpoint(e, h)
    \/ \E e \in Endpoints : DeleteEndpoint(e)

-----------------------------------------------------------------------------
Init ==
    /\ row = [a \in Attempts |-> NewRow]
    /\ health = [e \in Endpoints |-> CleanSlate]
    /\ gone = {}
    /\ proc = [i \in Instances |-> "up"]
    /\ disp = [i \in Instances |-> "poll"]
    /\ batch = [i \in Instances |-> {}]
    /\ unsent = [i \in Instances |-> {}]
    /\ queue = [i \in Instances |-> <<>>]
    /\ work = [i \in Instances |-> [w \in Workers |-> IdleWorker]]
    /\ accepted = [a \in Attempts |-> 0]
    /\ lost = [a \in Attempts |-> 0]
    /\ after = [a \in Attempts |-> 0]
    /\ stops = 0 /\ faults = 0 /\ operator = 0 /\ overruns = 0

Next ==
    \/ \E i \in Instances : Dispatcher(i) \/ Process(i)
    \/ \E i \in Instances, w \in Workers : Worker(i, w)
    \/ Environment

Spec == Init /\ [][Next]_vars

\* Goroutines are scheduled, statements return, timers fire, a process that is
\* told to stop gets through its shutdown, and a stopped one is started again.
Fairness ==
    /\ \A i \in Instances : /\ WF_vars(Dispatcher(i))
                            /\ WF_vars(ClosePool(i) \/ Exit(i))
                            /\ WF_vars(Boot(i))
    /\ \A i \in Instances, w \in Workers : WF_vars(Worker(i, w))
    /\ \A a \in Attempts : WF_vars(BackoffElapses(a)) /\ WF_vars(GoStale(a))

FairSpec == Spec /\ Fairness

-----------------------------------------------------------------------------
(* Properties                                                              *)

TypeOK ==
    /\ row \in [Attempts -> Row]
    /\ health \in [Endpoints -> Health]
    /\ gone \subseteq Endpoints
    /\ proc \in [Instances -> {"up", "stopping", "draining", "down"}]
    /\ disp \in [Instances -> {"poll", "fetch", "check", "send", "exited"}]
    /\ batch \in [Instances -> SUBSET Task]
    /\ unsent \in [Instances -> SUBSET Attempts]
    /\ queue \in [Instances -> Seq(Task)]
    /\ \A i \in Instances : Len(queue[i]) <= QueueSize
    /\ work \in [Instances -> [Workers -> WorkerState]]
    /\ accepted \in [Attempts -> Nat]
    /\ lost \in [Attempts -> Nat]
    /\ after \in [Attempts -> Nat]
    /\ stops \in 0..MaxStops
    /\ faults \in 0..MaxFaults
    /\ operator \in 0..MaxOperator
    /\ overruns \in 0..MaxOverruns

\* Every place a task for attempt a stands in, over all instances.
Holders(a) ==
    {<<i, "batch", 0>> : i \in {j \in Instances : InBatch(j, a)}}
    \cup {<<i, "unsent", 0>> : i \in {j \in Instances : InUnsent(j, a)}}
    \cup {p \in Instances \X {"queue"} \X (1..QueueSize) :
            p[3] <= Len(queue[p[1]]) /\ queue[p[1]][p[3]].attempt = a}
    \cup {p \in Instances \X {"worker"} \X Workers : InWorker(p[1], p[3], a)}

\* Two dispatchers polling one table, rescues after a crash, hand-backs and
\* restarts never put one attempt in two places: not in two instances, not
\* twice in one channel (the FOR UPDATE SKIP LOCKED claim and its rescue
\* clause, delivery_repo.go).
HeldOnce == \A a \in Attempts : \A p, q \in Holders(a) : p = q

\* What an instance is working on is what the table says is being worked on,
\* with the attempt number the table has: nobody edits, settles or reschedules
\* the row under a task that is still in memory.
HeldIsProcessing ==
    \A i \in Instances, a \in Attempts :
        /\ HeldBy(i, a) /\ Present(a) => row[a].status = "processing"
        /\ \A t \in batch[i] : t.attempt = a => t.number = row[a].number
        /\ \A k \in 1..Len(queue[i]) :
             queue[i][k].attempt = a => queue[i][k].number = row[a].number
        /\ \A w \in Workers :
             InWorker(i, w, a) => work[i][w].task.number = row[a].number

\* Nothing is stranded: until a process is killed or a database call fails, a
\* row in processing is in the hands of some instance, through back-pressure,
\* hand-backs and any number of graceful shutdowns (the stop signal in the
\* middle of a batch, the drain of the channel).
NothingStranded ==
    faults = 0 =>
        \A a \in Attempts : Present(a) /\ row[a].status = "processing" => Held(a)

\* The dispatcher never stands at the channel send once the channel is closed:
\* Enqueue tests isClosed and then sends, and a send on a closed channel would
\* panic in a goroutine that recovers from nothing.
NoSendOnClosedPool == \A i \in Instances : disp[i] = "send" => ~PoolClosed(i)

\* A row says delivered only if the receiver answered 2xx and some worker heard
\* it, however many instances raced for it: not all the answers were lost.
DeliveredWasAccepted ==
    \A a \in Attempts : row[a].status = "delivered" => accepted[a] > lost[a]

\* One copy of a task, and one more for each that outlived the five minutes: the
\* claim goes by age alone.
Copies == 1 + overruns

\* A task that outlives the five minutes costs one more copy at the most, whatever
\* the copies do to the row and to each other: retries, rescues and hand-backs by
\* one of them make no others.
CopiesBounded == \A a \in Attempts : Cardinality(Holders(a)) <= Copies

\* A receiver that answered 2xx sees the same attempt again only if that answer
\* was lost on the way to the row or a task outlived the five minutes: delivery
\* is at least once, and each extra one is paid for by an answer lost on the
\* network, a crash, a failed write or a copy.
DuplicatesPaidFor == \A a \in Attempts : accepted[a] <= lost[a] + Copies

\* Deleting an endpoint recalls nothing from the channels and the workers, but
\* each copy they hold is sent once more at the most: no retry, no rescue, no
\* hand-back brings an attempt of a deleted endpoint to a worker again.
DeletedIsSentOnce == \A a \in Attempts : after[a] <= Copies

\* The failed sends of e that the rows tell of: the numbers an attempt has gone
\* through, and its last one if that was the end of it.
RecordedFailures(e) ==
    {f \in Attempts \X (1..LastNumber) :
        LET r == row[f[1]] IN
          /\ EndpointOf[f[1]] = e
          /\ \/ f[2] < r.number
             \/ f[2] = r.number /\ r.status \in {"failed", "dead_letter"}}

\* The workers that have recorded such a failure and not yet reported it.
Reporting(e) ==
    {p \in Instances \X Workers :
        LET j == work[p[1]][p[2]] IN
          /\ j.phase = "health"
          /\ EndpointOf[j.task.attempt] = e
          /\ j.result # "success"}

\* A failure counts against an endpoint only when a row tells of it, and once:
\* the breaker is not tripped by a send whose outcome was not recorded and that
\* will be made and counted again (the return after a failed RecordOutcome in
\* recorder.go).  An operator who edits the row or retries by hand starts over,
\* and of a task that outlives the five minutes each copy would be counted.
StreakIsRecorded ==
    operator = 0 =>
        \A e \in Endpoints :
            health[e].failures + Cardinality(Reporting(e))
                <= Cardinality(RecordedFailures(e))

\* The other way about, the streak of an endpoint all of whose 2xx answers, if
\* any, were lost misses a recorded failure only through a fault: a write that
\* fails, or a process killed between its two statements, which takes one failure
\* per worker at the most.
StreakIsComplete ==
    operator = 0 =>
        \A e \in Endpoints :
            /\ health[e].status = "active"
            /\ \A a \in Attempts : EndpointOf[a] = e => accepted[a] = lost[a]
            => Cardinality(RecordedFailures(e))
                   <= health[e].failures + Cardinality(Reporting(e))
                        + faults * Cardinality(Workers)

\* delivered is final, and failed and dead_letter are left only by a manual
\* retry, which starts the count again.
SettledIsFinal ==
    [][\A a \in Attempts :
         /\ row[a].status = "delivered" => row'[a].status = "delivered"
         /\ row[a].status \in {"failed", "dead_letter"} =>
              row'[a].status = row[a].status \/ row'[a] = NewRow]_vars

\* The engine implements the life cycle of an attempt.
Lifecycle == INSTANCE AttemptLifecycle WITH
    status <- [a \in Attempts |-> row[a].status],
    number <- [a \in Attempts |-> row[a].number],
    due    <- [a \in Attempts |-> row[a].due]

ImplementsLifecycle == Lifecycle!Spec

\* Every attempt that waits or is being worked on is settled in the end, unless
\* its endpoint is switched off or deleted, in which last case nobody keeps the
\* task: crashes, lost replies, full channels and shutdowns only delay it.
Settled(a) == row[a].status \in {"delivered", "failed", "dead_letter"}

EventuallySettled ==
    \A a \in Attempts :
        []<>(\/ Settled(a)
             \/ health[EndpointOf[a]].status = "inactive"
             \/ ~Present(a) /\ ~Held(a))

\* An endpoint that is switched off is not left there: as long as something waits
\* for it, it is sent to again, if only to find out whether it responds (README,
\* "It periodically probes the endpoint").
DisabledIsProbed ==
    \A a \in Attempts :
        /\ Present(a)
        /\ health[EndpointOf[a]].status = "inactive"
        /\ row[a].status = "pending"
        ~> \/ health[EndpointOf[a]].status = "active"
           \/ ~Present(a)
           \/ \E i \in Instances, w \in Workers :
                 /\ work[i][w].phase = "deliver"
                 /\ EndpointOf[work[i][w].task.attempt] = EndpointOf[a]
=============================================================================
