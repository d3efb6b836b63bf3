# HookOps in TLA+

This directory is a verification project for HookOps, the webhook delivery
service in `src/` (Go, PostgreSQL). It holds TLA+ models of the parts whose
correctness depends on the order of things, TLC configurations that check small
instances of them, and proofs that TLAPS checks for instances of any size.
`PROJECT.json` lists, for every definition, the lines of code it models.

- [The system](#the-system): its parts, what they keep, how they meet
- [The modules](#the-modules): which models what, action by action
- [What TLC checks](#what-tlc-checks): runs, bounds, fairness
- [Where code and documents disagree](#where-code-and-documents-disagree)
- [What is proved](#what-is-proved): theorems, assumptions, invariants
- [What is not modelled](#what-is-not-modelled) and [the plan](#plan)

## The system

An application POSTs an event. HookOps stores it with one *delivery attempt* per
subscribed endpoint, and later POSTs the payload to each endpoint, with retries
and back-off, until the attempt is `delivered`, `failed` or `dead_letter`.
Several instances of the server may share one database. There is no broker: the
table `delivery_attempts` is the queue.

| Component | Code | State it keeps | Operations that change state |
|---|---|---|---|
| Delivery queue | `repository/delivery_repo.go` | `delivery_attempts` | claim, hand back, record an outcome, retry by hand, replay; pages and look-ups only read |
| Dispatcher | `engine/dispatcher.go` | one goroutine: the batch it has claimed, what it could not enqueue | poll, enqueue, hand back, stop |
| Worker pool | `engine/worker_pool.go` | bounded task channel, closed flag, what each worker does | enqueue, take, deliver, close, drain |
| Deliverer | `engine/deliverer.go`, `signer.go` | none | POST |
| Rate limiter | `engine/limiter.go` | a token bucket per endpoint | wait, retune |
| Recorder | `engine/recorder.go`, `retry.go` | none | decide and write the outcome, report to the breaker |
| Breaker and endpoints | `repository/endpoint_repo.go`, `service/endpoint_service.go` | `endpoints`: status, consecutive failures, plain fields | create, patch, delete, record a result |
| Ingestion | `service/event_service.go`, `repository/event_repo.go` | `events`, new `delivery_attempts` | send an event, replay an event |
| Catalogue | `service/subscription_service.go`, `service/event_type_service.go` and their repositories | `event_types`, `subscriptions` | create, delete, subscribe, unsubscribe |
| Applications and authentication | `service/application_service.go`, `middleware/auth.go` | `applications` | create, look up by key |
| Process | `cmd/api/main.go` | the goroutines | start, graceful shutdown |
| Configuration | `config/config.go` | the settings of a process | load and validate, once |
| Statistics | `service/stats_service.go`, `repository/stats_repo.go` | none | three aggregates |
| HTTP layer, DTOs, logging, generated docs | `handler/`, `dto/`, `router/`, `response/`, `logger/`, `docs/` | none | translate, report |

How they meet:

- Handlers and engine never call each other. They meet in the database, one SQL
  statement or transaction at a time, without a lock or version held in between.
- The dispatcher calls the claim, feeds the channel, and hands back what did not
  fit. Workers take from the channel, POST, and write the outcome and then the
  endpoint's health as two statements, the second only if the first succeeded.
- `main` stops the dispatcher and waits for it, then closes the channel and
  waits up to 15 s for the workers. Everything in memory is lost with the process.
- The claim is also the recovery: a row left in `processing` for five minutes is
  claimed again, whoever holds it.

What is hard, and what makes each part correct:

- **Queue, dispatcher, pool** (interleaving, crash, back-pressure, shutdown). An
  attempt is in one place at a time; nothing is stranded; a send never meets a
  closed channel; an outcome is final; an extra delivery is always paid for by an
  answer lost on the network, a crash, a failed write or a task that outlived the
  five minutes, which itself makes one copy at most; every attempt is settled in
  the end.
- **Recorder and retry policy** (boundaries, floating point). The number of
  attempts is the configured one, and delays stay in range and grow.
- **Breaker** (read-modify-write against single-statement updates). An active
  endpoint has failures to spare; a tripped one is not switched on behind
  everybody's back; only consecutive failures count, each that a row tells of and
  no other.
- **Ingestion and catalogue** (reads before a transaction, races on a key).
  One event per key; the fan-out is what it was due to be; nothing crosses from
  one application or event type to another.
- **Replay** (a statement whose snapshot is old when it commits, `created_at` out
  of commit order). Nothing that was asked for is left out, nothing else is
  queued, and nothing is queued twice unless calls overlap or ask for it.
- **Rate limiter** (check-then-act on a shared bucket, a deadline). An endpoint is
  never sent more than its rate and burst allow, and nobody waits in vain.
- **Log, statistics, authentication** (several statements, each with a snapshot of
  its own). A walk through the pages accounts for every row, the numbers of one
  answer fit together, and the log shows a request no attempt that is not of the
  application its key was looked up as.

`PROJECT.json` lists the hazards line by line with the properties that cover them.

## The modules

```
EndpointHealth        health columns of an endpoint row, RecordDeliveryResult
  CircuitBreaker      endpoints under handlers and workers    MCCircuitBreaker
    CircuitBreakerProofs
  DeliveryEngine      queue, dispatcher, pool, recorder       MCDeliveryEngine
    DeliveryEngineProofs
      DeliveryHistoryProofs
AttemptLifecycle      abstract life of an attempt; DeliveryEngine implements it
RetryPolicy           configuration and retry schedule        MCRetryPolicy
  RetryPolicyProofs
RateLimiter           the bucket of an endpoint and workers   MCRateLimiter
  RateLimiterProofs
EventIngestion        POST /events against the catalogue      MCEventIngestion
  EventIngestionProofs
Replay                replays and retries by an operator      MCReplay
  ReplayProofs
Applications          tenants and their keys
  DeliveryLog         what an operator reads, while all write MCDeliveryLog
    DeliveryLogProofs
```

Throughout, one SQL statement (or one transaction) is one atomic step, a
database call that fails may or may not have taken effect, and payloads, URLs,
secrets and headers are left out. Definitions called "Mutant" in a comment are
plausible bugs that no specification uses: each shows that a property would
notice that bug.

**DeliveryEngine.** `row` is the table, with `due` for "next_retry_at is null or
past" and `stale` for "updated_at is five minutes old". `disp`, `batch`, `unsent`
are the dispatcher goroutine of an instance, `queue` its channel, `work` its
workers, `proc` the process. Attempts are numbered in `created_at` order.

| Code | Actions |
|---|---|
| `dispatchLoop` | `BeginPoll`, `DispatcherExit` |
| `FetchAndClaimPending` | `FetchAndClaimPending`, `ClaimFails` |
| `pollAndDispatch`, `Enqueue` | `BeginSend`, `CollectRemaining`, `Enqueue`, `EnqueueFails` |
| `RevertToPending` | `RevertToPending`, `RevertFails` |
| `workerLoop`, `processTaskSafely` | `TakeTask`, `Deliver` |
| `NewResultRecorder`, `RecordOutcome` | `Outcome`, `RecordOutcome`, `RecordFails` |
| `RecordDeliveryResult` | `UpdateHealth`, `HealthFails` |
| `main`, `Stop`, `Shutdown` | `StopSignal`, `ClosePool`, `Exit`, `Kill`, `Boot` |
| no row to record to | `RecordFindsNoRow` |
| `ManualRetry`, endpoint `Update` and `Delete` | `ManualRetry`, `PatchEndpoint`, `DeleteEndpoint` |
| the clock | `BackoffElapses`, `GoStale` |

`GoStale` of a row that some instance still holds is an *overrun*, and
`MaxOverruns` bounds them. `MaxOverruns = 0` says that no task stays in memory for
five minutes; the code does not enforce that, which is finding 1. `accepted` and
`lost` count the 2xx answers a receiver has given and those that never reached
the row: `Deliver` may lose one on the network (`unheard`, at most `MaxLost` for an
attempt), which is a retryable error to the worker, and `Kill`, `RecordFails` and
`RecordFindsNoRow` lose ones that were heard. `RecordedFailures` and `Reporting` are
no history but read off rows and workers: the failures that the rows of an endpoint
tell of, and the workers that stand between recording one and reporting it.
`gone` holds the endpoints that were deleted, whose attempts are no longer
`Present`: no claim finds them, a hand-back passes them over, and an outcome ends at
"no rows affected", while tasks already in memory go on; `after` counts the sends
that this makes possible. A gone row keeps its last value, so that
the refinement need not tell a deleted attempt from one that nobody touches again.
`PatchEndpoint` writes any consistent health, the most that
`CircuitBreaker` allows a stale copy to be.

**AttemptLifecycle** is what a reader of the code would want to know of one
attempt: claimed when due, handed back, rescheduled below `MaxRetries`,
dead-lettered at it, settled only from `processing`, left only by a manual retry.
`DeliveryEngine` refines it by taking `status`, `number` and `due` from `row`.

**CircuitBreaker** splits each handler at its two statements: `UpdateRead` takes
a copy of the row into `req`, `UpdateWrite` writes every mutable column back.
`Report` is a worker's single UPDATE. `limit` stands for every plain column.
`streak`, `tripped` and `overwritten` are history. `tripped` lasts from a trip until
somebody asks for active or a delivery succeeds, so that `OnlyLostUpdatesUndoATrip`
takes no side on whether a success ought to switch the endpoint on (finding 2);
`overwritten` remembers that a body which names no status has replaced health newer
than the copy it read.

**RetryPolicy** starts with a configuration that `Load` and `Validate` make of some
environment (`Configs`) and follows one attempt through `IsRetryable`, `CalculateNextRetry`
and the recorder. Delays are integers; `Jittered` gives every truncated result the
jitter can produce, `ToDuration` what the conversion of an out-of-range float
gives (both outcomes of the platforms Go has), `Clamp` the two clamps that follow.

**EventIngestion** runs each handler statement by statement (`LookupKey`,
`LookupType`, `LookupEndpoints`, `CreateWithAttempts`, `LookupAgain`), among
handlers that subscribe, unsubscribe and delete. Unique and foreign keys act
inside the statement that meets them. `span` and `fan` remember what an event was
due to in every state, and in some state, since its request began. The set of
endpoints and their recipients are fixed: creating one, and a PATCH of
`recipient_id`, are left out.

**Replay.** `attempts` is the table with `at` for `created_at`; "open" stands for
`pending` and `processing`, which no replay tells apart, and `Settle` for the
engine. A bulk replay reads at `BatchReplay` and inserts at `BatchInsert`, since
it is one statement whose snapshot is old when it commits; `ReplayEvent`,
`BeginCreate`, `CreateAttempts` are the look-up, the BEGIN and the commit of a
replay to all subscribers. `clock` numbers transactions by the time they began,
which is what `created_at` records. `span` remembers what a call had to replay in
every state and may have replayed in some; `raced` the pairs of event and endpoint
that somebody asked for in a way that may double them.

| Code | Actions |
|---|---|
| `deliveryService.ManualRetry` | `ManualRetry` |
| `ReplayEvent`, `CreateAttempts` | `ReplayEvent`, `BeginCreate`, `CreateAttempts` |
| `ReplayFailedAttemptsByEvent` | `ReplayFailedAttemptsByEvent` |
| `BatchReplay` | `BatchReplay`, `BatchInsert` |

**RateLimiter** is one endpoint's bucket in one process. A worker takes a task
(`TakeTask`, which carries the rate its claim read), finds or makes the bucket
(`Load`, `LoadOrStore`), compares and retunes it (`CompareLimit`, `SetLimit`,
`SetBurst`) and takes a token, ahead of time if need be, or gives up (`Reserve`).
`Advance`, `Delay` and `Tick` are what golang.org/x/time/rate and the timer do, modelled from
how `limiter.go` uses them. Tokens come in parts of 1/`Second`, so a bucket of limit
n gains n parts in a tick. The steps between taking a task and going to sleep
take no time. `meter` is a leaky bucket that the sends fill and the highest rate
so far drains: its level is how far the sends are ahead of that pace in the worst
stretch that ends now.

**Applications** is the table of tenants with its unique keys. Who may know a key is
not modelled: `GET /applications/:id` needs none and answers with it.
**DeliveryLog** puts it beside the tables an operator
reads. One reader sends a request, is authenticated, and then runs its statements
one at a time; writers store, settle, delete and switch in between. `status` has
"gone" for rows taken by the cascade, and `at` is chosen freely, because `created_at`
is the time a transaction began. `walk` remembers what came, left and was shown
since the walk's first page.

| Code | Actions |
|---|---|
| `ApplicationHandler.Create`, `CreateApplication` | `CreateApplication`, `CreateConflicts` |
| `AuthenticateAPIKey` | `Authenticate` |
| `DeliveryHandler.List`, `ListDeliveries`, `List` | `Request`, `CountAttempts`, `FetchPage`, `TurnPage` |
| `GetByID`, `ListByEvent` | `ReadAttempts` |
| `GetStats` | `GetEventStats`, `GetDeliveryStats`, `ListByApplication` |

## What TLC checks

| Run | Question | Bounds |
|---|---|---|
| `engine_two_instances` | How many copies of a task are there, what pays for a repeated delivery, is delivered the truth, and what becomes of a deleted endpoint? | 1 attempt, 2 instances, 1 worker each, 2 answers lost on the network, 1 fault, 1 operator action, 1 overrun, no shutdown |
| `engine_one_instance` | Does a full channel or a stop signal within a batch strand or copy an attempt, is the outcome final and the life cycle implemented, does the breaker count what the rows tell of, and is every attempt settled in the end? | 2 attempts, batch 2, channel 1, 1 worker, 1 shutdown, 1 fault, 1 operator action, no overrun |
| `breaker_races` | Which promises of the breaker survive lost updates? | 1 endpoint, 2 handlers, any body, 5 results, 4 calls |
| `retry_schedule` | Are delays in range and growing, and is every granted attempt made? | 240 environments, 8 codes, every jitter, an int64 of 700 |
| `ingest_requests` | Do requests with one key get one event, is the fan-out what was due, and does anything cross applications or types? | 2 applications, 2 endpoints, 3 types of one name, 1 key, 2 handlers, 3 calls, 1 switch, 1 fault |
| `replay_bulk` | Does a replay cover what it was asked to, and when can it queue an event twice? | 2 applications, 2 events, 2 endpoints, 3 filters, 2 handlers, 3 calls, 2 outcomes, 1 change, 1 fault |
| `delivery_log` | Does a walk through the pages show everything once, do the statistics add up, and does an answer stay within its tenant? | 2 applications, 2 keys, 2 events, 2 endpoints, 3 attempts, 2 filters, page sizes 1 and 2, 3 times, 5 writes |
| `limiter_paces` | Is an endpoint ever sent too much, and does anybody wait in vain? | 3 workers, rates 1 and 3, a second of 2 ticks, 2 changes of the rate |
| `engine_double_claim`, `engine_never_probed`, `breaker_trip_undone`, `replay_failed_only` | Four statements of the documents that the code does not keep | see below |

Why the bounds suffice to be interesting. Custody is about one row and who holds
it, so one attempt with two instances shows every race between two claims; until the
overrun `CopiesBounded` allows one copy, which is `HeldOnce`, and after it two, all
that can race for the row: the instance that lost it may be killed, hand its task
back, or answer last. The batch and the channel matter only when they differ in size,
and a shutdown within a batch is the business of one instance, so both are in
`engine_one_instance`. One fault at any point covers a crash or a lost
reply at each statement; two in a row, and a second instance for the properties of
`engine_one_instance`, are what the proofs are for.
`MaxRetries = 2` and `MaxFailures = 2` have a first, a last and a one-too-many.
Two answers lost on the network are one for every attempt but the last, or a first
and a last; `engine_one_instance` has none, because what the breaker sees of one is
a failure like any other. It has three failures to a trip, so that only both attempts
together can trip the breaker, and no task that outlives the five minutes: each copy
of a task would report its own failure, while the row tells of one.
In `RetryPolicy` the range of 700 is passed by the fifth multiplier of a base of
2 and not of 1, and a base of 1 is truncated to nothing by the lower jitter. Two
handlers are the fewest that race, and three calls the fewest that subscribe an
endpoint and send two events, or send one while its type is deleted and another
of the same name subscribed to. In `Replay` three calls are a replay, one that
repeats it and one that overlaps; the filters are none, a status and a date, each
of which may or may not hide a newer attempt, and attempts are settled as
delivered or failed, dead-lettered ones being treated like failed. The log of three
attempts needs two pages of two or three of one, so that a row may come or go on
either side of the page just read; the other tenant has no log, because all it can do wrong
is show in what it sees of the first one's. Three workers are one to make the
bucket, one to find it missing too and one to retune it; two changes of the rate
lead there and back.

Deadlock is checked in the engine, which never stops: a process that is down is
started again. In the other models the bounds end the behaviour, so
`CHECK_DEADLOCK FALSE`.

**Fairness.** `EventuallySettled`, and `DisabledIsProbed` in the run that refutes it,
assume weak fairness of each dispatcher, each
worker, each shutdown, each restart, and the two clocks. The code justifies it:
every statement and POST has a time-out (5 s, 30 s) and the rate-limit wait one of
10 s; the poll ticker and the Go scheduler do not starve a goroutine; the enqueue
gives up after `EnqueueTimeout`. The restart of a process is the deployment's.
Nothing is assumed of faults, signals, operators, or of which answer a receiver
gives.

## Where code and documents disagree

1. `engine_double_claim`: README says instances can share a table "without
   claiming the same task". The rescue clause (`delivery_repo.go:87`) goes by age
   alone, and a task can wait in a channel of 100 behind 5 workers for longer than
   five minutes with the default settings.
   Then the late outcome of the first holder, which `RecordOutcome`
   (`delivery_repo.go:163`) writes by id whatever the row holds, can turn
   `delivered` into `pending` or `dead_letter`.
2. `engine_never_probed`: README.md:20 says that a disabled endpoint is probed
   periodically and re-enabled once it responds, and that "No one has to remember to go
   flip it back on." Nothing in the code does either: the claim takes attempts of
   active endpoints only (`delivery_repo.go:83`), a success does not touch the status
   (`endpoint_repo.go:187`), and only a PATCH with status active sets it back. The run
   shows an attempt that waits for ever behind the breaker.
3. `breaker_trip_undone`: a PATCH of any field that was read before the trip
   writes the old status back (`endpoint_service.go:119`, `endpoint_repo.go:157`),
   and the old counter with it: failures on both sides of a success then add up,
   where the README says "Consecutive failures".
4. `replay_failed_only`: the statement that replays the failed deliveries of an
   event returns columns of an alias its INSERT does not have
   (`delivery_repo.go:486`), so the default form of `POST /events/:id/replay`
   always answers 500; the unit tests replay against a mock.

Worth knowing as well, though no run is about it or no document speaks of it:

- An event of an unknown type is documented as a 404 (`event_handler.go:46`) and
  answered 500: `SendEvent` compares with `repository.ErrNotFound`
  (`event_service.go:94`), `GetByName` returns `ErrEventTypeNotFound`
  (`event_type_repo.go:110`), and the unit test's mock hides it. `EventIngestion`
  models the 500.
- README.md:150 documents `/api/v1/stats/summary`; the route is `/api/v1/stats`.
- A bulk replay filters by status and date *before* it takes the newest attempt of a
  pair, so with such a filter it replays a pair whose newer attempt is still pending
  or has been delivered, and two bulk replays at once queue everything twice
  (`OneOpenUnlessRaced`).
- Two overlapping retunes for different rates may leave a bucket with the limit of one
  and the burst of the other for good, since only the limit is compared
  (`limiter.go:55`). After a change of the rate each worker but one may be early by
  the token it has already taken; `Paced` says that this is all.
- A pool with more workers than the rate serves within ten seconds fails tasks that
  were never sent, and counts them as failures of the endpoint
  (`worker_pool.go:139`). With the default of 5 workers no rate is that low; with
  50 workers a `rate_limit` of 1 is.
- The buckets are per process: N instances send N times the rate.
- Attempts of one transaction share `created_at`, so the order of pages is not total
  and tied rows may be skipped or repeated even in a log that nobody writes to; the
  properties speak of rows that are `Alone` at their time.
- The statistics are three statements, so their parts may be of different moments;
  `StatsAddUp` relates only numbers of the same statement. Two decimals of a percent
  also mean that one failure in 20000 settled attempts or more is shown as 100 %, and
  one delivery as 0 %; `StatsAddUp` speaks of the rate below that.
- A setting that does not parse is replaced by its default (`config.go:156`, `:168`),
  while one out of range stops the process.

## What is proved

For every number of attempts, instances, workers, endpoints and handlers, every
configuration `Config.Validate` accepts, and every value of the bounds:

| Theorem | States |
|---|---|
| `EngineTypes` | `TypeOK` of `DeliveryEngine` |
| `EngineExclusive` | `HeldOnce`, `HeldIsProcessing`, if `MaxOverruns = 0` |
| `EngineImplementsLifecycle` | `DeliveryEngine` implements `AttemptLifecycle`, if `MaxOverruns = 0` |
| `EngineSettledIsFinal` | `SettledIsFinal`, if `MaxOverruns = 0` |
| `EngineStrandsNothing` | `NothingStranded` and `NoSendOnClosedPool` |
| `EngineHistory` | `DeliveredWasAccepted`, `CopiesBounded`, `DuplicatesPaidFor`, `DeletedIsSentOnce`, for any number of overruns |
| `EngineStreaks` | `StreakIsRecorded` and `StreakIsComplete`, if `MaxOverruns = 0` |
| `BreakerSafe` | `TypeOK` and `RowsConsistent` of `CircuitBreaker` |
| `BreakerHonest` | `OnlyLostUpdatesUndoATrip` and `CountsConsecutive` |
| `ScheduleSafe` | `DelayWithinBounds`, `BackoffGrows`, `DeadLetterAfterAll` |
| `LimiterTypes`, `LimiterRetunes`, `LimiterPaces`, `LimiterServes` | `TypeOK`, `LimitMatchesBurst`, `Paced`, `NobodyGivesUp` of `RateLimiter` |
| `IngestionTypes`, `IngestionIdempotent`, `IngestionFansOut`, `IngestionIsolates`, `IngestionOwnType` | `TypeOK`, `SameKeySameEvent`, `FanOut`, `TenantIsolation`, `OfItsOwnType` of `EventIngestion` |
| `ReplayTypes`, `ReplayQueuesOnce`, `ReplayAsked`, `ReplayTenants` | `TypeOK`, `OneOpenUnlessRaced`, `ReplaysWhatWasAsked`, `TenantsApart` of `Replay` |
| `LogTypes`, `LogOwnRows`, `LogStats` | `TypeOK`, `OwnRowsOnly`, `StatsAddUp` of `DeliveryLog` |
| `LogNothingSkipped`, `LogNothingRepeated` | `NothingSkipped` and `NothingRepeated` of `DeliveryLog` |

The hypotheses are the named ASSUMEs of the modules (`EngineAssumption`,
`MaxFailuresAssumption`, `BreakerAssumption`, `RetryAssumption`, `LimiterAssumption`,
`IngestionAssumption`, `ReplayAssumption`, `ApplicationsAssumption`, `LogAssumption`),
which TLC evaluates in every run. `MaxOverruns = 0` is a hypothesis and not a fact
about the code: without it exclusive custody is false, as finding 1 shows, and so are
the life cycle and the finality of outcomes, since `RecordOutcome` is not guarded and
a copy that answers late overwrites what the other has recorded; and the breaker then
counts a failure of each copy. What is left when tasks do outlive the five minutes is
what `EngineStrandsNothing` and `EngineHistory` say.

The argument for the engine. `HeldOnce` alone is not inductive: to claim a row again
is safe only because a row that is held is in `processing` and young. So `SafeInv` has
three parts. `TypeInv` is types with the breaker's promise (`BreakerConsistent`),
which bounds the counter. `Quiet` ties the dispatcher's position to its memory and to
the state of the process (an exited dispatcher has an empty batch; a closed channel
means an exited dispatcher; a dead process holds nothing). `Exclusive` says that a
held row is `processing` and not stale, that tasks carry the row's number, that no two
instances hold one attempt, and that within an instance no two places do. Each action
is then one of few kinds: it moves a task inside an instance, it lets go of one, it
writes a row nobody else holds, or it claims rows nobody holds; there is one lemma per
kind. The refinement and `SettledIsFinal` follow, since every write to a row is either
a claim of a due or abandoned row or is done by its one holder.

`DeliveryHistoryProofs` goes on from there. `NothingStranded` needs only types and
`Quiet`: whatever moves a task moves it to another place, and a claim puts it into a
batch; a closed channel means an exited dispatcher, so no send meets one.
`EngineHistory` assumes nothing of how long tasks stay in memory, so it cannot use that
an attempt has one holder. It rests on an account of each attempt (`Ledger`) of one
delivery, and one more for each overrun and each lost answer, on the network or
later. The account is
spent on three things: a row that may be claimed (`MayBeClaimed`, which a held row in
processing may only when it is stale), a copy in memory that has not had its 2xx yet
(`Open`), and a 2xx. A claim turns the first into the second, a delivery the second into
the third; a failed outcome, a hand-back or a manual retry gives a copy up for the row;
a fault only takes away; and a 2xx that nobody heard leaves the copy as it was and
pays for itself, since it is lost the moment it is given. A delivered row has used
up a 2xx that is neither lost nor waiting to be recorded, which is
`DeliveredWasAccepted`. The row alone can be counted once, however many copies write
to it, which is why the unguarded `RecordOutcome` and `RevertToPending` of a superseded
holder make no third copy; and `GoStale` of a row that is held is the only step that
opens a new entry. `CopiesBounded` adds the copies whose 2xx waits to be recorded, which
are no more than the 2xx not lost. After a deletion the same account is kept of the
sends (`ToSend`), without the row, which no claim finds.

`EngineStreaks` puts the two together. `Streak` keeps three numbers for an endpoint: the
failures its rows tell of, those the breaker has counted, and the workers that stand
between the two statements. A recorded outcome moves the first and the third by one,
because the row is in processing with the number of the task (`SafeInv`), so that the
failure was not on it before; a report moves one from the third to the second; and a
fault loses one, or one per worker of the process it kills (`Allowance`). A success
ends the streak, but by then the row says delivered (`Reported`) and goes on saying so,
and a delivered attempt has an answer that was heard and not lost (`Ledger`). The bound
is stated for endpoints without one, and as long as no operator has changed a row.

For the breaker, the copies that handlers have read must be consistent too
(`CopiesConsistent`), because they will be written; that a trip stays, until an answer
or an operator ends it, and that the count is honest follow step by step for rows that
are not `overwritten`. For the limiter, the bucket is of one rate unless a worker
stands between the two calls, and as long as no two retunes have `crossed`, workers
that do are of one rate. `Paced` is an account: whatever was sent, or is asleep and
will be, has taken a token (`Accounted`). Between retunes the stored bucket may hold
fewer than a bucket that always filled at the highest rate, so the account is kept
with the level of such a bucket, for which a retune is one token per worker at most.
`NobodyGivesUp` adds that with one rate the tokens taken ahead of time are those of
the workers asleep, fewer than all of them (`OneRate`). That the clock can move while
all sleep is `SomeoneOnTime`. For the schedule, `AcceptedConfig` says what a
configuration that passes `Validate` looks like, and each delay is tied to the step of
the multiplier table it came from, so that the longest delay of a step (1.2 times) can
be compared with the shortest of the next one (0.8 times at least four times as much),
below the ceiling or at it.

For ingestion the point is what a request has read by the time it commits
(`ReadInv`). A row of `event_types` never comes back to life, so the type found, if
the foreign key still finds it, was live when the subscriptions were read, and the
unique name then makes every subscription read by name one to that very type:
`OfItsOwnType`, and with the applications of endpoint and type, which `Subscribe`
has compared (`CatalogueInv`), `TenantIsolation`. `FanOut` follows from `SpanInv`:
what is due now lies between what has always been and what has ever been.
`SameKeySameEvent` rests on the unique index for the events, and on answers that
name an event with their key (`AnswerInv`).

For replay, `OneOpenUnlessRaced` alone is not inductive. `OpenInv` says that of a
pair nobody raced for only the newest attempt can be open, and that a plain bulk
replay about to insert a pair finds no attempt of it open and all older than its
transaction. `TimeInv` makes "newest" unique: transactions draw times of their own,
and no more of them than calls (`ClockInv` counts those that have not drawn yet).
`ReplaysWhatWasAsked` follows from `AskedInv`: what a request has read so far lies
between what it must and what it may replay, because at the read it is both, and
afterwards the first only shrinks and the second only grows; the commit then creates
what was read and nothing else.

For the log, a request that turns pages is authenticated again for each. That it
goes on in the same log rests on `KeyInv`, one application per key, and `CallInv`.
The statistics are counts of sets, disjoint or one in the other, and a quotient.

What the pages of a walk have shown depends on the rank of a row, the number of rows
before it. `PageHolds` says which ranks a page holds. When the log changes, rows
that now lie before a cut and did not are no more than the rows that left (`Skips`),
because of those the last has all the others before it; rows that now lie behind
it and did not are no more than those that came (`Repeats`). `PagesInv` adds up both
over the pages: `Passed` is what the walk went by unseen, `Again` what it has shown
twice or will. On the last page the total of the count before it decides, which is
short of the log by the rows that slipped in since (`walk.fresh`).

Only model-checked: `EventuallySettled`, since the proof system does not handle
ENABLED, and with it fairness. Every other property of a passing run is a theorem.
`DisabledIsProbed` is false (finding 2), and what holds is that an attempt is settled
unless its endpoint is off, which `EventuallySettled` says. `TrippedStaysOff` is false
as it stands (finding 3); `OnlyLostUpdatesUndoATrip` is the part of it that holds.

## What is not modelled

- Signing, URL validation, headers, body limits: pure functions of data the
  models leave out. How a key is drawn, that it cannot be guessed, and who reads it:
  `OwnRowsOnly` is about the application a request was authenticated as.
- The router, DTOs, error pages, logging, CORS, recovery, generated docs: no state.
  Handlers appear where the request they begin is an action.
- Listings without pages (endpoints, event types, subscriptions) and the average
  latency: one read-only statement each.
- The HTTP server's own shutdown, the 15 s limits and `dbPool.Close`: `Exit` covers a
  drain that ends and `Kill` one that does not.
- Load balancing between instances and PostgreSQL itself: a statement is atomic,
  `SKIP LOCKED` claims are serialised in some order.

## Plan

Done: the queue and the engine with deletion, the life cycle they implement, the
breaker, configuration and retry policy, the rate limiter, ingestion, replay,
applications, the log and the statistics; a theorem for every safety property, those
of the engine's history for any number of overruns. Next:

1. `Shutdown`: the HTTP phase, the 15 s drain and the closing of the pool of
   connections, composed with the engine.
