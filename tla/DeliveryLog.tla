----------------------------- MODULE DeliveryLog -----------------------------
(***************************************************************************)
(* What an operator reads while the system writes: pages of the delivery   *)
(* log, one attempt, the attempts of an event, and the statistics.  A      *)
(* request is several statements, each with a snapshot of its own: the key *)
(* is looked up, then a page is a count and a query, the statistics are    *)
(* three queries.  A caller who wants the whole log asks for one page      *)
(* after the other.  Readers write nothing, so one of them at a time shows *)
(* all they can see; what they see depends on who writes in between.       *)
(***************************************************************************)
EXTENDS Applications, Naturals

CONSTANTS
    Events, Endpoints, Attempts,
    AppOf,           \* application_id of each event
    Owner,           \* application_id of each endpoint
    EventOf,         \* event_id and
    EndpointOf,      \*   endpoint_id of each attempt
    Filters,         \* the filters callers use
    Sizes,           \* the values of per_page callers send
    DefaultPerPage,  \* 20
    MaxPerPage,      \* 100
    MaxTime,         \* bound: values of created_at
    WeekStart, DayStart,  \* where "this week" and "today" begin
    MaxWrites        \* bound: statements that write

AnyStatus == "any"
AnyEndpoint == "every endpoint"

Settled == {"delivered", "failed", "dead_letter"}
DeliveryStatus == {"pending", "processing"} \cup Settled

Filter == [status : DeliveryStatus \cup {AnyStatus},
           endpoint : Endpoints \cup {AnyEndpoint},
           from : 0..MaxTime, to : 0..MaxTime]

ASSUME LogAssumption ==
    /\ IsFiniteSet(Events) /\ IsFiniteSet(Endpoints) /\ IsFiniteSet(Attempts)
    /\ AppOf \in [Events -> Apps]
    /\ Owner \in [Endpoints -> Apps]
    /\ EventOf \in [Attempts -> Events]
    /\ EndpointOf \in [Attempts -> Endpoints]
    /\ \A x \in Attempts : Owner[EndpointOf[x]] = AppOf[EventOf[x]]
    /\ Filters \subseteq Filter
    /\ Sizes \subseteq Nat
    /\ DefaultPerPage \in 1..MaxPerPage
    /\ MaxPerPage \in Nat \ {0}
    /\ {MaxTime, MaxWrites} \subseteq Nat
    /\ WeekStart \in 1..MaxTime /\ DayStart \in WeekStart..MaxTime

VARIABLES
    status,     \* delivery_attempts: status, "none" before and "gone" after
    at,         \* delivery_attempts: created_at
    born,       \* events: created_at, 0 if there is no row yet
    endpoint,   \* endpoints: status, or "gone"
    call,       \* the request of the reader
    answer,     \* what it has been told
    walk,       \* history: what happened to the log while it was paged through
    writes      \* the bound used up so far

tables == <<keyOf, status, at, born, endpoint>>
vars   == <<tables, call, answer, walk, writes>>

Present(x) == status[x] \in DeliveryStatus

-----------------------------------------------------------------------------
(* The writers                                                             *)

\* SendEvent, ReplayEvent and BatchReplay store their attempts in one
\* transaction, so these share a created_at; it is the time the transaction
\* began, which says nothing of when it commits.
StoreAttempts(v, new, t) ==
    /\ Exists(AppOf[v])
    /\ born[v] = 0 \/ new # {}
    /\ \A x \in new : /\ EventOf[x] = v
                      /\ status[x] = "none"
                      /\ endpoint[EndpointOf[x]] # "gone"
    /\ status' = [x \in Attempts |-> IF x \in new THEN "pending" ELSE status[x]]
    /\ at' = [x \in Attempts |-> IF x \in new THEN t ELSE at[x]]
    /\ born' = [born EXCEPT ![v] = IF @ = 0 THEN t ELSE @]
    /\ UNCHANGED <<keyOf, endpoint>>

\* Claimed, handed back or rescheduled, settled, retried by hand.
StatusSteps ==
    {<<"pending", "processing">>, <<"processing", "pending">>}
    \cup {<<"processing", s>> : s \in Settled}
    \cup {<<s, "pending">> : s \in {"failed", "dead_letter"}}

ChangeStatus(x, s) ==
    /\ <<status[x], s>> \in StatusSteps
    /\ status' = [status EXCEPT ![x] = s]
    /\ UNCHANGED <<keyOf, at, born, endpoint>>

\* DELETE FROM endpoints, whose attempts go with it (ON DELETE CASCADE).
DeleteEndpoint(e) ==
    /\ endpoint[e] # "gone"
    /\ endpoint' = [endpoint EXCEPT ![e] = "gone"]
    /\ status' = [x \in Attempts |->
                    IF EndpointOf[x] = e /\ Present(x) THEN "gone" ELSE status[x]]
    /\ UNCHANGED <<keyOf, at, born>>

\* The breaker or a PATCH.
SwitchEndpoint(e) ==
    /\ endpoint[e] # "gone"
    /\ endpoint' = [endpoint EXCEPT ![e] = IF @ = "active" THEN "inactive" ELSE "active"]
    /\ UNCHANGED <<keyOf, status, at, born>>

-----------------------------------------------------------------------------
(* Reading                                                                 *)

NoCounts ==
    [events     |-> [all |-> 0, week |-> 0, today |-> 0],
     deliveries |-> [total |-> 0, delivered |-> 0, failed |-> 0, pending |-> 0,
                     dead_letter |-> 0, rate |-> 0],
     endpoints  |-> [total |-> 0, active |-> 0, inactive |-> 0]]

NoAnswer == [rows |-> {}, total |-> 0, pages |-> 0, counts |-> NoCounts]

NoCall == [pc |-> "idle", op |-> "none", key |-> NoKey, app |-> NoApp]

NoWalk == [must |-> {}, left |-> 0, came |-> 0, fresh |-> 0,
           seen |-> [x \in Attempts |-> 0]]

\* Mutant: the page size is taken as it comes.
SanitizeMaxOnly(n) == IF n > MaxPerPage THEN MaxPerPage ELSE n

\* Handler and service both put per_page into 1..100; below 1 means the default.
Sanitize(n) == CASE n < 1 -> DefaultPerPage
                 [] n > MaxPerPage -> MaxPerPage
                 [] OTHER -> n

\* Mutant: the last, shorter page is not counted.
TotalPagesFloor(total, perPage) == total \div perPage

\* math.Ceil of the quotient.
TotalPages(total, perPage) == (total + perPage - 1) \div perPage

\* Mutant: pages overlap by one row.
OffsetShort(page, perPage) == IF page = 1 THEN 0 ELSE (page - 1) * perPage - 1

Offset(page, perPage) == (page - 1) * perPage

\* WHERE of the count and of the page: the tenant by the join with events, and
\* the filters that were given.
Matching(app, f) ==
    {x \in Attempts :
        /\ Present(x)
        /\ AppOf[EventOf[x]] = app
        /\ f.status \in {AnyStatus, status[x]}
        /\ f.endpoint \in {AnyEndpoint, EndpointOf[x]}
        /\ at[x] \in f.from..f.to}

\* ORDER BY created_at DESC LIMIT n OFFSET k.  Rows of one time come in any
\* order, and not in the same order each time they are asked for.
PagesOf(rows, k, n) ==
    {page \in SUBSET rows :
        /\ Cardinality(page) <= n
        /\ \E before \in SUBSET (rows \ page) :
             /\ Cardinality(before) <= k
             /\ before \cup page # rows => Cardinality(page) = n
             /\ before # rows => Cardinality(before) = k
             /\ \A x \in before, y \in rows \ before : at[x] >= at[y]
             /\ \A x \in page, y \in rows \ (before \cup page) : at[x] >= at[y]}

\* A caller sends a request; only the list has pages.
Request(k, op) ==
    /\ call = NoCall
    /\ \/ /\ op = "list"
          /\ \E f \in Filters, n \in Sizes :
               call' = [pc |-> "auth", op |-> op, key |-> k, app |-> NoApp,
                        filter |-> f, perPage |-> Sanitize(n), page |-> 1]
       \/ /\ op = "get"
          /\ \E x \in Attempts :
               call' = [pc |-> "auth", op |-> op, key |-> k, app |-> NoApp, attempt |-> x]
       \/ /\ op = "event"
          /\ \E v \in Events :
               call' = [pc |-> "auth", op |-> op, key |-> k, app |-> NoApp, event |-> v]
       \/ /\ op = "stats"
          /\ call' = [pc |-> "auth", op |-> op, key |-> k, app |-> NoApp]
    /\ UNCHANGED <<answer, walk>>

\* The middleware: a 401, or the handler runs for the application it found.
Authenticate ==
    /\ call.pc = "auth"
    /\ \E a \in AuthenticateAPIKey(call.key) :
         call' = [call EXCEPT !.app = a,
                              !.pc = IF a = NoApp THEN "done"
                                     ELSE IF call.op = "list" THEN "count" ELSE call.op]
    /\ UNCHANGED <<answer, walk>>

\* The count decides how many pages the answer announces; nothing to count is
\* an answer without a second statement.
CountAttempts ==
    /\ call.pc = "count"
    /\ LET total == Cardinality(Matching(call.app, call.filter))
       IN  /\ answer' = [answer EXCEPT !.total = total, !.rows = {},
                                       !.pages = TotalPages(total, call.perPage)]
           /\ call' = [call EXCEPT !.pc = IF total = 0 THEN "answered" ELSE "page"]
    /\ walk' = [walk EXCEPT !.fresh = 0]

FetchPage ==
    /\ call.pc = "page"
    /\ LET rows == Matching(call.app, call.filter)
       IN  \E page \in PagesOf(rows, Offset(call.page, call.perPage), call.perPage) :
             LET before == IF call.page = 1 THEN [NoWalk EXCEPT !.must = rows,
                                                                !.fresh = walk.fresh]
                           ELSE walk
             IN  /\ answer' = [answer EXCEPT !.rows = page]
                 /\ walk' = [before EXCEPT
                       !.seen = [x \in Attempts |->
                          IF x \in page /\ @[x] < 2 THEN @[x] + 1 ELSE @[x]]]
    /\ call' = [call EXCEPT !.pc = "answered"]

WalkOver == call.pc = "answered" /\ call.page >= answer.pages

\* The caller asks for the next page as long as the last answer announced one.
TurnPage ==
    /\ call.pc = "answered" /\ ~WalkOver
    /\ call' = [call EXCEPT !.page = @ + 1, !.pc = "auth"]
    /\ UNCHANGED <<answer, walk>>

\* Mutant: an attempt is found by its id alone.
GetByIDAnyApp(app, x) == {y \in {x} : Present(y)}

\* None is a 404, for an attempt of another application too.
GetByID(app, x) == {y \in {x} : Present(y) /\ AppOf[EventOf[y]] = app}

ListByEvent(app, v) == {x \in Attempts : Present(x) /\ EventOf[x] = v /\ AppOf[v] = app}

ReadAttempts ==
    /\ \/ /\ call.pc = "get"
          /\ answer' = [answer EXCEPT !.rows = GetByID(call.app, call.attempt)]
       \/ /\ call.pc = "event"
          /\ answer' = [answer EXCEPT !.rows = ListByEvent(call.app, call.event)]
    /\ call' = [call EXCEPT !.pc = "done"]
    /\ UNCHANGED walk

\* The three statements of the statistics, in their order.
GetEventStats ==
    /\ call.pc = "stats"
    /\ LET Since(t) == Cardinality({v \in Events : AppOf[v] = call.app /\ born[v] >= t})
       IN  answer' = [answer EXCEPT
              !.counts.events = [all |-> Since(1), week |-> Since(WeekStart),
                                 today |-> Since(DayStart)]]
    /\ call' = [call EXCEPT !.pc = "deliveries"]
    /\ UNCHANGED walk

\* Mutant: attempts that a worker holds are in no bucket.
OpenPendingOnly == {"pending"}

\* What "pending" stands for in the answer.
Open == {"pending", "processing"}

\* Delivered of settled, in hundredths of a percent, rounded half up; nothing
\* settled is 0.
SuccessRate(delivered, settled) ==
    IF settled = 0 THEN 0 ELSE (20000 * delivered + settled) \div (2 * settled)

GetDeliveryStats ==
    /\ call.pc = "deliveries"
    /\ LET rows == {x \in Attempts : Present(x) /\ AppOf[EventOf[x]] = call.app}
           In(S) == Cardinality({x \in rows : status[x] \in S})
       IN  answer' = [answer EXCEPT
              !.counts.deliveries =
                 [total |-> Cardinality(rows), delivered |-> In({"delivered"}),
                  failed |-> In({"failed"}), pending |-> In(Open),
                  dead_letter |-> In({"dead_letter"}),
                  rate |-> SuccessRate(In({"delivered"}), In(Settled))]]
    /\ call' = [call EXCEPT !.pc = "endpoints"]
    /\ UNCHANGED walk

EndpointsOf(app) == {e \in Endpoints : Owner[e] = app /\ endpoint[e] # "gone"}

ListByApplication ==
    /\ call.pc = "endpoints"
    /\ LET mine == EndpointsOf(call.app)
           active == {e \in mine : endpoint[e] = "active"}
       IN  answer' = [answer EXCEPT
              !.counts.endpoints = [total |-> Cardinality(mine), active |-> Cardinality(active),
                                    inactive |-> Cardinality(mine \ active)]]
    /\ call' = [call EXCEPT !.pc = "done"]
    /\ UNCHANGED walk

\* An answer is read and put away, a statement failed (a 500), or the caller
\* has seen enough.
Leave ==
    /\ call # NoCall
    /\ call' = NoCall
    /\ answer' = NoAnswer
    /\ walk' = NoWalk

-----------------------------------------------------------------------------
(* The specification                                                       *)

Walking ==
    /\ call.op = "list"
    /\ call.pc # "done"
    /\ ~WalkOver
    /\ call.page = 1 => call.pc \in {"page", "answered"}

\* What a write does to the rows that a walk is about.
Observe ==
    LET old  == Matching(call.app, call.filter)
        now  == Matching(call.app, call.filter)'
        came == Cardinality(now \ old)
    IN  walk' = IF Walking
                THEN [walk EXCEPT
                        !.must = @ \cap now,
                        !.left = @ + Cardinality(old \ now),
                        !.came = @ + came,
                        !.fresh = IF call.pc = "page" THEN @ + came ELSE @]
                ELSE walk

WriteApplications ==
    \E k \in Keys :
        \/ \E a \in Apps : CreateApplication(a, k)
        \/ CreateConflicts(k)

Write ==
    \/ WriteApplications /\ UNCHANGED <<status, at, born, endpoint>>
    \/ \E v \in Events, new \in SUBSET Attempts, t \in 1..MaxTime : StoreAttempts(v, new, t)
    \/ \E x \in Attempts, s \in DeliveryStatus : ChangeStatus(x, s)
    \/ \E e \in Endpoints : DeleteEndpoint(e) \/ SwitchEndpoint(e)

Read ==
    \/ \E k \in Keys, op \in {"list", "get", "event", "stats"} : Request(k, op)
    \/ Authenticate
    \/ CountAttempts \/ FetchPage \/ TurnPage
    \/ ReadAttempts
    \/ GetEventStats \/ GetDeliveryStats \/ ListByApplication
    \/ Leave

Init ==
    /\ InitApplications
    /\ status = [x \in Attempts |-> "none"]
    /\ at = [x \in Attempts |-> 0]
    /\ born = [v \in Events |-> 0]
    /\ endpoint = [e \in Endpoints |-> "active"]
    /\ call = NoCall
    /\ answer = NoAnswer
    /\ walk = NoWalk
    /\ writes = 0

Next ==
    \/ /\ writes < MaxWrites
       /\ writes' = writes + 1
       /\ Write
       /\ UNCHANGED <<call, answer>>
       /\ Observe
    \/ Read /\ UNCHANGED <<tables, writes>>

Spec == Init /\ [][Next]_vars

-----------------------------------------------------------------------------
(* Properties                                                              *)

\* Every variable has the shape the code gives it; in particular the page size
\* that reaches the query is one of 1..MaxPerPage, whatever the caller sent.
TypeOK ==
    /\ keyOf \in [Apps -> Keys \cup {NoKey}]
    /\ status \in [Attempts -> DeliveryStatus \cup {"none", "gone"}]
    /\ at \in [Attempts -> 0..MaxTime]
    /\ born \in [Events -> 0..MaxTime]
    /\ endpoint \in [Endpoints -> {"active", "inactive", "gone"}]
    /\ call.app \in Apps \cup {NoApp}
    /\ call.op = "list" => call.filter \in Filters /\ call.perPage \in 1..MaxPerPage
    /\ answer.rows \subseteq Attempts
    /\ walk.must \subseteq Attempts

\* No other attempt has its created_at, so the order gives it one place.
Alone(x) == \A y \in Attempts \ {x} : at[y] # at[x]

\* A caller who follows the pages to the end (delivery_handler.go List) has seen
\* every attempt that matched all along, except one for each row that left the
\* log behind its back or slipped in between the last count and its page.
NothingSkipped ==
    WalkOver => Cardinality({x \in walk.must : Alone(x) /\ walk.seen[x] = 0})
                    <= walk.left + walk.fresh

\* The pages show an attempt twice only if the log grew meanwhile, and then no
\* more attempts than it grew by.
NothingRepeated ==
    Cardinality({x \in Attempts : Alone(x) /\ walk.seen[x] > 1}) <= walk.came

\* Whatever is asked for, by page, by id or by event, an answer holds attempts of
\* events of the application that the request was authenticated as.
OwnRowsOnly == \A x \in answer.rows : AppOf[EventOf[x]] = call.app

\* The numbers of one statistics answer fit together: each attempt is in one
\* bucket, today is part of the week and the week of all time, an endpoint is
\* active or inactive, and the rate is 0 or 100 % exactly at its ends, as long as
\* one attempt in all that are settled is more than rounding hides.
StatsAddUp ==
    LET d == answer.counts.deliveries
        v == answer.counts.events
        e == answer.counts.endpoints
        settled == d.delivered + d.failed + d.dead_letter
    IN  /\ d.total = settled + d.pending
        /\ v.today <= v.week /\ v.week <= v.all
        /\ e.total = e.active + e.inactive
        /\ settled < 20000 =>
             /\ d.rate = 0 <=> d.delivered = 0
             /\ d.rate = 10000 <=> settled > 0 /\ d.delivered = settled
=============================================================================
