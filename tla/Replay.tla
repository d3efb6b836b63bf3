-------------------------------- MODULE Replay --------------------------------
(***************************************************************************)
(* The three ways an operator has deliveries made again: one attempt       *)
(* (ManualRetry), one event (ReplayEvent), or whatever matches a filter    *)
(* (BatchReplay), while the engine settles attempts and the catalogue      *)
(* changes.  A bulk replay is one statement: it sees the table as it was   *)
(* when it began, and what it inserts is invisible to the others until it  *)
(* ends.  created_at is the time a transaction began, which need not be    *)
(* the order in which transactions commit.                                 *)
(***************************************************************************)
EXTENDS Integers, FiniteSets

CONSTANTS
    Apps,
    Events,        \* rows of events: none is ever deleted
    Endpoints,
    AppOf,         \* application_id of each event and endpoint
    TypeOf,        \* name of each event's type
    RecipientOf,   \* recipient_id of each event and endpoint
    Everyone,      \* the empty recipient_id: the endpoint hears every event
    Filters,       \* bound: the filters a bulk replay may carry
    Outcomes,      \* bound: how attempts may be settled
    AnyStatus, AnyEndpoint,      \* a filter that names none
    Handlers,      \* HTTP handlers that may run at the same time
    MaxCalls,      \* bound: replays and retries begun
    MaxChanges,    \* bound: changes of endpoints and subscriptions
    MaxFaults      \* bound: statements that fail

Names == {TypeOf[v] : v \in Events}

Settled == {"delivered", "failed", "dead_letter"}

\* "open" stands for pending and processing, which no replay tells apart.
Status == Settled \cup {"open"}

ASSUME ReplayAssumption ==
    /\ Events \cap Endpoints = {}
    /\ AppOf \in [Events \cup Endpoints -> Apps]
    /\ Outcomes \subseteq Settled
    /\ Filters \subseteq [status : Settled \cup {"open", AnyStatus},
                          endpoint : Endpoints \cup {AnyEndpoint},
                          from : Nat, to : Nat]
    /\ MaxCalls \in Nat /\ MaxChanges \in Nat /\ MaxFaults \in Nat

VARIABLES
    endpoint,   \* endpoints: life and status of each row
    subs,       \* subscriptions, by the name of the type
    attempts,   \* delivery_attempts; at is created_at
    clock,      \* transactions begun so far
    req,        \* what each handler has read and is about to do
    answer,     \* the last answer of each handler
    span,       \* history: what each call must and may replay, while it runs
    raced,      \* history: pairs of event and endpoint an operator may have doubled
    calls, changes, faults      \* the bounds used up so far

tables == <<endpoint, subs, attempts>>
vars == <<tables, clock, req, answer, span, raced, calls, changes, faults>>

Live(e) == endpoint[e] # "deleted"

Pair(a) == <<a.event, a.endpoint>>

Idle == [op |-> "idle"]
NoAnswer == [op |-> "none", code |-> 0]

-----------------------------------------------------------------------------
(* The engine and the catalogue                                            *)

\* What DeliveryEngine makes of an open attempt in the end.
Settle(a, s) ==
    /\ a.status = "open"
    /\ attempts' = (attempts \ {a}) \cup {[a EXCEPT !.status = s]}
    /\ UNCHANGED <<endpoint, subs, clock, req, answer, raced, calls, changes, faults>>

Change ==
    /\ changes < MaxChanges
    /\ changes' = changes + 1
    /\ UNCHANGED <<clock, req, answer, raced, calls, faults>>

SwitchEndpoint(e, status) ==
    /\ Change
    /\ Live(e)
    /\ endpoint' = [endpoint EXCEPT ![e] = status]
    /\ UNCHANGED <<subs, attempts>>

\* ON DELETE CASCADE.
DeleteEndpoint(e) ==
    /\ Change
    /\ Live(e)
    /\ endpoint' = [endpoint EXCEPT ![e] = "deleted"]
    /\ subs' = {s \in subs : s[1] # e}
    /\ attempts' = {a \in attempts : a.endpoint # e}

Resubscribe(e, name) ==
    /\ Change
    /\ Live(e)
    /\ subs' = IF <<e, name>> \in subs THEN subs \ {<<e, name>>} ELSE subs \cup {<<e, name>>}
    /\ UNCHANGED <<endpoint, attempts>>

-----------------------------------------------------------------------------
(* Helpers of the handlers                                                 *)

Begin(r, q) ==
    /\ req[r] = Idle
    /\ calls < MaxCalls
    /\ calls' = calls + 1
    /\ req' = [req EXCEPT ![r] = q]
    /\ answer' = [answer EXCEPT ![r] = NoAnswer]

Answer(r, code) ==
    /\ answer' = [answer EXCEPT ![r] = [op |-> req[r].op, code |-> code]]
    /\ req' = [req EXCEPT ![r] = Idle]

AtStep(r, op, step) == req[r].op = op /\ req[r].at = step

\* Mutant: the time is that of the last transaction.
NowStale == clock

\* created_at of what a transaction that begins now inserts.
Now == clock + 1

Fresh(pairs, t) ==
    {[event |-> p[1], endpoint |-> p[2], status |-> "open", at |-> t] : p \in pairs}

\* The rows of the handler's transaction go in together, unless a foreign key
\* refuses one: an endpoint chosen earlier may be gone.
CommitPairs(r, pairs) ==
    /\ IF \A p \in pairs : Live(p[2])
       THEN attempts' = attempts \cup Fresh(pairs, req[r].time) /\ Answer(r, 200)
       ELSE UNCHANGED attempts /\ Answer(r, 500)
    /\ UNCHANGED <<endpoint, subs, clock, calls, changes, faults>>

-----------------------------------------------------------------------------
(* ManualRetry: one guarded UPDATE.  An attempt that is missing, another    *)
(* application's or not failed answers 404 or 400 and changes nothing.      *)

ManualRetry(app, a) ==
    /\ calls < MaxCalls
    /\ calls' = calls + 1
    /\ AppOf[a.event] = app
    /\ a.status \in {"failed", "dead_letter"}
    /\ attempts' = (attempts \ {a}) \cup {[a EXCEPT !.status = "open"]}
    /\ raced' = raced \cup {Pair(a)}
    /\ UNCHANGED <<endpoint, subs, clock, req, answer, changes, faults>>

-----------------------------------------------------------------------------
(* ReplayEvent                                                             *)

\* Mutant: the event is read by id alone.
GetEventAnyApp(app, v) == TRUE

\* The event is read by id and application; 404 otherwise.
GetEvent(app, v) == AppOf[v] = app

\* The INSERT returns columns of an alias "da" that its target does not have, so
\* PostgreSQL refuses the statement whatever the table holds.
ReplayFailedAttemptsByEvent(r, app, v) ==
    /\ GetEvent(app, v)
    /\ req[r] = Idle
    /\ calls < MaxCalls
    /\ calls' = calls + 1
    /\ answer' = [answer EXCEPT ![r] = [op |-> "replayFailed", code |-> 500]]
    /\ UNCHANGED <<tables, clock, req, raced, changes, faults>>

\* Mutant: endpoints that are switched off are chosen as well.
GetSubscribedEndpointsAll(app, name, recipient) ==
    {e \in Endpoints : /\ Live(e) /\ AppOf[e] = app
                       /\ RecipientOf[e] \in {Everyone, recipient}
                       /\ <<e, name>> \in subs}

GetSubscribedEndpoints(app, name, recipient) ==
    {e \in Endpoints : /\ endpoint[e] = "active" /\ AppOf[e] = app
                       /\ RecipientOf[e] \in {Everyone, recipient}
                       /\ <<e, name>> \in subs}

\* Events do not change, and a type that events refer to is never deleted or
\* renamed: reading the event, its type and then the endpoints is one step.
ReplayEvent(r, app, v) ==
    /\ GetEvent(app, v)
    /\ Begin(r, [op |-> "replayAll", at |-> "begin", event |-> v, time |-> 0,
                 chosen |-> GetSubscribedEndpoints(app, TypeOf[v], RecipientOf[v])])
    /\ UNCHANGED <<tables, clock, raced, changes, faults>>

\* BEGIN fixes the created_at of the rows to come; nothing to insert, no
\* transaction.
BeginCreate(r) ==
    /\ AtStep(r, "replayAll", "begin")
    /\ IF req[r].chosen = {} THEN Answer(r, 200) /\ UNCHANGED clock
       ELSE /\ clock' = clock + 1
            /\ req' = [req EXCEPT ![r].at = "commit", ![r].time = Now]
            /\ UNCHANGED answer
    /\ UNCHANGED <<tables, raced, calls, changes, faults>>

CreateAttempts(r) ==
    /\ AtStep(r, "replayAll", "commit")
    /\ LET pairs == {req[r].event} \X req[r].chosen IN
         /\ CommitPairs(r, pairs)
         /\ raced' = raced \cup pairs

-----------------------------------------------------------------------------
(* BatchReplay                                                             *)

\* The WHERE clause.
Selected(app, f) ==
    {a \in attempts : /\ AppOf[a.event] = app
                      /\ f.status \in {AnyStatus, a.status}
                      /\ f.endpoint \in {AnyEndpoint, a.endpoint}
                      /\ a.at >= f.from /\ a.at <= f.to}

\* Mutant: the rows are ordered the other way round.
LatestAscending(S) == {a \in S : \A b \in S : Pair(b) = Pair(a) => b.at >= a.at}

\* DISTINCT ON (event_id, endpoint_id) ... ORDER BY created_at DESC.
Latest(S) == {a \in S : \A b \in S : Pair(b) = Pair(a) => b.at <= a.at}

Failed(S) == {a \in S : a.status \in {"failed", "dead_letter"}}

ToReplay(app, f) == {Pair(a) : a \in Failed(Latest(Selected(app, f)))}

\* The service refuses other statuses with 400.
BatchReplay(r, app, f) ==
    /\ f.status \in {AnyStatus, "failed", "dead_letter"}
    /\ Begin(r, [op |-> "bulk", at |-> "insert", app |-> app, filter |-> f,
                 pairs |-> ToReplay(app, f), time |-> Now])
    /\ clock' = clock + 1
    /\ UNCHANGED <<tables, raced, changes, faults>>

\* A filter that may hide the newest attempt of a pair behind an older one.
HidesNewer(q) == q.filter.status # AnyStatus \/ q.filter.to < q.time

\* Pairs that a bulk replay still running is about to insert, too.
Contested(r) ==
    UNION {req[q].pairs : q \in {p \in Handlers \ {r} : req[p].op = "bulk"}}

BatchInsert(r) ==
    /\ AtStep(r, "bulk", "insert")
    /\ CommitPairs(r, req[r].pairs)
    /\ raced' = raced \cup IF HidesNewer(req[r]) THEN req[r].pairs
                           ELSE req[r].pairs \cap Contested(r)

-----------------------------------------------------------------------------

\* A statement fails and the client gets a 500, which is not noted as an answer of
\* the program; a commit whose reply is lost is a commit like any other here.
StatementFails(r) ==
    /\ req[r] # Idle
    /\ faults < MaxFaults
    /\ faults' = faults + 1
    /\ req' = [req EXCEPT ![r] = Idle]
    /\ UNCHANGED <<tables, clock, answer, raced, calls, changes>>

Environment ==
    \/ \E a \in attempts, s \in Outcomes : Settle(a, s)
    \/ \E e \in Endpoints :
         \/ \E s \in {"active", "inactive"} : SwitchEndpoint(e, s)
         \/ \E name \in Names : Resubscribe(e, name)
         \/ DeleteEndpoint(e)

Operators ==
    \/ \E app \in Apps, a \in attempts : ManualRetry(app, a)
    \/ \E r \in Handlers :
         \/ \E app \in Apps, v \in Events :
              ReplayEvent(r, app, v) \/ ReplayFailedAttemptsByEvent(r, app, v)
         \/ \E app \in Apps, f \in Filters : BatchReplay(r, app, f)
         \/ BeginCreate(r) \/ CreateAttempts(r)
         \/ BatchInsert(r) \/ StatementFails(r)

-----------------------------------------------------------------------------
(* What a call is asked to replay, in the words of its comments.  A pair   *)
(* that must be replayed in every state of the call has to be; a pair that *)
(* may be replayed in no state of it must not be.                          *)

Must(q) ==
    CASE q.op = "replayAll" ->
           {<<q.event, e>> : e \in {d \in Endpoints :
               /\ endpoint[d] = "active" /\ AppOf[d] = AppOf[q.event]
               /\ RecipientOf[d] \in {Everyone, RecipientOf[q.event]}
               /\ <<d, TypeOf[q.event]>> \in subs}}
      [] q.op = "bulk" ->
           {Pair(a) : a \in {b \in Failed(attempts) \cap Selected(q.app, q.filter) :
               \A c \in attempts : Pair(c) = Pair(b) /\ c # b => c.at < b.at}}
      [] OTHER -> {}

May(q) ==
    IF q.op = "bulk" THEN {Pair(a) : a \in Failed(Selected(q.app, q.filter))} ELSE Must(q)

NoSpan == [must |-> {}, may |-> {}]

Observe ==
    span' = [r \in Handlers |->
               LET must == Must(req[r])'
                   may  == May(req[r])'
               IN  IF req'[r] = Idle THEN NoSpan
                   ELSE IF req[r] = Idle THEN [must |-> must, may |-> may]
                   ELSE [must |-> span[r].must \cap must, may |-> span[r].may \cup may]]

\* Every event has been sent to the endpoints of its application.
Init ==
    /\ endpoint = [e \in Endpoints |-> "active"]
    /\ subs = Endpoints \X Names
    /\ attempts = Fresh({p \in Events \X Endpoints :
                           /\ AppOf[p[1]] = AppOf[p[2]]
                           /\ RecipientOf[p[2]] \in {Everyone, RecipientOf[p[1]]}}, 0)
    /\ clock = 0
    /\ req = [r \in Handlers |-> Idle]
    /\ answer = [r \in Handlers |-> NoAnswer]
    /\ span = [r \in Handlers |-> NoSpan]
    /\ raced = {}
    /\ calls = 0 /\ changes = 0 /\ faults = 0

Next == (Environment \/ Operators) /\ Observe

Spec == Init /\ [][Next]_vars

-----------------------------------------------------------------------------
(* Properties                                                              *)

TypeOK ==
    /\ endpoint \in [Endpoints -> {"active", "inactive", "deleted"}]
    /\ subs \subseteq Endpoints \X Names
    /\ attempts \subseteq [event : Events, endpoint : Endpoints,
                           status : Status, at : 0..clock]
    /\ \A a, b \in attempts : Pair(a) = Pair(b) /\ a.at = b.at => a = b
    /\ clock \in 0..MaxCalls
    /\ raced \subseteq Events \X Endpoints

\* An endpoint has at most one open attempt of an event, unless an operator
\* retried one attempt of the pair, replayed the event to all subscribers, used
\* a filter that hides newer attempts, or ran two bulk replays at once: a plain
\* bulk replay, however often it is repeated, queues nothing twice
\* (delivery_repo.go BatchReplay, "fresh delivery attempts for matching
\* failed/dead-lettered deliveries").
OneOpenUnlessRaced ==
    \A a, b \in attempts :
        a.status = "open" /\ b.status = "open" /\ Pair(a) = Pair(b) /\ a # b
          => Pair(a) \in raced

\* A replay that answers 200 has created attempts for exactly what it was asked
\* to, as far as that did not change while it ran: every active subscribed
\* endpoint of the event ("fresh attempts are created for all active subscribed
\* endpoints", event_service.go), or every pair that matches the filter with its
\* newest attempt, and none without a failed attempt that matches.
ReplaysWhatWasAsked ==
    [][\A r \in Handlers :
         req[r].op \in {"replayAll", "bulk"} /\ req'[r] = Idle /\ answer'[r].code = 200
           => LET created == {Pair(a) : a \in attempts' \ attempts} IN
              /\ span[r].must \subseteq created
              /\ created \subseteq span[r].may]_vars

\* A replay never queues an event for an endpoint of another application, though
\* the endpoints are found by the name of a type and both may use that name.
TenantsApart == \A a \in attempts : AppOf[a.event] = AppOf[a.endpoint]

\* POST /events/:id/replay, in its default form, works (event_service.go, "If
\* failedOnly is true, only endpoints whose latest attempt failed or
\* dead-lettered are replayed").
FailedReplayIsServed ==
    \A r \in Handlers : answer[r].op = "replayFailed" => answer[r].code # 500
=============================================================================
