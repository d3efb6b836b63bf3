---------------------------- MODULE EventIngestion ----------------------------
(***************************************************************************)
(* POST /events: the idempotency check, the look-up of the event type and  *)
(* of the subscribed endpoints, and the transaction that inserts the event *)
(* with one delivery attempt per endpoint.  The look-ups are statements of *)
(* their own, outside that transaction, so requests that subscribe,        *)
(* unsubscribe or delete run in between, and so do other events with the   *)
(* same key.  Every statement is one step; the unique and foreign keys of  *)
(* the schema are part of the statement that meets them.                   *)
(***************************************************************************)
EXTENDS Integers, Sequences, FiniteSets

CONSTANTS
    Apps,
    Endpoints,
    Types,         \* rows event_types may ever hold; a name may come back as a new row
    AppOf,         \* application_id of each endpoint and event type
    NameOf,        \* name of each event type
    RecipientOf,   \* recipient_id of each endpoint
    Everyone,      \* the empty recipient_id: the endpoint hears every event
    Keys,          \* idempotency keys
    NoKey,
    Requests,      \* HTTP handlers that may run at the same time
    MaxCalls,      \* bound: requests begun
    MaxSwitches,   \* bound: endpoints switched on or off by breaker or operator
    MaxFaults      \* bound: statements that fail

Names      == {NameOf[t] : t \in Types}
Recipients == {Everyone} \cup {RecipientOf[e] : e \in Endpoints}

ASSUME IngestionAssumption ==
    /\ AppOf \in [Endpoints \cup Types -> Apps]
    /\ Endpoints \cap Types = {}
    /\ NoKey \notin Keys
    /\ MaxCalls \in Nat /\ MaxSwitches \in Nat /\ MaxFaults \in Nat

VARIABLES
    endpoint,   \* endpoints: life and status of each row
    type,       \* event_types: life of each row
    subs,       \* subscriptions
    events,     \* events, in order of insertion
    attempts,   \* delivery_attempts
    req,        \* what each handler has read and is about to do
    answers,    \* history: how POST /events was answered
    span,       \* history: what each handler's event was due to, while it ran
    fan,        \* history: the same for each event, as its handler committed
    calls, switches, faults      \* the bounds used up so far

catalogue == <<endpoint, type, subs>>
vars == <<catalogue, events, attempts, req, answers, span, fan, calls, switches, faults>>

Live(e) == endpoint[e] \in {"active", "inactive"}

Idle == [op |-> "idle"]

Ingest ==
    [op : {"ingest"}, at : {"key", "type", "fanout", "create", "again"}, app : Apps,
     name : Names, recipient : Recipients, key : Keys \cup {NoKey},
     type : SUBSET Types, chosen : SUBSET (Endpoints \X Types)]

Change ==
    [op : {"subscribe"}, at : {"type", "insert"}, app : Apps,
     endpoint : Endpoints, type : Types]
    \cup [op : {"unsubscribe"}, endpoint : Endpoints, type : Types]
    \cup [op : {"dropEndpoint"}, endpoint : Endpoints]
    \cup [op : {"dropType"}, type : Types]

-----------------------------------------------------------------------------
(* Endpoints, event types and subscriptions                                *)

Begin(r, q) ==
    /\ calls < MaxCalls
    /\ calls' = calls + 1
    /\ req[r] = Idle
    /\ req' = [req EXCEPT ![r] = q]

End(r) == req' = [req EXCEPT ![r] = Idle]

\* The engine's breaker and the operators' PATCH, see CircuitBreaker.  A PATCH of
\* recipient_id is left out, and so is the creation of endpoints: the set of them
\* and their recipients are fixed for a run.
SwitchEndpoint(e, status) ==
    /\ switches < MaxSwitches
    /\ switches' = switches + 1
    /\ Live(e)
    /\ endpoint' = [endpoint EXCEPT ![e] = status]
    /\ UNCHANGED <<type, subs, events, attempts, req, answers, fan, calls, faults>>

\* uq_event_types_app_name refuses a second row of the same name.
NameFree(t) ==
    \A u \in Types : type[u] = "live" => <<AppOf[u], NameOf[u]>> # <<AppOf[t], NameOf[t]>>

CreateEventType(t) ==
    /\ type[t] = "absent"
    /\ NameFree(t)
    /\ type' = [type EXCEPT ![t] = "live"]
    /\ UNCHANGED <<endpoint, subs, events, attempts, req, answers, fan,
                   calls, switches, faults>>

\* Every request below first reads a row and asks whose it is; another
\* application's row answers 404 and the request is over.
GetEndpoint(app, e) == Live(e) /\ AppOf[e] = app

GetEventType(app, t) == type[t] = "live" /\ AppOf[t] = app

Subscribe(r, app, e, t) ==
    /\ GetEndpoint(app, e)
    /\ Begin(r, [op |-> "subscribe", at |-> "type", app |-> app,
                 endpoint |-> e, type |-> t])
    /\ UNCHANGED <<catalogue, events, attempts, answers, fan, switches, faults>>

\* Mutant: the event type's application is not compared.
SubscribeReadTypeAnyApp(r) ==
    /\ req[r].op = "subscribe" /\ req[r].at = "type"
    /\ IF type[req[r].type] = "live"
       THEN req' = [req EXCEPT ![r].at = "insert"]
       ELSE End(r)
    /\ UNCHANGED <<catalogue, events, attempts, answers, fan, calls, switches, faults>>

SubscribeReadType(r) ==
    /\ req[r].op = "subscribe" /\ req[r].at = "type"
    /\ IF GetEventType(req[r].app, req[r].type)
       THEN req' = [req EXCEPT ![r].at = "insert"]
       ELSE End(r)
    /\ UNCHANGED <<catalogue, events, attempts, answers, fan, calls, switches, faults>>

\* Both rows must still be there (foreign keys); a subscription that exists is
\* a conflict and changes nothing (uq_subscriptions_endpoint_event).
SubscribeInsert(r) ==
    /\ req[r].op = "subscribe" /\ req[r].at = "insert"
    /\ LET e == req[r].endpoint
           t == req[r].type
       IN  subs' = IF Live(e) /\ type[t] = "live" THEN subs \cup {<<e, t>>} ELSE subs
    /\ End(r)
    /\ UNCHANGED <<endpoint, type, events, attempts, answers, fan, calls, switches, faults>>

Unsubscribe(r, app, e, t) ==
    /\ GetEndpoint(app, e)
    /\ Begin(r, [op |-> "unsubscribe", endpoint |-> e, type |-> t])
    /\ UNCHANGED <<catalogue, events, attempts, answers, fan, switches, faults>>

UnsubscribeDelete(r) ==
    /\ req[r].op = "unsubscribe"
    /\ subs' = subs \ {<<req[r].endpoint, req[r].type>>}
    /\ End(r)
    /\ UNCHANGED <<endpoint, type, events, attempts, answers, fan, calls, switches, faults>>

DeleteEndpoint(r, app, e) ==
    /\ GetEndpoint(app, e)
    /\ Begin(r, [op |-> "dropEndpoint", endpoint |-> e])
    /\ UNCHANGED <<catalogue, events, attempts, answers, fan, switches, faults>>

\* ON DELETE CASCADE takes the subscriptions and the attempts along.
DeleteEndpointWrite(r) ==
    /\ req[r].op = "dropEndpoint"
    /\ LET e == req[r].endpoint IN
         /\ endpoint' = [endpoint EXCEPT ![e] = "deleted"]
         /\ subs' = {s \in subs : s[1] # e}
         /\ attempts' = {a \in attempts : a.endpoint # e}
    /\ End(r)
    /\ UNCHANGED <<type, events, answers, fan, calls, switches, faults>>

DeleteEventType(r, app, t) ==
    /\ GetEventType(app, t)
    /\ Begin(r, [op |-> "dropType", type |-> t])
    /\ UNCHANGED <<catalogue, events, attempts, answers, fan, switches, faults>>

\* ON DELETE RESTRICT: a type that events refer to stays.
DeleteEventTypeWrite(r) ==
    /\ req[r].op = "dropType"
    /\ LET t == req[r].type
           used == \E i \in 1..Len(events) : events[i].type = t
       IN  IF used \/ type[t] # "live" THEN UNCHANGED <<type, subs>>
           ELSE /\ type' = [type EXCEPT ![t] = "deleted"]
                /\ subs' = {s \in subs : s[2] # t}
    /\ End(r)
    /\ UNCHANGED <<endpoint, events, attempts, answers, fan, calls, switches, faults>>

Catalogue ==
    \/ \E e \in Endpoints, s \in {"active", "inactive"} : SwitchEndpoint(e, s)
    \/ \E t \in Types : CreateEventType(t)
    \/ \E r \in Requests, app \in Apps :
         \/ \E e \in Endpoints, t \in Types :
              Subscribe(r, app, e, t) \/ Unsubscribe(r, app, e, t)
         \/ \E e \in Endpoints : DeleteEndpoint(r, app, e)
         \/ \E t \in Types : DeleteEventType(r, app, t)
    \/ \E r \in Requests :
         \/ SubscribeReadType(r) \/ SubscribeInsert(r)
         \/ UnsubscribeDelete(r) \/ DeleteEndpointWrite(r) \/ DeleteEventTypeWrite(r)

-----------------------------------------------------------------------------
(* SendEvent                                                               *)

GetByIdempotencyKey(app, key) ==
    {i \in 1..Len(events) : events[i].app = app /\ events[i].key = key}

\* At most one row, by uq_event_types_app_name.
GetByName(app, name) ==
    {t \in Types : type[t] = "live" /\ AppOf[t] = app /\ NameOf[t] = name}

\* The query joins subscriptions with event types by name alone; that the type
\* belongs to the application is left to Subscribe.
GetSubscribedEndpoints(app, name, recipient) ==
    {s \in subs : /\ AppOf[s[1]] = app
                  /\ endpoint[s[1]] = "active"
                  /\ RecipientOf[s[1]] \in {Everyone, recipient}
                  /\ NameOf[s[2]] = name}

SendEvent(r, app, name, recipient, key) ==
    /\ Begin(r, [op |-> "ingest", at |-> IF key = NoKey THEN "type" ELSE "key",
                 app |-> app, name |-> name, recipient |-> recipient, key |-> key,
                 type |-> {}, chosen |-> {}])
    /\ UNCHANGED <<catalogue, events, attempts, answers, fan, switches, faults>>

AtStep(r, step) == req[r].op = "ingest" /\ req[r].at = step

NoEvent == 0

Answer(r, code, i) ==
    /\ answers' = answers \cup {[app |-> req[r].app, key |-> req[r].key,
                                 code |-> code, event |-> i]}
    /\ End(r)

\* A key that is known answers with its event.  A look-up that fails is taken
\* for a key that is not known.
LookupKey(r) ==
    /\ AtStep(r, "key")
    /\ LET known == GetByIdempotencyKey(req[r].app, req[r].key) IN
         \/ \E i \in known : Answer(r, 202, i) /\ UNCHANGED faults
         \/ /\ known = {} \/ faults < MaxFaults
            /\ faults' = IF known = {} THEN faults ELSE faults + 1
            /\ req' = [req EXCEPT ![r].at = "type"]
            /\ UNCHANGED answers
    /\ UNCHANGED <<catalogue, events, attempts, fan, calls, switches>>

\* GetByName reports a missing type as ErrEventTypeNotFound; SendEvent compares
\* with ErrNotFound, which is another value, and answers 500.
LookupType(r) ==
    /\ AtStep(r, "type")
    /\ LET found == GetByName(req[r].app, req[r].name)
       IN  IF found = {} THEN Answer(r, 500, NoEvent)
           ELSE /\ req' = [req EXCEPT ![r].at = "fanout", ![r].type = found]
                /\ UNCHANGED answers
    /\ UNCHANGED <<catalogue, events, attempts, fan, calls, switches, faults>>

LookupEndpoints(r) ==
    /\ AtStep(r, "fanout")
    /\ req' = [req EXCEPT ![r].at = "create",
                          ![r].chosen = GetSubscribedEndpoints(req[r].app, req[r].name,
                                                               req[r].recipient)]
    /\ UNCHANGED <<catalogue, events, attempts, answers, fan, calls, switches, faults>>

\* uq_events_app_idempotency, which a key-less event cannot meet.
Duplicate(r) ==
    req[r].key # NoKey /\ GetByIdempotencyKey(req[r].app, req[r].key) # {}

\* Mutant: the type's foreign key is not there.
ReferencesStandNoType(r) == \A s \in req[r].chosen : Live(s[1])

\* The foreign keys of the event and of its attempts.
ReferencesStand(r) ==
    /\ \A t \in req[r].type : type[t] = "live"
    /\ \A s \in req[r].chosen : Live(s[1])

\* Mutant: the attempts do not get the id of the event just inserted.
InsertOldId(r) ==
    /\ events' = Append(events, [app |-> req[r].app, key |-> req[r].key,
                                 type |-> CHOOSE t \in req[r].type : TRUE])
    /\ attempts' = attempts \cup {[event |-> Len(events), endpoint |-> s[1], via |-> s[2]]
                                    : s \in req[r].chosen}
    /\ fan' = Append(fan, span[r])

Insert(r) ==
    /\ events' = Append(events, [app |-> req[r].app, key |-> req[r].key,
                                 type |-> CHOOSE t \in req[r].type : TRUE])
    /\ attempts' = attempts \cup {[event |-> Len(events) + 1, endpoint |-> s[1], via |-> s[2]]
                                    : s \in req[r].chosen}
    /\ fan' = Append(fan, span[r])

\* Mutant: no unique index on the key.
CreateWithAttemptsTwice(r) ==
    /\ AtStep(r, "create")
    /\ ReferencesStand(r)
    /\ Insert(r)
    /\ Answer(r, 202, Len(events) + 1)
    /\ UNCHANGED <<catalogue, calls, switches, faults>>

\* One transaction: the event and all its attempts, or nothing.  The unique
\* index is met before the foreign keys are checked.
CreateWithAttempts(r) ==
    /\ AtStep(r, "create")
    /\ \/ /\ Duplicate(r)
          /\ req' = [req EXCEPT ![r].at = "again"]
          /\ UNCHANGED <<events, attempts, fan, answers>>
       \/ /\ ~Duplicate(r)
          /\ ~ReferencesStand(r)
          /\ Answer(r, 500, NoEvent)
          /\ UNCHANGED <<events, attempts, fan>>
       \/ /\ ~Duplicate(r)
          /\ ReferencesStand(r)
          /\ Insert(r)
          /\ Answer(r, 202, Len(events) + 1)
    /\ UNCHANGED <<catalogue, calls, switches, faults>>

\* Another request with the same key was faster: answer with its event.
LookupAgain(r) ==
    /\ AtStep(r, "again")
    /\ \E i \in GetByIdempotencyKey(req[r].app, req[r].key) : Answer(r, 202, i)
    /\ UNCHANGED <<catalogue, events, attempts, fan, calls, switches, faults>>

\* Mutant: no transaction around the inserts, and those of the attempts fail.
StatementFailsMidway(r) ==
    /\ AtStep(r, "create") /\ faults < MaxFaults
    /\ faults' = faults + 1
    /\ ~Duplicate(r) /\ ReferencesStand(r)
    /\ events' = Append(events, [app |-> req[r].app, key |-> req[r].key,
                                 type |-> CHOOSE t \in req[r].type : TRUE])
    /\ fan' = Append(fan, span[r])
    /\ End(r)
    /\ UNCHANGED <<catalogue, attempts, answers, calls, switches>>

\* A statement fails and the client gets a 500; a commit whose reply is lost has
\* happened all the same.
StatementFails(r) ==
    /\ req[r].op = "ingest" /\ req[r].at # "key"
    /\ faults < MaxFaults
    /\ faults' = faults + 1
    /\ \/ UNCHANGED <<events, attempts, fan>>
       \/ AtStep(r, "create") /\ ~Duplicate(r) /\ ReferencesStand(r) /\ Insert(r)
    /\ End(r)
    /\ UNCHANGED <<catalogue, answers, calls, switches>>

Ingestion ==
    \E r \in Requests :
        \/ \E app \in Apps, name \in Names, recipient \in Recipients, key \in Keys \cup {NoKey} :
             SendEvent(r, app, name, recipient, key)
        \/ LookupKey(r) \/ LookupType(r) \/ LookupEndpoints(r)
        \/ CreateWithAttempts(r) \/ LookupAgain(r) \/ StatementFails(r)

-----------------------------------------------------------------------------
(* What an event is due to, in the words of the README: every active       *)
(* endpoint of the application that is subscribed to the event type and    *)
(* hears this recipient.                                                   *)

Due(q) ==
    IF q.op # "ingest" THEN {}
    ELSE {e \in Endpoints :
            /\ endpoint[e] = "active"
            /\ AppOf[e] = q.app
            /\ RecipientOf[e] \in {Everyone, q.recipient}
            /\ \E t \in Types : /\ type[t] = "live" /\ AppOf[t] = q.app
                                /\ NameOf[t] = q.name /\ <<e, t>> \in subs}

NoSpan == [always |-> {}, ever |-> {}]

\* always: due in every state since the request began; ever: due in some.
Observe ==
    span' = [r \in Requests |->
               LET now == Due(req[r])' IN
               IF req'[r].op # "ingest" THEN NoSpan
               ELSE IF req[r].op # "ingest" THEN [always |-> now, ever |-> now]
               ELSE [always |-> span[r].always \cap now, ever |-> span[r].ever \cup now]]

Init ==
    /\ endpoint = [e \in Endpoints |-> "active"]
    /\ type = [t \in Types |-> "absent"]
    /\ subs = {}
    /\ events = <<>>
    /\ attempts = {}
    /\ req = [r \in Requests |-> Idle]
    /\ answers = {}
    /\ span = [r \in Requests |-> NoSpan]
    /\ fan = <<>>
    /\ calls = 0 /\ switches = 0 /\ faults = 0

Next == (Catalogue \/ Ingestion) /\ Observe

Spec == Init /\ [][Next]_vars

-----------------------------------------------------------------------------
(* Properties                                                              *)

TypeOK ==
    /\ endpoint \in [Endpoints -> {"active", "inactive", "deleted"}]
    /\ type \in [Types -> {"absent", "live", "deleted"}]
    /\ subs \subseteq Endpoints \X Types
    /\ events \in Seq([app : Apps, key : Keys \cup {NoKey}, type : Types])
    /\ attempts \subseteq [event : 1..Len(events), endpoint : Endpoints, via : Types]
    /\ req \in [Requests -> {Idle} \cup Ingest \cup Change]
    /\ Len(fan) = Len(events)

\* Requests that carry one key of one application are all answered with one
\* event, and there is no other, whichever of them commits first and whichever
\* look-up fails (tests/integration/idempotency_test.go, "idempotent request
\* must return identical event ID").
SameKeySameEvent ==
    /\ \A i, j \in 1..Len(events) :
         events[i].key # NoKey /\ events[i].key = events[j].key
           /\ events[i].app = events[j].app => i = j
    /\ \A a, b \in answers :
         a.code = 202 /\ b.code = 202 /\ a.key # NoKey /\ a.key = b.key /\ a.app = b.app
           => a.event = b.event

\* An event has an attempt for every endpoint it was due to as long as its
\* request ran, unless that endpoint is deleted, and none for an endpoint it
\* was never due to: what was read before the transaction may be stale, but it
\* was true while the client waited (README, "HookOps looks up every endpoint
\* subscribed to that event type and inserts one delivery_attempt row per
\* endpoint in a single transaction").
FanOut ==
    \A i \in 1..Len(events) :
        LET served == {a.endpoint : a \in {b \in attempts : b.event = i}} IN
        /\ \A e \in fan[i].always : endpoint[e] # "deleted" => e \in served
        /\ served \subseteq fan[i].ever

\* No endpoint hears an event of another application, although the query that
\* chooses the endpoints does not look at the application of the type.
TenantIsolation ==
    /\ \A s \in subs : AppOf[s[1]] = AppOf[s[2]]
    /\ \A a \in attempts : AppOf[a.endpoint] = events[a.event].app

\* An attempt comes from a subscription to the very row its event refers to,
\* although the request reads the type and the subscriptions separately and the
\* name may be given to a new row in between; so no endpoint gets an event twice.
OfItsOwnType == \A a \in attempts : a.via = events[a.event].type
=============================================================================
