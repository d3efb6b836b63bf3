------------------------ MODULE EventIngestionProofs ------------------------
(***************************************************************************)
(* Proofs about EventIngestion.  What a request has read stays good enough *)
(* for its transaction: types are never brought back to life, so a type    *)
(* that is still live at the commit was live when the subscriptions were   *)
(* read, and the name was its own all that time.                           *)
(***************************************************************************)
EXTENDS EventIngestion, TLAPS

Span == [always : SUBSET Endpoints, ever : SUBSET Endpoints]

TypeInv ==
    /\ TypeOK
    /\ span \in [Requests -> Span]
    /\ fan \in Seq(Span)

\* uq_event_types_app_name, and the foreign keys of subscriptions.
CatalogueInv ==
    /\ \A t, u \in Types :
         type[t] = "live" /\ type[u] = "live" /\ AppOf[t] = AppOf[u] /\ NameOf[t] = NameOf[u]
           => t = u
    /\ \A s \in subs : type[s[2]] = "live" /\ AppOf[s[1]] = AppOf[s[2]]

\* A request to subscribe has read rows of its own application only.
OwnRead(q) ==
    q.op = "subscribe" =>
        /\ AppOf[q.endpoint] = q.app
        /\ q.at = "insert" => AppOf[q.type] = q.app

\* The type a request has found is one of its name, its own and not a future one.
TypeRead(q) ==
    q.op = "ingest" /\ q.at \in {"fanout", "create", "again"} =>
        /\ q.type # {}
        /\ \A t \in q.type : /\ type[t] # "absent"
                             /\ AppOf[t] = q.app /\ NameOf[t] = q.name

\* The endpoints it has chosen are its application's, subscribed to that type if
\* it is still there, and those its event has been due to.
ChosenRead(q, sp) ==
    q.op = "ingest" /\ q.at = "create" =>
        /\ \A s \in q.chosen : /\ AppOf[s[1]] = q.app
                               /\ s[1] \in sp.ever
                               /\ \A t \in q.type : type[t] = "live" => s[2] = t
        /\ \A e \in sp.always : \E s \in q.chosen : s[1] = e

\* The span is up to date.
SpanInv ==
    \A r \in Requests :
        req[r].op = "ingest" =>
            span[r].always \subseteq Due(req[r]) /\ Due(req[r]) \subseteq span[r].ever

ReadInv ==
    \A r \in Requests : OwnRead(req[r]) /\ TypeRead(req[r]) /\ ChosenRead(req[r], span[r])

UniqueKeys ==
    \A i, j \in 1..Len(events) :
        /\ events[i].key # NoKey /\ events[i].key = events[j].key
        /\ events[i].app = events[j].app
        => i = j

\* An answer 202 to a request with a key names an event with that key.
AnswerInv ==
    \A a \in answers :
        a.code = 202 /\ a.key # NoKey =>
            /\ a.event \in 1..Len(events)
            /\ events[a.event].key = a.key /\ events[a.event].app = a.app

AttemptInv ==
    \A a \in attempts :
        /\ AppOf[a.endpoint] = events[a.event].app
        /\ a.via = events[a.event].type

IInv ==
    /\ TypeInv
    /\ CatalogueInv
    /\ ReadInv
    /\ SpanInv
    /\ UniqueKeys
    /\ AnswerInv
    /\ AttemptInv
    /\ FanOut

-----------------------------------------------------------------------------
(* Types                                                                   *)

LEMMA IsIngest ==
    ASSUME NEW q \in {Idle} \cup Ingest \cup Change, q.op = "ingest"
    PROVE  q \in Ingest
  BY DEF Idle, Ingest, Change

LEMMA IsSubscribe ==
    ASSUME NEW q \in {Idle} \cup Ingest \cup Change, q.op = "subscribe"
    PROVE  /\ q \in [op : {"subscribe"}, at : {"type", "insert"}, app : Apps,
                     endpoint : Endpoints, type : Types]
  BY DEF Idle, Ingest, Change

LEMMA DueType ==
    ASSUME NEW q
    PROVE  Due(q) \subseteq Endpoints
  BY DEF Due

LEMMA DueTypeNext ==
    ASSUME NEW r
    PROVE  Due(req[r])' \subseteq Endpoints
  BY DEF Due

LEMMA SpanType ==
    ASSUME span \in [Requests -> Span], Observe
    PROVE  span' \in [Requests -> Span]
<1>1. NoSpan \in Span  BY DEF NoSpan, Span
<1>2. SUFFICES ASSUME NEW r \in Requests
               PROVE  span'[r] \in Span
  BY DEF Observe
<1>3. Due(req[r])' \subseteq Endpoints  BY DueTypeNext
<1>4. [always |-> Due(req[r])', ever |-> Due(req[r])'] \in Span  BY <1>3 DEF Span
<1>5. [always |-> span[r].always \cap Due(req[r])', ever |-> span[r].ever \cup Due(req[r])']
         \in Span
  BY <1>3 DEF Span
<1> QED  BY <1>1, <1>4, <1>5 DEF Observe
\* An event is inserted with its attempts, and its span is kept.
LEMMA InsertType ==
    ASSUME TypeInv, NEW r \in Requests, TypeRead(req[r]), AtStep(r, "create"), Insert(r)
    PROVE  /\ events' \in Seq([app : Apps, key : Keys \cup {NoKey}, type : Types])
           /\ attempts' \subseteq [event : 1..Len(events'), endpoint : Endpoints, via : Types]
           /\ fan' \in Seq(Span)
           /\ Len(fan') = Len(events')
           /\ Len(events') = Len(events) + 1
<1>1. req[r] \in Ingest  BY IsIngest DEF TypeInv, TypeOK, AtStep
<1> DEFINE t == CHOOSE u \in req[r].type : TRUE
           row == [app |-> req[r].app, key |-> req[r].key, type |-> t]
<1>2. t \in Types  BY <1>1 DEF TypeRead, AtStep, Ingest
<1>3. row \in [app : Apps, key : Keys \cup {NoKey}, type : Types]
  BY <1>1, <1>2 DEF Ingest
<1>4. events' = Append(events, row)  BY DEF Insert
<1> HIDE DEF row, t
<1>5. events' \in Seq([app : Apps, key : Keys \cup {NoKey}, type : Types])
      /\ Len(events') = Len(events) + 1
  BY <1>3, <1>4 DEF TypeInv, TypeOK
<1>6. fan' \in Seq(Span) /\ Len(fan') = Len(fan) + 1
  BY DEF Insert, TypeInv
<1>7. attempts' \subseteq [event : 1..Len(events'), endpoint : Endpoints, via : Types]
  <2>1. Len(events) \in Nat  BY DEF TypeInv, TypeOK
  <2>2. \A s \in req[r].chosen : s[1] \in Endpoints /\ s[2] \in Types  BY <1>1 DEF Ingest
  <2>3. attempts' = attempts \cup {[event |-> Len(events) + 1, endpoint |-> s[1],
                                    via |-> s[2]] : s \in req[r].chosen}
    BY DEF Insert
  <2>4. attempts \subseteq [event : 1..Len(events'), endpoint : Endpoints, via : Types]
    BY <1>5, <2>1 DEF TypeInv, TypeOK
  <2>5. Len(events) + 1 \in 1..Len(events')  BY <1>5, <2>1
  <2> QED  BY <2>2, <2>3, <2>4, <2>5
<1> QED  BY <1>5, <1>6, <1>7 DEF TypeInv, TypeOK

\* What a request becomes has the type of a request.
LEMMA BeginType ==
    ASSUME TypeInv, NEW r \in Requests, NEW q \in Ingest \cup Change, Begin(r, q)
    PROVE  req' \in [Requests -> {Idle} \cup Ingest \cup Change]
  BY DEF Begin, TypeInv, TypeOK

LEMMA EndType ==
    ASSUME TypeInv, NEW r \in Requests, End(r)
    PROVE  req' \in [Requests -> {Idle} \cup Ingest \cup Change]
  BY DEF End, TypeInv, TypeOK

LEMMA CatalogueType ==
    ASSUME IInv, Catalogue, Observe
    PROVE  TypeInv'
<1> USE DEF IInv, TypeInv
<1>1. span' \in [Requests -> Span]  BY SpanType
<1>2. ASSUME NEW e \in Endpoints, NEW s \in {"active", "inactive"}, SwitchEndpoint(e, s)
      PROVE  TypeOK' /\ fan' \in Seq(Span)
  BY <1>2 DEF SwitchEndpoint, TypeOK
<1>3. ASSUME NEW t \in Types, CreateEventType(t)
      PROVE  TypeOK' /\ fan' \in Seq(Span)
  BY <1>3 DEF CreateEventType, TypeOK
<1>4. ASSUME NEW r \in Requests, NEW app \in Apps, NEW e \in Endpoints, NEW t \in Types,
             Subscribe(r, app, e, t)
      PROVE  TypeOK' /\ fan' \in Seq(Span)
  <2>1. [op |-> "subscribe", at |-> "type", app |-> app, endpoint |-> e, type |-> t] \in Change
    BY DEF Change
  <2>2. req' \in [Requests -> {Idle} \cup Ingest \cup Change]
    BY <1>4, <2>1, BeginType DEF Subscribe
  <2> QED  BY <1>4, <2>2 DEF Subscribe, catalogue, TypeOK
<1>5. ASSUME NEW r \in Requests, NEW app \in Apps, NEW e \in Endpoints, NEW t \in Types,
             Unsubscribe(r, app, e, t)
      PROVE  TypeOK' /\ fan' \in Seq(Span)
  <2>1. [op |-> "unsubscribe", endpoint |-> e, type |-> t] \in Change  BY DEF Change
  <2>2. req' \in [Requests -> {Idle} \cup Ingest \cup Change]
    BY <1>5, <2>1, BeginType DEF Unsubscribe
  <2> QED  BY <1>5, <2>2 DEF Unsubscribe, catalogue, TypeOK
<1>6. ASSUME NEW r \in Requests, NEW app \in Apps, NEW e \in Endpoints, DeleteEndpoint(r, app, e)
      PROVE  TypeOK' /\ fan' \in Seq(Span)
  <2>1. [op |-> "dropEndpoint", endpoint |-> e] \in Change  BY DEF Change
  <2>2. req' \in [Requests -> {Idle} \cup Ingest \cup Change]
    BY <1>6, <2>1, BeginType DEF DeleteEndpoint
  <2> QED  BY <1>6, <2>2 DEF DeleteEndpoint, catalogue, TypeOK
<1>7. ASSUME NEW r \in Requests, NEW app \in Apps, NEW t \in Types, DeleteEventType(r, app, t)
      PROVE  TypeOK' /\ fan' \in Seq(Span)
  <2>1. [op |-> "dropType", type |-> t] \in Change  BY DEF Change
  <2>2. req' \in [Requests -> {Idle} \cup Ingest \cup Change]
    BY <1>7, <2>1, BeginType DEF DeleteEventType
  <2> QED  BY <1>7, <2>2 DEF DeleteEventType, catalogue, TypeOK
<1>8. ASSUME NEW r \in Requests, SubscribeReadType(r)
      PROVE  TypeOK' /\ fan' \in Seq(Span)
  <2>1. req[r] \in [op : {"subscribe"}, at : {"type", "insert"}, app : Apps,
                    endpoint : Endpoints, type : Types]
    BY <1>8, IsSubscribe DEF SubscribeReadType, TypeOK
  <2>2. [req[r] EXCEPT !.at = "insert"] \in Change  BY <2>1 DEF Change
  <2>3. CASE End(r)
    BY <1>8, <2>3, EndType DEF SubscribeReadType, catalogue, TypeOK
  <2>4. CASE req' = [req EXCEPT ![r].at = "insert"]
    <3>1. req' \in [Requests -> {Idle} \cup Ingest \cup Change]  BY <2>2, <2>4 DEF TypeOK
    <3> QED  BY <1>8, <3>1 DEF SubscribeReadType, catalogue, TypeOK
  <2> QED  BY <1>8, <2>3, <2>4 DEF SubscribeReadType
<1>9. ASSUME NEW r \in Requests, SubscribeInsert(r)
      PROVE  TypeOK' /\ fan' \in Seq(Span)
  <2>1. req[r] \in [op : {"subscribe"}, at : {"type", "insert"}, app : Apps,
                    endpoint : Endpoints, type : Types]
    BY <1>9, IsSubscribe DEF SubscribeInsert, TypeOK
  <2>2. subs' \subseteq Endpoints \X Types  BY <1>9, <2>1 DEF SubscribeInsert, TypeOK
  <2>3. req' \in [Requests -> {Idle} \cup Ingest \cup Change]
    BY <1>9, EndType DEF SubscribeInsert
  <2> QED  BY <1>9, <2>2, <2>3 DEF SubscribeInsert, TypeOK
<1>10. ASSUME NEW r \in Requests, UnsubscribeDelete(r)
       PROVE  TypeOK' /\ fan' \in Seq(Span)
  <2>1. req' \in [Requests -> {Idle} \cup Ingest \cup Change]
    BY <1>10, EndType DEF UnsubscribeDelete
  <2> QED  BY <1>10, <2>1 DEF UnsubscribeDelete, TypeOK
<1>11. ASSUME NEW r \in Requests, DeleteEndpointWrite(r)
       PROVE  TypeOK' /\ fan' \in Seq(Span)
  <2>1. req' \in [Requests -> {Idle} \cup Ingest \cup Change]
    BY <1>11, EndType DEF DeleteEndpointWrite
  <2> QED  BY <1>11, <2>1 DEF DeleteEndpointWrite, TypeOK
<1>12. ASSUME NEW r \in Requests, DeleteEventTypeWrite(r)
       PROVE  TypeOK' /\ fan' \in Seq(Span)
  <2>1. req' \in [Requests -> {Idle} \cup Ingest \cup Change]
    BY <1>12, EndType DEF DeleteEventTypeWrite
  <2> QED  BY <1>12, <2>1 DEF DeleteEventTypeWrite, TypeOK
<1> QED
  BY <1>1, <1>2, <1>3, <1>4, <1>5, <1>6, <1>7, <1>8, <1>9, <1>10, <1>11, <1>12 DEF Catalogue
LEMMA IngestionType ==
    ASSUME IInv, Ingestion, Observe
    PROVE  TypeInv'
<1> USE DEF IInv, TypeInv
<1>1. span' \in [Requests -> Span]  BY SpanType
<1> SUFFICES TypeOK' /\ fan' \in Seq(Span)  BY <1>1
<1> PICK r \in Requests :
        \/ \E app \in Apps, name \in Names, recipient \in Recipients, key \in Keys \cup {NoKey} :
             SendEvent(r, app, name, recipient, key)
        \/ LookupKey(r) \/ LookupType(r) \/ LookupEndpoints(r)
        \/ CreateWithAttempts(r) \/ LookupAgain(r) \/ StatementFails(r)
  BY DEF Ingestion
\* A handler that moves on, or is done, without writing to the tables.
<1> DEFINE Requested == req' \in [Requests -> {Idle} \cup Ingest \cup Change]
<1>2. ASSUME Requested, UNCHANGED <<catalogue, events, attempts, fan>>
      PROVE  TypeOK' /\ fan' \in Seq(Span)
  BY <1>2 DEF catalogue, TypeOK
<1>3. ASSUME End(r)  PROVE Requested  BY <1>3, EndType
<1>4. ASSUME NEW app \in Apps, NEW name \in Names, NEW recipient \in Recipients,
             NEW key \in Keys \cup {NoKey}, SendEvent(r, app, name, recipient, key)
      PROVE  Requested
  <2> DEFINE q == [op |-> "ingest", at |-> IF key = NoKey THEN "type" ELSE "key",
                   app |-> app, name |-> name, recipient |-> recipient, key |-> key,
                   type |-> {}, chosen |-> {}]
  <2>1. q \in Ingest  BY DEF Ingest
  <2>2. Begin(r, q)  BY <1>4 DEF SendEvent
  <2> QED  BY <2>1, <2>2, BeginType
<1>5. ASSUME NEW step \in {"type", "create", "again"}, req[r].op = "ingest",
             req' = [req EXCEPT ![r].at = step]
      PROVE  Requested
  <2>1. req[r] \in Ingest  BY <1>5, IsIngest DEF TypeOK
  <2>2. [req[r] EXCEPT !.at = step] \in Ingest  BY <2>1 DEF Ingest
  <2> QED  BY <1>5, <2>2 DEF TypeOK
<1>6. ASSUME LookupType(r)  PROVE Requested
  <2> DEFINE found == GetByName(req[r].app, req[r].name)
  <2>1. CASE found = {}  BY <1>3, <1>6, <2>1 DEF LookupType, Answer
  <2>2. CASE found # {}
    <3>1. req[r] \in Ingest  BY <1>6, IsIngest DEF LookupType, AtStep, TypeOK
    <3>2. found \subseteq Types  BY DEF GetByName
    <3>3. [req[r] EXCEPT !.at = "fanout", !.type = found] \in Ingest  BY <3>1, <3>2 DEF Ingest
    <3>4. req' = [req EXCEPT ![r].at = "fanout", ![r].type = found]
      BY <1>6, <2>2 DEF LookupType
    <3> HIDE DEF found
    <3>5. req' = [req EXCEPT ![r] = [req[r] EXCEPT !.at = "fanout", !.type = found]]
      BY <3>4 DEF TypeOK
    <3> QED  BY <3>3, <3>5 DEF TypeOK
  <2> QED  BY <2>1, <2>2
<1>7. ASSUME LookupEndpoints(r)  PROVE Requested
  <2> DEFINE found == GetSubscribedEndpoints(req[r].app, req[r].name, req[r].recipient)
  <2>1. req[r] \in Ingest  BY <1>7, IsIngest DEF LookupEndpoints, AtStep, TypeOK
  <2>2. found \subseteq Endpoints \X Types  BY DEF GetSubscribedEndpoints, TypeOK
  <2>3. [req[r] EXCEPT !.at = "create", !.chosen = found] \in Ingest  BY <2>1, <2>2 DEF Ingest
  <2>4. req' = [req EXCEPT ![r].at = "create", ![r].chosen = found]
    BY <1>7 DEF LookupEndpoints
  <2> HIDE DEF found
  <2>5. req' = [req EXCEPT ![r] = [req[r] EXCEPT !.at = "create", !.chosen = found]]
    BY <2>4 DEF TypeOK
  <2> QED  BY <2>3, <2>5 DEF TypeOK
<1>8. ASSUME AtStep(r, "create"), Insert(r), Requested, UNCHANGED catalogue
      PROVE  TypeOK' /\ fan' \in Seq(Span)
  <2>1. TypeRead(req[r])  BY DEF ReadInv
  <2> QED  BY <1>8, <2>1, InsertType DEF TypeOK, catalogue
<1> HIDE DEF Requested
<1>9. CASE \E app \in Apps, name \in Names, recipient \in Recipients, key \in Keys \cup {NoKey} :
             SendEvent(r, app, name, recipient, key)
  BY <1>2, <1>4, <1>9 DEF SendEvent
<1>10. CASE LookupKey(r)
  BY <1>2, <1>3, <1>5, <1>10 DEF LookupKey, AtStep, Answer
<1>11. CASE LookupType(r)  BY <1>2, <1>6, <1>11 DEF LookupType, Answer
<1>12. CASE LookupEndpoints(r)  BY <1>2, <1>7, <1>12 DEF LookupEndpoints
<1>13. CASE CreateWithAttempts(r)
  BY <1>2, <1>3, <1>5, <1>8, <1>13 DEF CreateWithAttempts, AtStep, Answer
<1>14. CASE LookupAgain(r)  BY <1>2, <1>3, <1>14 DEF LookupAgain, Answer
<1>15. CASE StatementFails(r)  BY <1>2, <1>3, <1>8, <1>15 DEF StatementFails
<1> QED  BY <1>9, <1>10, <1>11, <1>12, <1>13, <1>14, <1>15

-----------------------------------------------------------------------------
(* The catalogue                                                           *)

\* No row comes back: what was there once is never absent again, and what is
\* live now was live before, or absent.
Lasting ==
    /\ \A t \in Types : type[t] # "absent" =>
         type'[t] # "absent" /\ (type'[t] = "live" => type[t] = "live")
    /\ \A e \in Endpoints : endpoint[e] = "deleted" => endpoint'[e] = "deleted"

LEMMA CatalogueLasts ==
    ASSUME TypeInv, Catalogue
    PROVE  Lasting
<1> USE DEF TypeInv, TypeOK, Lasting
<1>1. ASSUME NEW e \in Endpoints, NEW s \in {"active", "inactive"}, SwitchEndpoint(e, s)
      PROVE  Lasting
  BY <1>1 DEF SwitchEndpoint, Live
<1>2. ASSUME NEW t \in Types, CreateEventType(t)  PROVE Lasting
  BY <1>2 DEF CreateEventType
<1>3. ASSUME UNCHANGED <<endpoint, type>>  PROVE Lasting  BY <1>3
<1>4. ASSUME NEW r \in Requests, DeleteEndpointWrite(r)  PROVE Lasting
  BY <1>4 DEF DeleteEndpointWrite
<1>5. ASSUME NEW r \in Requests, DeleteEventTypeWrite(r)  PROVE Lasting
  BY <1>5 DEF DeleteEventTypeWrite
<1> HIDE DEF Lasting
<1> QED
  BY <1>1, <1>2, <1>3, <1>4, <1>5
     DEF Catalogue, catalogue, Subscribe, Unsubscribe, DeleteEndpoint, DeleteEventType,
         SubscribeReadType, SubscribeInsert, UnsubscribeDelete

LEMMA IngestionLasts ==
    ASSUME TypeInv, Ingestion
    PROVE  Lasting /\ UNCHANGED catalogue
<1>1. UNCHANGED catalogue
  BY DEF Ingestion, SendEvent, LookupKey, LookupType, LookupEndpoints, CreateWithAttempts,
         LookupAgain, StatementFails
<1> QED  BY <1>1 DEF Lasting, catalogue

\* The unique name of a type and the foreign keys of a subscription hold on.
LEMMA CatalogueKept ==
    ASSUME IInv, TypeInv', Catalogue
    PROVE  CatalogueInv'
<1> USE DEF IInv, TypeInv, TypeOK
<1>1. ASSUME UNCHANGED <<type, subs>>  PROVE CatalogueInv'  BY <1>1 DEF CatalogueInv
<1>2. ASSUME NEW t \in Types, CreateEventType(t)  PROVE CatalogueInv'
  BY <1>2 DEF CreateEventType, NameFree, CatalogueInv
<1>3. ASSUME NEW r \in Requests, SubscribeInsert(r)  PROVE CatalogueInv'
  <2>1. OwnRead(req[r])  BY DEF ReadInv
  <2>2. req[r].endpoint \in Endpoints /\ req[r].type \in Types
    BY <1>3, IsSubscribe DEF SubscribeInsert
  <2> QED  BY <1>3, <2>1, <2>2 DEF SubscribeInsert, OwnRead, CatalogueInv
<1>4. ASSUME NEW r \in Requests, UnsubscribeDelete(r)  PROVE CatalogueInv'
  BY <1>4 DEF UnsubscribeDelete, CatalogueInv
<1>5. ASSUME NEW r \in Requests, DeleteEndpointWrite(r)  PROVE CatalogueInv'
  BY <1>5 DEF DeleteEndpointWrite, CatalogueInv
<1>6. ASSUME NEW r \in Requests, DeleteEventTypeWrite(r)  PROVE CatalogueInv'
  BY <1>6 DEF DeleteEventTypeWrite, CatalogueInv
<1> QED
  BY <1>1, <1>2, <1>3, <1>4, <1>5, <1>6
     DEF Catalogue, catalogue, SwitchEndpoint, Subscribe, Unsubscribe, DeleteEndpoint,
         DeleteEventType, SubscribeReadType
-----------------------------------------------------------------------------
(* What the requests have read                                             *)

LEMMA SpanKept ==
    ASSUME Observe, SpanInv, req' \in [Requests -> {Idle} \cup Ingest \cup Change]
    PROVE  SpanInv'
<1> SUFFICES ASSUME NEW r \in Requests, req'[r].op = "ingest"
             PROVE  /\ span'[r].always \subseteq Due(req[r])'
                    /\ Due(req[r])' \subseteq span'[r].ever
  BY DEF SpanInv
<1> QED  BY DEF Observe

\* While a request runs, its span only narrows from within and widens from without.
LEMMA SpanNarrows ==
    ASSUME Observe, NEW r \in Requests, req[r].op = "ingest", req'[r].op = "ingest"
    PROVE  span'[r].always \subseteq span[r].always /\ span[r].ever \subseteq span'[r].ever
  BY DEF Observe

\* A request that takes no step keeps what it has read good.
LEMMA ReadFrame ==
    ASSUME IInv, Lasting, Observe, NEW r \in Requests, req'[r] = req[r]
    PROVE  OwnRead(req[r])' /\ TypeRead(req[r])' /\ ChosenRead(req[r], span[r])'
<1> USE DEF IInv, TypeInv, TypeOK
<1>1. OwnRead(req[r]) /\ TypeRead(req[r]) /\ ChosenRead(req[r], span[r])  BY DEF ReadInv
<1>2. OwnRead(req[r])'  BY <1>1 DEF OwnRead
<1>3. ASSUME req[r].op = "ingest"  PROVE req[r].type \subseteq Types
  BY <1>3, IsIngest DEF Ingest
<1>4. TypeRead(req[r])'  BY <1>1, <1>3 DEF TypeRead, Lasting
<1>5. ASSUME req[r].op = "ingest", req[r].at = "create"
      PROVE  \A t \in req[r].type : type'[t] = "live" => type[t] = "live"
  BY <1>1, <1>3, <1>5 DEF TypeRead, Lasting
<1> HIDE DEF IInv, TypeInv, TypeOK
<1>6. ASSUME req[r].op = "ingest", req[r].at = "create"
      PROVE  ChosenRead(req[r], span[r])'
  <2>1. span'[r].always \subseteq span[r].always /\ span[r].ever \subseteq span'[r].ever
    BY <1>6, SpanNarrows
  <2>2. \A s \in req[r].chosen :
           /\ AppOf[s[1]] = req[r].app
           /\ s[1] \in span'[r].ever
           /\ \A t \in req[r].type : type'[t] = "live" => s[2] = t
    BY <1>1, <1>5, <1>6, <2>1 DEF ChosenRead
  <2>3. \A e \in span'[r].always : \E s \in req[r].chosen : s[1] = e
    BY <1>1, <1>6, <2>1 DEF ChosenRead
  <2> QED  BY <2>2, <2>3 DEF ChosenRead
<1>7. ~(req[r].op = "ingest" /\ req[r].at = "create") => ChosenRead(req[r], span[r])'
  BY DEF ChosenRead
<1> QED  BY <1>2, <1>4, <1>6, <1>7

LEMMA ReadOne ==
    ASSUME IInv, Lasting, Observe, NEW r \in Requests,
           \A p \in Requests \ {r} : req'[p] = req[p],
           OwnRead(req[r])', TypeRead(req[r])', ChosenRead(req[r], span[r])'
    PROVE  ReadInv'
<1> SUFFICES ASSUME NEW p \in Requests
             PROVE  OwnRead(req[p])' /\ TypeRead(req[p])' /\ ChosenRead(req[p], span[p])'
  BY DEF ReadInv
<1>1. CASE p = r  BY <1>1
<1>2. CASE p # r  BY <1>2, ReadFrame
<1> QED  BY <1>1, <1>2

\* A handler that is done, or has only begun, has read nothing that may be wrong.
LEMMA ReadDone ==
    ASSUME IInv, Lasting, Observe, NEW r \in Requests, End(r)
    PROVE  ReadInv'
<1>1. req'[r] = Idle /\ \A p \in Requests \ {r} : req'[p] = req[p]
  BY DEF End, IInv, TypeInv, TypeOK
<1>2. OwnRead(req[r])' /\ TypeRead(req[r])' /\ ChosenRead(req[r], span[r])'
  BY <1>1 DEF Idle, OwnRead, TypeRead, ChosenRead
<1> QED  BY <1>1, <1>2, ReadOne

LEMMA ReadCatalogue ==
    ASSUME IInv, TypeInv', Catalogue, Observe
    PROVE  ReadInv'
<1> USE DEF IInv, TypeInv, TypeOK
<1>0. Lasting  BY CatalogueLasts
<1>1. ASSUME UNCHANGED req  PROVE ReadInv'  BY <1>0, <1>1, ReadFrame DEF ReadInv
<1>2. ASSUME NEW r \in Requests, End(r)  PROVE ReadInv'  BY <1>0, <1>2, ReadDone
<1>3. ASSUME NEW r \in Requests, NEW q, Begin(r, q), OwnRead(q), q.op # "ingest"
      PROVE  ReadInv'
  <2>1. req'[r] = q /\ \A p \in Requests \ {r} : req'[p] = req[p]  BY <1>3 DEF Begin
  <2>2. OwnRead(req[r])' /\ TypeRead(req[r])' /\ ChosenRead(req[r], span[r])'
    BY <1>3, <2>1 DEF OwnRead, TypeRead, ChosenRead
  <2> QED  BY <1>0, <2>1, <2>2, ReadOne
<1>4. ASSUME NEW r \in Requests, NEW app \in Apps, NEW e \in Endpoints, NEW t \in Types,
             Subscribe(r, app, e, t)
      PROVE  ReadInv'
  <2> DEFINE q == [op |-> "subscribe", at |-> "type", app |-> app, endpoint |-> e, type |-> t]
  <2>1. OwnRead(q)  BY <1>4 DEF Subscribe, GetEndpoint, OwnRead
  <2>2. Begin(r, q)  BY <1>4 DEF Subscribe
  <2>3. q.op # "ingest"  OBVIOUS
  <2> HIDE DEF q
  <2> QED  BY <1>3, <2>1, <2>2, <2>3
<1>5. ASSUME NEW r \in Requests, NEW app \in Apps, NEW e \in Endpoints, NEW t \in Types,
             Unsubscribe(r, app, e, t)
      PROVE  ReadInv'
  <2> DEFINE q == [op |-> "unsubscribe", endpoint |-> e, type |-> t]
  <2>1. Begin(r, q) /\ OwnRead(q) /\ q.op # "ingest"  BY <1>5 DEF Unsubscribe, OwnRead
  <2> HIDE DEF q
  <2> QED  BY <1>3, <2>1
<1>6. ASSUME NEW r \in Requests, NEW app \in Apps, NEW e \in Endpoints, DeleteEndpoint(r, app, e)
      PROVE  ReadInv'
  <2> DEFINE q == [op |-> "dropEndpoint", endpoint |-> e]
  <2>1. Begin(r, q) /\ OwnRead(q) /\ q.op # "ingest"  BY <1>6 DEF DeleteEndpoint, OwnRead
  <2> HIDE DEF q
  <2> QED  BY <1>3, <2>1
<1>7. ASSUME NEW r \in Requests, NEW app \in Apps, NEW t \in Types, DeleteEventType(r, app, t)
      PROVE  ReadInv'
  <2> DEFINE q == [op |-> "dropType", type |-> t]
  <2>1. Begin(r, q) /\ OwnRead(q) /\ q.op # "ingest"  BY <1>7 DEF DeleteEventType, OwnRead
  <2> HIDE DEF q
  <2> QED  BY <1>3, <2>1
<1>8. ASSUME NEW r \in Requests, SubscribeReadType(r)  PROVE ReadInv'
  <2>1. CASE End(r)  BY <1>2, <2>1
  <2>2. CASE GetEventType(req[r].app, req[r].type) /\ req' = [req EXCEPT ![r].at = "insert"]
    <3>1. OwnRead(req[r])  BY DEF ReadInv
    <3>2. req[r] \in [op : {"subscribe"}, at : {"type", "insert"}, app : Apps,
                      endpoint : Endpoints, type : Types]
      BY <1>8, IsSubscribe DEF SubscribeReadType
    <3>3. /\ req'[r].op = "subscribe" /\ req'[r].app = req[r].app
          /\ req'[r].endpoint = req[r].endpoint /\ req'[r].type = req[r].type
      BY <2>2, <3>2
    <3>4. OwnRead(req[r])' /\ TypeRead(req[r])' /\ ChosenRead(req[r], span[r])'
      BY <1>8, <2>2, <3>1, <3>3
         DEF SubscribeReadType, GetEventType, OwnRead, TypeRead, ChosenRead
    <3>5. \A p \in Requests \ {r} : req'[p] = req[p]  BY <2>2
    <3> QED  BY <1>0, <3>4, <3>5, ReadOne
  <2> QED  BY <1>8, <2>1, <2>2 DEF SubscribeReadType
<1> QED
  BY <1>1, <1>2, <1>4, <1>5, <1>6, <1>7, <1>8
     DEF Catalogue, SwitchEndpoint, CreateEventType, SubscribeInsert, UnsubscribeDelete,
         DeleteEndpointWrite, DeleteEventTypeWrite

\* What each look-up of SendEvent reads.
LEMMA ReadIngestion ==
    ASSUME IInv, TypeInv', Ingestion, Observe
    PROVE  ReadInv'
<1>0. Lasting /\ UNCHANGED catalogue  BY IngestionLasts DEF IInv
<1> PICK r \in Requests :
        \/ \E app \in Apps, name \in Names, recipient \in Recipients, key \in Keys \cup {NoKey} :
             SendEvent(r, app, name, recipient, key)
        \/ LookupKey(r) \/ LookupType(r) \/ LookupEndpoints(r)
        \/ CreateWithAttempts(r) \/ LookupAgain(r) \/ StatementFails(r)
  BY DEF Ingestion
<1>1. req \in [Requests -> {Idle} \cup Ingest \cup Change]  BY DEF IInv, TypeInv, TypeOK
<1>2. ASSUME End(r)  PROVE ReadInv'  BY <1>0, <1>2, ReadDone
<1>3. ASSUME NEW app \in Apps, NEW name \in Names, NEW recipient \in Recipients,
             NEW key \in Keys \cup {NoKey}, SendEvent(r, app, name, recipient, key)
      PROVE  ReadInv'
  <2>1. /\ req'[r].op = "ingest" /\ req'[r].at \in {"type", "key"}
        /\ \A p \in Requests \ {r} : req'[p] = req[p]
    BY <1>1, <1>3 DEF SendEvent, Begin
  <2>2. OwnRead(req[r])' /\ TypeRead(req[r])' /\ ChosenRead(req[r], span[r])'
    BY <2>1 DEF OwnRead, TypeRead, ChosenRead
  <2> QED  BY <1>0, <2>1, <2>2, ReadOne
<1>4. ASSUME req' = [req EXCEPT ![r].at = "type"], req[r].op = "ingest"
      PROVE  ReadInv'
  <2>1. /\ req'[r].op = "ingest" /\ req'[r].at = "type"
        /\ \A p \in Requests \ {r} : req'[p] = req[p]
    BY <1>1, <1>4, IsIngest DEF Ingest
  <2>2. OwnRead(req[r])' /\ TypeRead(req[r])' /\ ChosenRead(req[r], span[r])'
    BY <2>1 DEF OwnRead, TypeRead, ChosenRead
  <2> QED  BY <1>0, <2>1, <2>2, ReadOne
<1>5. ASSUME LookupType(r), ~End(r)  PROVE ReadInv'
  <2> DEFINE found == GetByName(req[r].app, req[r].name)
  <2>1. req[r] \in Ingest  BY <1>1, <1>5, IsIngest DEF LookupType, AtStep
  <2>2. found # {} /\ req' = [req EXCEPT ![r].at = "fanout", ![r].type = found]
    BY <1>5 DEF LookupType, Answer
  <2>3. \A t \in found : /\ type'[t] # "absent"
                         /\ AppOf[t] = req[r].app /\ NameOf[t] = req[r].name
    BY <1>0 DEF GetByName, catalogue
  <2> HIDE DEF found
  <2>4. req'[r] = [req[r] EXCEPT !.at = "fanout", !.type = found]
        /\ \A p \in Requests \ {r} : req'[p] = req[p]
    BY <1>1, <2>2
  <2>5. /\ req'[r].op = "ingest" /\ req'[r].at = "fanout" /\ req'[r].type = found
        /\ req'[r].app = req[r].app /\ req'[r].name = req[r].name
    BY <2>1, <2>4 DEF Ingest
  <2>6. OwnRead(req[r])' /\ TypeRead(req[r])' /\ ChosenRead(req[r], span[r])'
    BY <2>2, <2>3, <2>5 DEF OwnRead, TypeRead, ChosenRead
  <2> QED  BY <1>0, <2>4, <2>6, ReadOne
<1>6. ASSUME LookupEndpoints(r)  PROVE ReadInv'
  <2> DEFINE found == GetSubscribedEndpoints(req[r].app, req[r].name, req[r].recipient)
  <2>1. req[r] \in Ingest /\ req[r].at = "fanout" /\ req[r].op = "ingest"
    BY <1>1, <1>6, IsIngest DEF LookupEndpoints, AtStep
  <2>2. TypeRead(req[r])  BY DEF IInv, ReadInv
  <2>3. subs \subseteq Endpoints \X Types /\ req[r].type \subseteq Types
    BY <2>1 DEF IInv, TypeInv, TypeOK, Ingest
  <2>4. \A s \in found : /\ s[1] \in Endpoints /\ s[2] \in Types
                         /\ type[s[2]] = "live" /\ AppOf[s[2]] = AppOf[s[1]]
                         /\ AppOf[s[1]] = req[r].app /\ NameOf[s[2]] = req[r].name
    BY <2>3 DEF GetSubscribedEndpoints, IInv, CatalogueInv
  <2>5. \A s \in found : \A t \in req[r].type : type[t] = "live" => s[2] = t
    BY <2>1, <2>2, <2>3, <2>4 DEF IInv, CatalogueInv, TypeRead
  <2>6. \A s \in found : s[1] \in Due(req[r])
    BY <2>1, <2>3, <2>4 DEF GetSubscribedEndpoints, Due
  <2>7. ASSUME NEW e \in Due(req[r])  PROVE \E s \in found : s[1] = e
    <3>1. PICK t \in Types : /\ endpoint[e] = "active" /\ AppOf[e] = req[r].app
                             /\ RecipientOf[e] \in {Everyone, req[r].recipient}
                             /\ NameOf[t] = req[r].name /\ <<e, t>> \in subs
      BY <2>1, <2>7 DEF Due
    <3>2. <<e, t>> \in found  BY <3>1 DEF GetSubscribedEndpoints
    <3> QED  BY <3>2
  <2>8. span[r].always \subseteq Due(req[r]) /\ Due(req[r]) \subseteq span[r].ever
    BY <2>1 DEF IInv, SpanInv
  <2>9. req' = [req EXCEPT ![r].at = "create", ![r].chosen = found]
    BY <1>6 DEF LookupEndpoints
  <2> HIDE DEF found
  <2>10. req'[r] = [req[r] EXCEPT !.at = "create", !.chosen = found]
         /\ \A p \in Requests \ {r} : req'[p] = req[p]
    BY <1>1, <2>9
  <2>11. /\ req'[r].op = "ingest" /\ req'[r].at = "create" /\ req'[r].chosen = found
         /\ req'[r].app = req[r].app /\ req'[r].name = req[r].name
         /\ req'[r].type = req[r].type
    BY <2>1, <2>10 DEF Ingest
  <2>12. span'[r].always \subseteq span[r].always /\ span[r].ever \subseteq span'[r].ever
    BY <2>1, <2>11, SpanNarrows
  <2>13. UNCHANGED type  BY <1>0 DEF catalogue
  <2>14. ChosenRead(req[r], span[r])'
    <3>1. \A s \in found : /\ AppOf[s[1]] = req[r].app
                           /\ s[1] \in span'[r].ever
                           /\ \A t \in req[r].type : type[t] = "live" => s[2] = t
      BY <2>4, <2>5, <2>6, <2>8, <2>12
    <3>2. \A e \in span'[r].always : \E s \in found : s[1] = e
      BY <2>7, <2>8, <2>12
    <3> QED  BY <2>11, <2>13, <3>1, <3>2 DEF ChosenRead
  <2>15. OwnRead(req[r])' /\ TypeRead(req[r])'
    BY <2>1, <2>2, <2>11, <2>13 DEF OwnRead, TypeRead
  <2> QED  BY <1>0, <2>10, <2>14, <2>15, ReadOne
<1>7. ASSUME CreateWithAttempts(r), ~End(r)  PROVE ReadInv'
  <2>1. req[r] \in Ingest /\ req[r].op = "ingest" /\ req[r].at = "create"
    BY <1>1, <1>7, IsIngest DEF CreateWithAttempts, AtStep
  <2>2. req' = [req EXCEPT ![r].at = "again"]
    BY <1>7 DEF CreateWithAttempts, Answer
  <2>3. TypeRead(req[r])  BY DEF IInv, ReadInv
  <2>4. /\ req'[r].op = "ingest" /\ req'[r].at = "again"
        /\ req'[r].app = req[r].app /\ req'[r].name = req[r].name
        /\ req'[r].type = req[r].type
        /\ \A p \in Requests \ {r} : req'[p] = req[p]
    BY <1>1, <2>1, <2>2 DEF Ingest
  <2>5. OwnRead(req[r])' /\ TypeRead(req[r])' /\ ChosenRead(req[r], span[r])'
    BY <1>0, <2>1, <2>3, <2>4 DEF catalogue, OwnRead, TypeRead, ChosenRead
  <2> QED  BY <1>0, <2>4, <2>5, ReadOne
<1>8. CASE LookupKey(r)  BY <1>2, <1>4, <1>8 DEF LookupKey, AtStep, Answer
<1>9. CASE LookupAgain(r)  BY <1>2, <1>9 DEF LookupAgain, Answer
<1>10. CASE StatementFails(r)  BY <1>2, <1>10 DEF StatementFails
<1> QED  BY <1>2, <1>3, <1>5, <1>6, <1>7, <1>8, <1>9, <1>10

-----------------------------------------------------------------------------
(* The events, their attempts and the answers                              *)

LEMMA EventsCatalogue ==
    ASSUME IInv, Catalogue
    PROVE  (UniqueKeys /\ AnswerInv /\ AttemptInv /\ FanOut)'
<1>1. Lasting  BY CatalogueLasts DEF IInv
<1>2. UNCHANGED <<events, answers, fan>>
  BY DEF Catalogue, SwitchEndpoint, CreateEventType, Subscribe, Unsubscribe, DeleteEndpoint,
         DeleteEventType, SubscribeReadType, SubscribeInsert, UnsubscribeDelete,
         DeleteEndpointWrite, DeleteEventTypeWrite
<1>3. (UniqueKeys /\ AnswerInv)'  BY <1>2 DEF IInv, UniqueKeys, AnswerInv
\* An attempt that is gone was one of an endpoint that is deleted.
<1>4. /\ attempts' \subseteq attempts
      /\ \A a \in attempts : a.endpoint \in Endpoints /\ endpoint'[a.endpoint] # "deleted"
                               => a \in attempts'
  <2>1. ASSUME NEW r \in Requests, DeleteEndpointWrite(r)
        PROVE  /\ attempts' \subseteq attempts
               /\ \A a \in attempts : a.endpoint \in Endpoints /\ endpoint'[a.endpoint] # "deleted"
                                        => a \in attempts'
    BY <2>1 DEF DeleteEndpointWrite, IInv, TypeInv, TypeOK
  <2>2. CASE UNCHANGED attempts  BY <2>2
  <2> QED
    BY <2>1, <2>2
       DEF Catalogue, SwitchEndpoint, CreateEventType, Subscribe, Unsubscribe, DeleteEndpoint,
           DeleteEventType, SubscribeReadType, SubscribeInsert, UnsubscribeDelete,
           DeleteEventTypeWrite
<1>5. AttemptInv'  BY <1>2, <1>4 DEF IInv, AttemptInv
<1>6. FanOut'
  <2> SUFFICES ASSUME NEW i \in 1..Len(events)
               PROVE  /\ \A e \in fan[i].always : endpoint'[e] # "deleted" =>
                           \E a \in attempts' : a.event = i /\ a.endpoint = e
                      /\ \A a \in attempts' : a.event = i => a.endpoint \in fan[i].ever
    BY <1>2 DEF FanOut
  <2>1. fan[i].always \subseteq Endpoints
    <3>1. fan[i] \in Span  BY DEF IInv, TypeInv, TypeOK
    <3> QED  BY <3>1 DEF Span
  <2>2. ASSUME NEW e \in fan[i].always, endpoint'[e] # "deleted"
        PROVE  \E a \in attempts' : a.event = i /\ a.endpoint = e
    <3>1. endpoint[e] # "deleted"  BY <1>1, <2>1, <2>2 DEF Lasting
    <3>2. PICK a \in attempts : a.event = i /\ a.endpoint = e
      BY <3>1 DEF IInv, FanOut
    <3>3. a \in attempts'  BY <1>4, <2>1, <2>2, <3>2
    <3> QED  BY <3>2, <3>3
  <2>3. \A a \in attempts' : a.event = i => a.endpoint \in fan[i].ever
    BY <1>4 DEF IInv, FanOut
  <2> QED  BY <2>2, <2>3
<1> QED  BY <1>3, <1>5, <1>6

\* The transaction: what the request has read is good enough for its event.
LEMMA EventsInsert ==
    ASSUME IInv, NEW r \in Requests, AtStep(r, "create"), ~Duplicate(r), ReferencesStand(r),
           Insert(r), UNCHANGED catalogue
    PROVE  /\ (UniqueKeys /\ AttemptInv /\ FanOut)'
           /\ \A i \in 1..Len(events) : events'[i] = events[i]
           /\ Len(events') = Len(events) + 1
           /\ events'[Len(events) + 1].app = req[r].app
           /\ events'[Len(events) + 1].key = req[r].key
<1> DEFINE t == CHOOSE u \in req[r].type : TRUE
           n == Len(events) + 1
           row == [app |-> req[r].app, key |-> req[r].key, type |-> t]
<1>1. req[r] \in Ingest /\ req[r].op = "ingest" /\ req[r].at = "create"
  BY IsIngest DEF IInv, TypeInv, TypeOK, AtStep
<1>2. TypeRead(req[r]) /\ ChosenRead(req[r], span[r])  BY DEF IInv, ReadInv
<1>3. t \in req[r].type /\ type[t] = "live"  BY <1>1, <1>2 DEF TypeRead, ReferencesStand
<1>4. events' = Append(events, row)  BY DEF Insert
<1>5. row.app = req[r].app /\ row.key = req[r].key /\ row.type = t  OBVIOUS
<1>6. attempts' = attempts \cup {[event |-> n, endpoint |-> s[1], via |-> s[2]]
                                   : s \in req[r].chosen}
  BY DEF Insert
<1>7. fan' = Append(fan, span[r])  BY DEF Insert
<1> HIDE DEF t, row
<1>8. /\ \A i \in 1..Len(events) : events'[i] = events[i]
      /\ Len(events') = n /\ events'[n] = row /\ Len(events) \in Nat
  BY <1>4 DEF IInv, TypeInv, TypeOK
<1>9. (\A i \in 1..Len(events) : fan'[i] = fan[i]) /\ fan'[n] = span[r]
  BY <1>7 DEF IInv, TypeInv, TypeOK
<1>10. \A a \in attempts : a.event \in 1..Len(events) /\ a.event # n
  BY <1>8 DEF IInv, TypeInv, TypeOK
<1>11. UniqueKeys'
  <2>1. \A i \in 1..Len(events) :
          row.key # NoKey => ~(events[i].key = row.key /\ events[i].app = row.app)
    BY <1>5 DEF Duplicate, GetByIdempotencyKey
  <2>2. \A i \in 1..Len(events') : i \in 1..Len(events) \/ i = n  BY <1>8
  <2>3. SUFFICES ASSUME NEW i \in 1..Len(events'), NEW j \in 1..Len(events'),
                        events'[i].key # NoKey, events'[i].key = events'[j].key,
                        events'[i].app = events'[j].app
                 PROVE  i = j
    BY DEF UniqueKeys
  <2>4. CASE i = n /\ j = n  BY <2>4
  <2>5. CASE i = n /\ j \in 1..Len(events)  BY <1>8, <2>1, <2>3, <2>5
  <2>6. CASE i \in 1..Len(events) /\ j = n  BY <1>8, <2>1, <2>3, <2>6
  <2>7. CASE i \in 1..Len(events) /\ j \in 1..Len(events)
    BY <1>8, <2>3, <2>7 DEF IInv, UniqueKeys
  <2> QED  BY <2>2, <2>4, <2>5, <2>6, <2>7
<1>12. \A s \in req[r].chosen : /\ AppOf[s[1]] = req[r].app
                                /\ s[1] \in span[r].ever /\ s[2] = t
  BY <1>1, <1>2, <1>3 DEF ChosenRead
<1>13. \A e \in span[r].always : \E s \in req[r].chosen : s[1] = e
  BY <1>1, <1>2 DEF ChosenRead
<1>14. AttemptInv'
  <2> SUFFICES ASSUME NEW a \in attempts'
               PROVE  AppOf[a.endpoint] = events'[a.event].app /\ a.via = events'[a.event].type
    BY DEF AttemptInv
  <2>1. CASE a \in attempts  BY <1>8, <1>10, <2>1 DEF IInv, AttemptInv
  <2>2. CASE a \notin attempts
    <3>1. PICK s \in req[r].chosen : a = [event |-> n, endpoint |-> s[1], via |-> s[2]]
      BY <1>6, <2>2
    <3>2. a.event = n /\ a.endpoint = s[1] /\ a.via = s[2]  BY <3>1
    <3> QED  BY <1>5, <1>8, <1>12, <3>2
  <2> QED  BY <2>1, <2>2
<1>15. FanOut'
  <2> SUFFICES ASSUME NEW i \in 1..Len(events')
               PROVE  /\ \A e \in fan'[i].always : endpoint'[e] # "deleted" =>
                           \E a \in attempts' : a.event = i /\ a.endpoint = e
                      /\ \A a \in attempts' : a.event = i => a.endpoint \in fan'[i].ever
    BY DEF FanOut
  <2>1. CASE i \in 1..Len(events)
    <3>1. \A a \in attempts' : a.event = i => a \in attempts  BY <1>6, <1>8, <2>1
    <3>2. endpoint' = endpoint  BY DEF catalogue
    <3>3. \A e \in fan[i].always : endpoint[e] # "deleted" =>
            \E a \in attempts : a.event = i /\ a.endpoint = e
      BY <2>1 DEF IInv, FanOut
    <3>4. \A a \in attempts : a.event = i => a.endpoint \in fan[i].ever
      BY <2>1 DEF IInv, FanOut
    <3>5. attempts \subseteq attempts'  BY <1>6
    <3> QED  BY <1>9, <2>1, <3>1, <3>2, <3>3, <3>4, <3>5
  <2>2. CASE i = n
    <3>1. ASSUME NEW e \in span[r].always
          PROVE  \E a \in attempts' : a.event = n /\ a.endpoint = e
      <4>1. PICK s \in req[r].chosen : s[1] = e  BY <1>13
      <4>2. [event |-> n, endpoint |-> s[1], via |-> s[2]] \in attempts'  BY <1>6
      <4> QED  BY <4>1, <4>2
    <3>2. ASSUME NEW a \in attempts', a.event = n  PROVE a.endpoint \in span[r].ever
      <4>1. a \notin attempts  BY <1>10, <3>2
      <4>2. PICK s \in req[r].chosen : a = [event |-> n, endpoint |-> s[1], via |-> s[2]]
        BY <1>6, <4>1
      <4> QED  BY <1>12, <4>2
    <3> HIDE DEF n
    <3> QED  BY <1>9, <2>2, <3>1, <3>2
  <2> QED  BY <1>8, <2>1, <2>2
<1> QED  BY <1>5, <1>8, <1>11, <1>14, <1>15

\* An answer 202 names the event of its key.
LEMMA AnswerKept ==
    ASSUME AnswerInv, NEW r, NEW code, NEW i, Answer(r, code, i),
           code = 202 /\ req[r].key # NoKey =>
             i \in 1..Len(events') /\ events'[i].key = req[r].key /\ events'[i].app = req[r].app,
           Len(events) \in Nat, Len(events') \in Nat, Len(events) <= Len(events'),
           \A j \in 1..Len(events) : events'[j] = events[j]
    PROVE  AnswerInv'
<1> SUFFICES ASSUME NEW a \in answers', a.code = 202, a.key # NoKey
             PROVE  a.event \in 1..Len(events')
                    /\ events'[a.event].key = a.key /\ events'[a.event].app = a.app
  BY DEF AnswerInv
<1>1. CASE a \in answers
  <2>1. a.event \in 1..Len(events) /\ events[a.event].key = a.key /\ events[a.event].app = a.app
    BY <1>1 DEF AnswerInv
  <2> QED  BY <2>1
<1>2. CASE a \notin answers
  <2>1. a.app = req[r].app /\ a.key = req[r].key /\ a.code = code /\ a.event = i
    BY <1>2 DEF Answer
  <2> QED  BY <2>1
<1> QED  BY <1>1, <1>2

LEMMA EventsIngestion ==
    ASSUME IInv, TypeInv', Ingestion
    PROVE  (UniqueKeys /\ AnswerInv /\ AttemptInv /\ FanOut)'
<1> PICK r \in Requests :
        \/ \E app \in Apps, name \in Names, recipient \in Recipients, key \in Keys \cup {NoKey} :
             SendEvent(r, app, name, recipient, key)
        \/ LookupKey(r) \/ LookupType(r) \/ LookupEndpoints(r)
        \/ CreateWithAttempts(r) \/ LookupAgain(r) \/ StatementFails(r)
  BY DEF Ingestion
<1>1. UNCHANGED catalogue  BY IngestionLasts DEF IInv
<1>2. Len(events) \in Nat  BY DEF IInv, TypeInv, TypeOK
<1>3. ASSUME UNCHANGED <<events, attempts, fan>>
      PROVE  (UniqueKeys /\ AttemptInv /\ FanOut)'
  BY <1>1, <1>3 DEF catalogue, IInv, UniqueKeys, AttemptInv, FanOut
<1>4. ASSUME UNCHANGED <<events, attempts, fan, answers>>
      PROVE  (UniqueKeys /\ AnswerInv /\ AttemptInv /\ FanOut)'
  BY <1>3, <1>4 DEF IInv, AnswerInv
\* An answer that inserts nothing names an event that was found, or none.
<1>5. ASSUME NEW code, NEW i, UNCHANGED <<events, attempts, fan>>, Answer(r, code, i),
             code = 202 => i \in GetByIdempotencyKey(req[r].app, req[r].key)
      PROVE  (UniqueKeys /\ AnswerInv /\ AttemptInv /\ FanOut)'
  <2>1. code = 202 => i \in 1..Len(events') /\ events'[i].key = req[r].key
                      /\ events'[i].app = req[r].app
    BY <1>5 DEF GetByIdempotencyKey
  <2>2. AnswerInv'  BY <1>2, <1>5, <2>1, AnswerKept DEF IInv
  <2> QED  BY <1>3, <1>5, <2>2
<1>6. CASE \E app \in Apps, name \in Names, recipient \in Recipients, key \in Keys \cup {NoKey} :
             SendEvent(r, app, name, recipient, key)
  BY <1>4, <1>6 DEF SendEvent
<1>7. CASE LookupKey(r)  BY <1>4, <1>5, <1>7 DEF LookupKey
<1>8. CASE LookupType(r)  BY <1>4, <1>5, <1>8 DEF LookupType
<1>9. CASE LookupEndpoints(r)  BY <1>4, <1>9 DEF LookupEndpoints
<1>10. CASE CreateWithAttempts(r)
  <2>1. CASE UNCHANGED <<events, attempts, fan, answers>>  BY <1>4, <2>1
  <2>2. CASE Answer(r, 500, NoEvent) /\ UNCHANGED <<events, attempts, fan>>
    BY <1>5, <2>2
  <2>3. CASE ~Duplicate(r) /\ ReferencesStand(r) /\ Insert(r) /\ Answer(r, 202, Len(events) + 1)
    <3>1. AtStep(r, "create")  BY <1>10 DEF CreateWithAttempts
    <3>2. /\ (UniqueKeys /\ AttemptInv /\ FanOut)'
          /\ \A i \in 1..Len(events) : events'[i] = events[i]
          /\ Len(events') = Len(events) + 1
          /\ events'[Len(events) + 1].app = req[r].app
          /\ events'[Len(events) + 1].key = req[r].key
      BY <1>1, <2>3, <3>1, EventsInsert
    <3>3. Len(events) + 1 \in 1..Len(events') /\ Len(events') \in Nat
          /\ Len(events) <= Len(events')
      BY <1>2, <3>2
    <3>4. AnswerInv'  BY <1>2, <2>3, <3>2, <3>3, AnswerKept DEF IInv
    <3> QED  BY <3>2, <3>4
  <2> QED  BY <1>10, <2>1, <2>2, <2>3 DEF CreateWithAttempts
<1>11. CASE LookupAgain(r)  BY <1>5, <1>11 DEF LookupAgain
<1>12. CASE StatementFails(r)
  <2>1. UNCHANGED answers  BY <1>12 DEF StatementFails
  <2>2. CASE UNCHANGED <<events, attempts, fan>>  BY <1>4, <2>1, <2>2
  <2>3. CASE AtStep(r, "create") /\ ~Duplicate(r) /\ ReferencesStand(r) /\ Insert(r)
    <3>1. /\ (UniqueKeys /\ AttemptInv /\ FanOut)'
          /\ \A i \in 1..Len(events) : events'[i] = events[i]
          /\ Len(events') = Len(events) + 1
      BY <1>1, <2>3, EventsInsert
    <3>2. \A i \in 1..Len(events) : i \in 1..Len(events')  BY <1>2, <3>1
    <3>3. AnswerInv'  BY <2>1, <3>1, <3>2 DEF IInv, AnswerInv
    <3> QED  BY <3>1, <3>3
  <2> QED  BY <1>12, <2>2, <2>3 DEF StatementFails
<1> QED  BY <1>6, <1>7, <1>8, <1>9, <1>10, <1>11, <1>12

-----------------------------------------------------------------------------
(* The theorems                                                            *)

LEMMA IngestionInit == Init => IInv
<1> SUFFICES ASSUME Init  PROVE IInv  OBVIOUS
<1> USE DEF Init
<1>1. events = <<>> /\ fan = <<>> /\ Len(events) = 0 /\ Len(fan) = 0  OBVIOUS
<1>2. TypeInv
  <2>1. TypeOK  BY <1>1 DEF TypeOK
  <2>2. NoSpan \in Span  BY DEF NoSpan, Span
  <2> QED  BY <1>1, <2>1, <2>2 DEF TypeInv
<1>3. CatalogueInv  BY DEF CatalogueInv
<1>4. ReadInv  BY DEF ReadInv, OwnRead, TypeRead, ChosenRead, Idle
<1>5. SpanInv  BY DEF SpanInv, Idle
<1>6. 1..Len(events) = {}  BY <1>1
<1>7. UniqueKeys /\ AnswerInv /\ AttemptInv /\ FanOut
  BY <1>6 DEF UniqueKeys, AnswerInv, AttemptInv, FanOut
<1> QED  BY <1>2, <1>3, <1>4, <1>5, <1>7 DEF IInv

LEMMA IngestionStep == IInv /\ [Next]_vars => IInv'
<1> SUFFICES ASSUME IInv, [Next]_vars  PROVE IInv'  OBVIOUS
<1>1. CASE Catalogue /\ Observe
  <2>1. TypeInv'  BY <1>1, CatalogueType
  <2>2. CatalogueInv'  BY <1>1, <2>1, CatalogueKept
  <2>3. ReadInv'  BY <1>1, <2>1, ReadCatalogue
  <2>4. SpanInv'  BY <1>1, <2>1, SpanKept DEF IInv, TypeInv, TypeOK
  <2>5. (UniqueKeys /\ AnswerInv /\ AttemptInv /\ FanOut)'  BY <1>1, EventsCatalogue
  <2> QED  BY <2>1, <2>2, <2>3, <2>4, <2>5 DEF IInv
<1>2. CASE Ingestion /\ Observe
  <2>1. TypeInv'  BY <1>2, IngestionType
  <2>2. UNCHANGED catalogue  BY <1>2, IngestionLasts DEF IInv
  <2>3. CatalogueInv'  BY <2>2 DEF catalogue, IInv, CatalogueInv
  <2>4. ReadInv'  BY <1>2, <2>1, ReadIngestion
  <2>5. SpanInv'  BY <1>2, <2>1, SpanKept DEF IInv, TypeInv, TypeOK
  <2>6. (UniqueKeys /\ AnswerInv /\ AttemptInv /\ FanOut)'  BY <1>2, <2>1, EventsIngestion
  <2> QED  BY <2>1, <2>3, <2>4, <2>5, <2>6 DEF IInv
<1>3. CASE UNCHANGED vars
  <2>1. UNCHANGED <<endpoint, type, subs, events, attempts, req, answers, span, fan>>
    BY <1>3 DEF vars, catalogue
  <2>2. TypeInv'  BY <2>1 DEF IInv, TypeInv, TypeOK
  <2>3. CatalogueInv'  BY <2>1 DEF IInv, CatalogueInv
  <2>4. ReadInv'  BY <2>1 DEF IInv, ReadInv, OwnRead, TypeRead, ChosenRead
  <2>5. SpanInv'  BY <2>1 DEF IInv, SpanInv, Due
  <2>6. (UniqueKeys /\ AnswerInv /\ AttemptInv)'
    BY <2>1 DEF IInv, UniqueKeys, AnswerInv, AttemptInv
  <2>7. FanOut'  BY <2>1 DEF IInv, FanOut
  <2> QED  BY <2>2, <2>3, <2>4, <2>5, <2>6, <2>7 DEF IInv
<1> QED  BY <1>1, <1>2, <1>3 DEF Next

\* The inductive invariant.
THEOREM IngestionInvariant == Spec => []IInv
  BY IngestionInit, IngestionStep, PTL DEF Spec

\* Rows, requests and answers keep their shape in every run.
THEOREM IngestionTypes == Spec => []TypeOK
<1>1. IInv => TypeOK  BY DEF IInv, TypeInv
<1> QED  BY <1>1, IngestionInvariant, PTL

\* However many handlers race with one idempotency key, and whatever look-ups
\* fail, there is one event and all are answered with it.
THEOREM IngestionIdempotent == Spec => []SameKeySameEvent
<1>1. IInv => SameKeySameEvent
  <2> SUFFICES ASSUME IInv  PROVE SameKeySameEvent  OBVIOUS
  <2>1. UniqueKeys /\ AnswerInv  BY DEF IInv
  <2>2. ASSUME NEW a \in answers, NEW b \in answers, a.code = 202, b.code = 202,
               a.key # NoKey, a.key = b.key, a.app = b.app
        PROVE  a.event = b.event
    <3>1. /\ a.event \in 1..Len(events) /\ b.event \in 1..Len(events)
          /\ events[a.event].key = a.key /\ events[a.event].app = a.app
          /\ events[b.event].key = b.key /\ events[b.event].app = b.app
      BY <2>1, <2>2 DEF AnswerInv
    <3> QED  BY <2>1, <2>2, <3>1 DEF UniqueKeys
  <2> QED  BY <2>1, <2>2 DEF SameKeySameEvent, UniqueKeys
<1> QED  BY <1>1, IngestionInvariant, PTL

\* An event reaches every endpoint it was due to all the while, and no endpoint
\* it was never due to, though what the handler read may be stale at the commit.
THEOREM IngestionFansOut == Spec => []FanOut
<1>1. IInv => FanOut  BY DEF IInv
<1> QED  BY <1>1, IngestionInvariant, PTL

\* No subscription and no attempt joins two applications, although the query
\* that chooses the endpoints does not compare them.
THEOREM IngestionIsolates == Spec => []TenantIsolation
<1>1. IInv => TenantIsolation
  BY DEF IInv, CatalogueInv, AttemptInv, TenantIsolation
<1> QED  BY <1>1, IngestionInvariant, PTL

\* An attempt comes from a subscription to the row its event refers to, although
\* the name may be given to a new row between the two look-ups.
THEOREM IngestionOwnType == Spec => []OfItsOwnType
<1>1. IInv => OfItsOwnType  BY DEF IInv, AttemptInv, OfItsOwnType
<1> QED  BY <1>1, IngestionInvariant, PTL
=============================================================================
