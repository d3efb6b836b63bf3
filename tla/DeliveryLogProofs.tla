-------------------------- MODULE DeliveryLogProofs --------------------------
(***************************************************************************)
(* Proofs about DeliveryLog.  A request that turns its pages looks its key *)
(* up again each time; that it goes on reading the same log rests on the   *)
(* unique index on the keys and on applications that are never changed.    *)
(* What the pages of a walk have shown follows from the rank of a row: the *)
(* number of rows before it, which moves only as rows come and go.         *)
(***************************************************************************)
EXTENDS DeliveryLog, FiniteSetTheorems, Integers, TLAPS, WellFoundedInduction

Tenant == Apps \cup {NoApp}

Calls ==
    {NoCall}
    \cup [pc : {"auth", "count", "page", "answered", "done"}, op : {"list"}, key : Keys,
          app : Tenant, filter : Filters, perPage : 1..MaxPerPage, page : Nat]
    \cup [pc : {"auth", "get", "done"}, op : {"get"}, key : Keys, app : Tenant,
          attempt : Attempts]
    \cup [pc : {"auth", "event", "done"}, op : {"event"}, key : Keys, app : Tenant,
          event : Events]
    \cup [pc : {"auth", "stats", "deliveries", "endpoints", "done"}, op : {"stats"},
          key : Keys, app : Tenant]

EventCounts    == [all : Nat, week : Nat, today : Nat]
DeliveryCounts == [total : Nat, delivered : Nat, failed : Nat, pending : Nat,
                   dead_letter : Nat, rate : Nat]
EndpointCounts == [total : Nat, active : Nat, inactive : Nat]

Counts == [events : EventCounts, deliveries : DeliveryCounts, endpoints : EndpointCounts]

Answers == [rows : SUBSET Attempts, total : Nat, pages : Nat, counts : Counts]

Walks == [must : SUBSET Attempts, left : Nat, came : Nat, fresh : Nat,
          seen : [Attempts -> Nat]]

TablesInv ==
    /\ keyOf \in [Apps -> Keys \cup {NoKey}]
    /\ status \in [Attempts -> DeliveryStatus \cup {"none", "gone"}]
    /\ at \in [Attempts -> 0..MaxTime]
    /\ born \in [Events -> 0..MaxTime]
    /\ endpoint \in [Endpoints -> {"active", "inactive", "gone"}]

ReaderInv == call \in Calls /\ answer \in Answers /\ walk \in Walks

\* A key belongs to one application.
KeyInv == \A a, b \in Apps : Exists(a) /\ keyOf[a] = keyOf[b] => a = b

\* A request acts for the application whose key it carries.
CallInv == call.app # NoApp => keyOf[call.app] = call.key

IInv ==
    /\ TablesInv
    /\ ReaderInv
    /\ KeyInv
    /\ CallInv
    /\ OwnRowsOnly
    /\ StatsAddUp

-----------------------------------------------------------------------------
(* Writers                                                                 *)

LEMMA MatchingType ==
    ASSUME NEW app, NEW f
    PROVE  /\ Matching(app, f) \subseteq Attempts
           /\ \A x \in Matching(app, f) : AppOf[EventOf[x]] = app
  BY DEF Matching

LEMMA ObservedWalk ==
    ASSUME NEW w \in Walks, NEW now \in SUBSET Attempts, NEW left \in Nat, NEW came \in Nat,
           NEW paging \in BOOLEAN
    PROVE  [w EXCEPT !.must = @ \cap now,
                     !.left = @ + left,
                     !.came = @ + came,
                     !.fresh = IF paging THEN @ + came ELSE @] \in Walks
<1> DEFINE w1 == [w EXCEPT !.must = w.must \cap now]
           w2 == [w1 EXCEPT !.left = w.left + left]
           w3 == [w2 EXCEPT !.came = w.came + came]
           w4 == [w3 EXCEPT !.fresh = IF paging THEN w.fresh + came ELSE w.fresh]
<1>1. w1 \in Walks /\ w1.left = w.left  BY DEF Walks
<1> HIDE DEF w1
<1>2. w2 \in Walks  BY <1>1 DEF Walks
<1> HIDE DEF w2
<1>3. w3 \in Walks  BY <1>2 DEF Walks
<1> HIDE DEF w3
<1>4. w.fresh \in Nat /\ w.fresh + came \in Nat  BY DEF Walks
<1>5. w4 \in Walks  BY <1>3, <1>4 DEF Walks
<1>6. [w EXCEPT !.must = @ \cap now,
                !.left = @ + left,
                !.came = @ + came,
                !.fresh = IF paging THEN @ + came ELSE @] = w4
  BY DEF w1, w2, w3, Walks
<1> QED  BY <1>5, <1>6

LEMMA ObserveKept ==
    ASSUME walk \in Walks, Observe, UNCHANGED call
    PROVE  walk' \in Walks
<1> DEFINE old == Matching(call.app, call.filter)
           now == Matching(call.app, call.filter)'
           left == Cardinality(old \ now)
           came == Cardinality(now \ old)
           paging == call.pc = "page"
<1>1. old \subseteq Attempts  BY MatchingType
<1>2. now \subseteq Attempts  BY DEF Matching
<1>3. IsFiniteSet(old \ now) /\ IsFiniteSet(now \ old)
  BY <1>1, <1>2, LogAssumption, FS_Subset
<1>4. left \in Nat /\ came \in Nat  BY <1>3, FS_CardinalityType
<1>5. CASE Walking
  <2>1. walk' = [walk EXCEPT !.must = @ \cap now, !.left = @ + left, !.came = @ + came,
                             !.fresh = IF paging THEN @ + came ELSE @]
    BY <1>5 DEF Observe
  <2>2. paging \in BOOLEAN  OBVIOUS
  <2> HIDE DEF old, now, left, came, paging
  <2> QED  BY <1>2, <1>4, <2>1, <2>2, ObservedWalk
<1>6. CASE ~Walking  BY <1>6 DEF Observe
<1> QED  BY <1>5, <1>6

LEMMA WriteTables ==
    ASSUME TablesInv, Write
    PROVE  TablesInv'
<1>1. ASSUME WriteApplications, UNCHANGED <<status, at, born, endpoint>>
      PROVE  TablesInv'
  BY <1>1
     DEF WriteApplications, CreateApplication, CreateConflicts, TablesInv
<1>2. ASSUME NEW v \in Events, NEW new \in SUBSET Attempts, NEW t \in 1..MaxTime,
             StoreAttempts(v, new, t)
      PROVE  TablesInv'
  <2>1. t \in 0..MaxTime  BY LogAssumption
  <2>2. status' \in [Attempts -> DeliveryStatus \cup {"none", "gone"}]
    BY <1>2 DEF StoreAttempts, TablesInv, DeliveryStatus
  <2>3. at' \in [Attempts -> 0..MaxTime]  BY <1>2, <2>1 DEF StoreAttempts, TablesInv
  <2>4. born' \in [Events -> 0..MaxTime]  BY <1>2, <2>1 DEF StoreAttempts, TablesInv
  <2> QED  BY <1>2, <2>2, <2>3, <2>4 DEF StoreAttempts, TablesInv
<1>3. ASSUME NEW x \in Attempts, NEW s \in DeliveryStatus, ChangeStatus(x, s)
      PROVE  TablesInv'
  BY <1>3 DEF ChangeStatus, TablesInv
<1>4. ASSUME NEW e \in Endpoints, DeleteEndpoint(e) \/ SwitchEndpoint(e)
      PROVE  TablesInv'
  BY <1>4 DEF DeleteEndpoint, SwitchEndpoint, TablesInv
<1> QED  BY <1>1, <1>2, <1>3, <1>4 DEF Write

\* A new key is nobody's, and an application that exists keeps its own.
LEMMA WriteKeys ==
    ASSUME TablesInv, KeyInv, Write
    PROVE  KeyInv' /\ \A a \in Apps : Exists(a) => keyOf'[a] = keyOf[a]
<1>1. CASE UNCHANGED keyOf
  BY <1>1 DEF KeyInv, Exists
<1>2. ASSUME NEW k \in Keys, NEW a \in Apps, CreateApplication(a, k)
      PROVE  KeyInv' /\ \A b \in Apps : Exists(b) => keyOf'[b] = keyOf[b]
  <2>1. ~Exists(a) /\ KeyFree(k) /\ keyOf' = [keyOf EXCEPT ![a] = k]
    BY <1>2 DEF CreateApplication
  <2>2. keyOf'[a] = k /\ \A b \in Apps \ {a} : keyOf'[b] = keyOf[b] /\ keyOf[b] # k
    BY <2>1 DEF TablesInv, KeyFree
  <2>3. \A b, c \in Apps : Exists(b)' /\ keyOf'[b] = keyOf'[c] => b = c
    BY <2>2 DEF KeyInv, Exists
  <2> QED  BY <2>1, <2>2, <2>3 DEF KeyInv, Exists
<1> QED
  BY <1>1, <1>2
     DEF Write, WriteApplications, CreateConflicts, StoreAttempts, ChangeStatus,
         DeleteEndpoint, SwitchEndpoint

-----------------------------------------------------------------------------
(* The reader and its call                                                 *)

\* A request whose application is known carries a key that exists.
LEMMA Known ==
    ASSUME ReaderInv, TablesInv, call.app # NoApp
    PROVE  call.app \in Apps /\ call.key \in Keys
  BY DEF ReaderInv, Calls, Tenant, NoCall

\* Looking the key up again finds the same application.
LEMMA SameTenant ==
    ASSUME TablesInv, ReaderInv, KeyInv, CallInv, NEW a \in AuthenticateAPIKey(call.key)
    PROVE  /\ a \in Tenant
           /\ a # NoApp => keyOf[a] = call.key
           /\ call.app # NoApp => a = call.app
<1>1. a \in Tenant /\ (a # NoApp => keyOf[a] = call.key)
  BY DEF AuthenticateAPIKey, Tenant
<1>2. ASSUME call.app # NoApp  PROVE a = call.app
  <2>1. call.app \in Apps /\ call.key \in Keys /\ keyOf[call.app] = call.key
    BY <1>2, Known DEF CallInv
  <2>2. a \in Apps /\ keyOf[a] = call.key
    BY <2>1 DEF AuthenticateAPIKey
  <2>3. Exists(a)  BY <2>1, <2>2, ApplicationsAssumption DEF Exists
  <2> QED  BY <2>1, <2>2, <2>3 DEF KeyInv
<1> QED  BY <1>1, <1>2

\* Nothing has been read for a request that is not authenticated.
LEMMA NobodysRows ==
    ASSUME IInv, call.app = NoApp
    PROVE  answer.rows = {}
<1>1. answer.rows \subseteq Attempts  BY DEF IInv, ReaderInv, Answers
<1>2. \A x \in Attempts : AppOf[EventOf[x]] # NoApp
  BY LogAssumption, ApplicationsAssumption
<1> QED  BY <1>1, <1>2 DEF IInv, OwnRowsOnly

LEMMA AuthenticateKept ==
    ASSUME IInv, Authenticate, UNCHANGED tables
    PROVE  IInv'
<1> PICK a \in AuthenticateAPIKey(call.key) :
      call' = [call EXCEPT !.app = a, !.pc = IF a = NoApp THEN "done"
                                         ELSE IF call.op = "list" THEN "count" ELSE call.op]
  BY DEF Authenticate
<1>1. /\ a \in Tenant
      /\ a # NoApp => keyOf[a] = call.key
      /\ call.app # NoApp => a = call.app
  BY SameTenant DEF IInv
<1>2. call \in Calls /\ call.pc = "auth"  BY DEF Authenticate, IInv, ReaderInv
<1>3. call' \in Calls /\ call'.app = a /\ call'.key = call.key
  <2>1. call # NoCall  BY <1>2 DEF NoCall
  <2>2. CASE call.op = "list"  BY <1>1, <1>2, <2>1, <2>2 DEF Calls, NoCall
  <2>3. CASE call.op = "get"  BY <1>1, <1>2, <2>1, <2>3 DEF Calls, NoCall
  <2>4. CASE call.op = "event"  BY <1>1, <1>2, <2>1, <2>4 DEF Calls, NoCall
  <2>5. CASE call.op = "stats"  BY <1>1, <1>2, <2>1, <2>5 DEF Calls, NoCall
  <2> QED  BY <1>2, <2>1, <2>2, <2>3, <2>4, <2>5 DEF Calls
<1>4. UNCHANGED <<answer, walk>>  BY DEF Authenticate
<1>5. UNCHANGED <<keyOf, status, at, born, endpoint>>  BY DEF tables
<1>6. TablesInv' /\ KeyInv'  BY <1>5 DEF IInv, TablesInv, KeyInv, Exists
<1>7. ReaderInv'  BY <1>3, <1>4 DEF IInv, ReaderInv
<1>8. CallInv'  BY <1>1, <1>3, <1>5 DEF CallInv
<1>9. call.app = NoApp => answer.rows = {}  BY NobodysRows
<1>10. OwnRowsOnly'  BY <1>1, <1>3, <1>4, <1>9 DEF IInv, OwnRowsOnly
<1>11. StatsAddUp'  BY <1>4 DEF IInv, StatsAddUp
<1> QED  BY <1>6, <1>7, <1>8, <1>10, <1>11 DEF IInv

\* The reader writes to no table.
LEMMA ReaderKept ==
    ASSUME IInv, UNCHANGED tables, call' \in Calls, answer' \in Answers, walk' \in Walks,
           call'.app # NoApp => call'.app = call.app /\ call'.key = call.key,
           \A x \in answer'.rows : AppOf[EventOf[x]] = call'.app,
           StatsAddUp'
    PROVE  IInv'
<1>1. UNCHANGED <<keyOf, status, at, born, endpoint>>  BY DEF tables
<1>2. TablesInv' /\ KeyInv'  BY <1>1 DEF IInv, TablesInv, KeyInv, Exists
<1>3. CallInv'  BY <1>1 DEF IInv, CallInv
<1> QED  BY <1>2, <1>3 DEF IInv, ReaderInv, OwnRowsOnly

LEMMA NothingAnswered ==
    /\ NoAnswer \in Answers /\ NoAnswer.rows = {}
    /\ answer = NoAnswer => StatsAddUp
<1>1. NoCounts \in Counts
  BY DEF NoCounts, Counts, EventCounts, DeliveryCounts, EndpointCounts
<1>2. NoAnswer \in Answers /\ NoAnswer.rows = {} /\ NoAnswer.counts = NoCounts
  BY <1>1 DEF NoAnswer, Answers
<1>3. ASSUME answer = NoAnswer  PROVE StatsAddUp
  <2>1. answer.counts = NoCounts  BY <1>2, <1>3
  <2> QED  BY <2>1 DEF StatsAddUp, NoCounts
<1> QED  BY <1>2, <1>3

LEMMA NothingWalked == NoWalk \in Walks
  BY DEF NoWalk, Walks

LEMMA RequestKept ==
    ASSUME IInv, NEW k \in Keys, NEW op \in {"list", "get", "event", "stats"}, Request(k, op),
           UNCHANGED tables
    PROVE  IInv'
<1>1. UNCHANGED <<answer, walk>> /\ call = NoCall  BY DEF Request
<1>2. \A n \in Sizes : Sanitize(n) \in 1..MaxPerPage
  BY LogAssumption DEF Sanitize
<1>3. call' \in Calls /\ call'.app = NoApp
  <2>1. NoApp \in Tenant  BY DEF Tenant
  <2>2. ASSUME NEW f \in Filters, NEW n \in Sizes,
               call' = [pc |-> "auth", op |-> "list", key |-> k, app |-> NoApp,
                        filter |-> f, perPage |-> Sanitize(n), page |-> 1]
        PROVE  call' \in Calls /\ call'.app = NoApp
    <3>1. Sanitize(n) \in 1..MaxPerPage  BY <1>2
    <3> HIDE DEF Sanitize
    <3> QED  BY <2>1, <2>2, <3>1 DEF Calls
  <2>3. ASSUME NEW x \in Attempts,
               call' = [pc |-> "auth", op |-> "get", key |-> k, app |-> NoApp, attempt |-> x]
        PROVE  call' \in Calls /\ call'.app = NoApp
    BY <2>1, <2>3 DEF Calls
  <2>4. ASSUME NEW v \in Events,
               call' = [pc |-> "auth", op |-> "event", key |-> k, app |-> NoApp, event |-> v]
        PROVE  call' \in Calls /\ call'.app = NoApp
    BY <2>1, <2>4 DEF Calls
  <2>5. ASSUME call' = [pc |-> "auth", op |-> "stats", key |-> k, app |-> NoApp]
        PROVE  call' \in Calls /\ call'.app = NoApp
    BY <2>1, <2>5 DEF Calls
  <2> QED  BY <2>2, <2>3, <2>4, <2>5 DEF Request
<1>4. answer.rows = {}  BY <1>1, NobodysRows DEF NoCall
<1>5. StatsAddUp'  BY <1>1 DEF IInv, StatsAddUp
<1> QED  BY <1>1, <1>3, <1>4, <1>5, ReaderKept DEF IInv, ReaderInv

LEMMA IsList ==
    ASSUME ReaderInv, call.pc \in {"count", "page", "answered"}
    PROVE  call \in [pc : {"auth", "count", "page", "answered", "done"}, op : {"list"},
                     key : Keys, app : Tenant, filter : Filters, perPage : 1..MaxPerPage,
                     page : Nat]
  BY DEF ReaderInv, Calls, NoCall

\* A call moves on.
LEMMA ListMoves ==
    ASSUME ReaderInv, call.pc \in {"count", "page", "answered"},
           NEW pc \in {"auth", "count", "page", "answered", "done"},
           call' = [call EXCEPT !.pc = pc]
    PROVE  call' \in Calls /\ call'.app = call.app /\ call'.key = call.key
  BY IsList DEF Calls

LEMMA CountKept ==
    ASSUME IInv, CountAttempts, UNCHANGED tables
    PROVE  IInv'
<1> DEFINE total == Cardinality(Matching(call.app, call.filter))
           pages == TotalPages(total, call.perPage)
<1>1. call.pc = "count" /\ ReaderInv  BY DEF CountAttempts, IInv
<1>2. call' \in Calls /\ call'.app = call.app /\ call'.key = call.key
  BY <1>1, ListMoves DEF CountAttempts
<1>3. total \in Nat
  <2>1. IsFiniteSet(Matching(call.app, call.filter))
    BY MatchingType, LogAssumption, FS_Subset
  <2> QED  BY <2>1, FS_CardinalityType
<1>4. pages \in Nat
  <2>1. call.perPage \in 1..MaxPerPage /\ MaxPerPage \in Nat  BY <1>1, IsList, LogAssumption
  <2> DEFINE n == call.perPage
  <2>2. n \in Nat \ {0} /\ total + n - 1 \in Nat  BY <1>3, <2>1
  <2> HIDE DEF n, total
  <2>3. (total + n - 1) \div n \in Nat  BY <2>2, SMT
  <2> QED  BY <2>3 DEF TotalPages, n
<1>5. answer' = [answer EXCEPT !.total = total, !.rows = {}, !.pages = pages]
      /\ walk' = [walk EXCEPT !.fresh = 0]
  BY DEF CountAttempts
<1> HIDE DEF total, pages
<1>6. answer' \in Answers /\ answer'.rows = {} /\ answer'.counts = answer.counts
  BY <1>1, <1>3, <1>4, <1>5 DEF ReaderInv, Answers
<1>7. walk' \in Walks  BY <1>1, <1>5 DEF ReaderInv, Walks
<1>8. StatsAddUp'  BY <1>6 DEF IInv, StatsAddUp
<1> QED  BY <1>2, <1>6, <1>7, <1>8, ReaderKept

LEMMA FetchKept ==
    ASSUME IInv, FetchPage, UNCHANGED tables
    PROVE  IInv'
<1> DEFINE rows == Matching(call.app, call.filter)
<1>1. call.pc = "page" /\ ReaderInv  BY DEF FetchPage, IInv
<1>2. call' \in Calls /\ call'.app = call.app /\ call'.key = call.key
  BY <1>1, ListMoves DEF FetchPage
<1>3. PICK page \in SUBSET rows :
        LET before == IF call.page = 1 THEN [NoWalk EXCEPT !.must = rows, !.fresh = walk.fresh]
                      ELSE walk
        IN  /\ answer' = [answer EXCEPT !.rows = page]
            /\ walk' = [before EXCEPT
                  !.seen = [x \in Attempts |->
                     IF x \in page /\ @[x] < 2 THEN @[x] + 1 ELSE @[x]]]
  BY DEF FetchPage, PagesOf
<1>4. rows \subseteq Attempts /\ \A x \in rows : AppOf[EventOf[x]] = call.app
  BY MatchingType
<1> DEFINE before == IF call.page = 1 THEN [NoWalk EXCEPT !.must = rows, !.fresh = walk.fresh]
                     ELSE walk
<1>5. answer' = [answer EXCEPT !.rows = page]
      /\ walk' = [before EXCEPT
                   !.seen = [x \in Attempts |->
                      IF x \in page /\ @[x] < 2 THEN @[x] + 1 ELSE @[x]]]
  BY <1>3
<1> HIDE DEF rows
<1>6. before \in Walks  BY <1>1, <1>4, NothingWalked DEF ReaderInv, Walks, NoWalk
<1> HIDE DEF before
<1>7. walk' \in Walks
  <2>1. [x \in Attempts |-> IF x \in page /\ before.seen[x] < 2 THEN before.seen[x] + 1
                            ELSE before.seen[x]] \in [Attempts -> Nat]
    BY <1>6 DEF Walks
  <2> QED  BY <1>5, <1>6, <2>1 DEF Walks
<1>8. answer' \in Answers /\ answer'.rows = page /\ answer'.counts = answer.counts
  BY <1>1, <1>4, <1>5 DEF ReaderInv, Answers
<1>9. StatsAddUp'  BY <1>8 DEF IInv, StatsAddUp
<1> QED  BY <1>2, <1>4, <1>7, <1>8, <1>9, ReaderKept

LEMMA TurnKept ==
    ASSUME IInv, TurnPage, UNCHANGED tables
    PROVE  IInv'
<1>1. call.pc = "answered" /\ ReaderInv /\ UNCHANGED <<answer, walk>>  BY DEF TurnPage, IInv
<1>2. call' \in Calls /\ call'.app = call.app /\ call'.key = call.key
  <2> DEFINE List == [pc : {"auth", "count", "page", "answered", "done"}, op : {"list"},
                      key : Keys, app : Tenant, filter : Filters, perPage : 1..MaxPerPage,
                      page : Nat]
             c == [call EXCEPT !.page = call.page + 1]
             d == [c EXCEPT !.pc = "auth"]
  <2>1. call \in List  BY <1>1, IsList
  <2>2. call' = d  BY <2>1 DEF TurnPage
  <2>3. c \in List /\ c.app = call.app /\ c.key = call.key  BY <2>1
  <2> HIDE DEF c
  <2>4. d \in List /\ d.app = c.app /\ d.key = c.key  BY <2>3
  <2> HIDE DEF d
  <2> QED  BY <2>2, <2>3, <2>4 DEF Calls
<1>3. StatsAddUp'  BY <1>1 DEF IInv, StatsAddUp
<1> QED  BY <1>1, <1>2, <1>3, ReaderKept DEF IInv, ReaderInv, OwnRowsOnly

LEMMA LeaveKept ==
    ASSUME IInv, Leave, UNCHANGED tables
    PROVE  IInv'
<1>1. call' = NoCall /\ answer' = NoAnswer /\ walk' = NoWalk  BY DEF Leave
<1>2. NoCall \in Calls /\ NoCall.app = NoApp  BY DEF Calls, NoCall
<1>3. StatsAddUp'
  <2>1. answer'.counts = NoCounts  BY <1>1 DEF NoAnswer
  <2> QED  BY <2>1 DEF StatsAddUp, NoCounts
<1> QED  BY <1>1, <1>2, <1>3, NothingAnswered, NothingWalked, ReaderKept

LEMMA ReadAttemptsKept ==
    ASSUME IInv, ReadAttempts, UNCHANGED tables
    PROVE  IInv'
<1>1. ReaderInv /\ UNCHANGED walk /\ call.pc \in {"get", "event"}
      /\ call' = [call EXCEPT !.pc = "done"]
  BY DEF ReadAttempts, IInv
<1>2. call' \in Calls /\ call'.app = call.app /\ call'.key = call.key
  BY <1>1 DEF ReaderInv, Calls, NoCall
<1>3. PICK rows \in SUBSET Attempts : /\ answer' = [answer EXCEPT !.rows = rows]
                                     /\ \A x \in rows : AppOf[EventOf[x]] = call.app
  <2>1. CASE call.pc = "get" /\ answer' = [answer EXCEPT !.rows = GetByID(call.app, call.attempt)]
    <3>1. call.attempt \in Attempts  BY <1>1, <2>1 DEF ReaderInv, Calls, NoCall
    <3>2. /\ GetByID(call.app, call.attempt) \in SUBSET Attempts
          /\ \A x \in GetByID(call.app, call.attempt) : AppOf[EventOf[x]] = call.app
      BY <3>1 DEF GetByID
    <3> QED  BY <2>1, <3>2
  <2>2. CASE call.pc = "event"
             /\ answer' = [answer EXCEPT !.rows = ListByEvent(call.app, call.event)]
    <3>1. /\ ListByEvent(call.app, call.event) \in SUBSET Attempts
          /\ \A x \in ListByEvent(call.app, call.event) : AppOf[EventOf[x]] = call.app
      BY DEF ListByEvent
    <3> QED  BY <2>2, <3>1
  <2> QED  BY <2>1, <2>2 DEF ReadAttempts
<1>4. answer' \in Answers /\ answer'.rows = rows /\ answer'.counts = answer.counts
  BY <1>1, <1>3 DEF ReaderInv, Answers
<1>5. StatsAddUp'  BY <1>4 DEF IInv, StatsAddUp
<1> QED  BY <1>1, <1>2, <1>3, <1>4, <1>5, ReaderKept DEF ReaderInv

-----------------------------------------------------------------------------
(* The statistics                                                          *)

EventsFit(v) == v.today <= v.week /\ v.week <= v.all

EndpointsFit(e) == e.total = e.active + e.inactive

SettledOf(d) == d.delivered + d.failed + d.dead_letter

DeliveriesFit(d) ==
    /\ d.total = SettledOf(d) + d.pending
    /\ SettledOf(d) < 20000 =>
         /\ d.rate = 0 <=> d.delivered = 0
         /\ d.rate = 10000 <=> SettledOf(d) > 0 /\ d.delivered = SettledOf(d)

\* What one of the three statements leaves of the answer.
LEMMA CountsWritten ==
    ASSUME NEW a \in Answers
    PROVE  /\ \A v \in EventCounts :
                LET b == [a EXCEPT !.counts.events = v]
                IN  /\ b \in Answers /\ b.rows = a.rows /\ b.counts.events = v
                    /\ b.counts.deliveries = a.counts.deliveries
                    /\ b.counts.endpoints = a.counts.endpoints
           /\ \A d \in DeliveryCounts :
                LET b == [a EXCEPT !.counts.deliveries = d]
                IN  /\ b \in Answers /\ b.rows = a.rows /\ b.counts.deliveries = d
                    /\ b.counts.events = a.counts.events
                    /\ b.counts.endpoints = a.counts.endpoints
           /\ \A e \in EndpointCounts :
                LET b == [a EXCEPT !.counts.endpoints = e]
                IN  /\ b \in Answers /\ b.rows = a.rows /\ b.counts.endpoints = e
                    /\ b.counts.events = a.counts.events
                    /\ b.counts.deliveries = a.counts.deliveries
<1>1. a.counts \in Counts  BY DEF Answers
<1>2. ASSUME NEW c \in Counts
      PROVE  LET b == [a EXCEPT !.counts = c]
             IN  b \in Answers /\ b.rows = a.rows /\ b.counts = c
  BY DEF Answers
<1>3. ASSUME NEW v \in EventCounts
      PROVE  LET b == [a EXCEPT !.counts.events = v]
             IN  /\ b \in Answers /\ b.rows = a.rows /\ b.counts.events = v
                 /\ b.counts.deliveries = a.counts.deliveries
                 /\ b.counts.endpoints = a.counts.endpoints
  <2> DEFINE c == [a.counts EXCEPT !.events = v]
             b == [a EXCEPT !.counts = c]
  <2>1. /\ c \in Counts /\ c.events = v
        /\ c.deliveries = a.counts.deliveries /\ c.endpoints = a.counts.endpoints
    BY <1>1 DEF Counts
  <2>2. [a EXCEPT !.counts.events = v] = b  OBVIOUS
  <2> HIDE DEF c
  <2>3. b \in Answers /\ b.rows = a.rows /\ b.counts = c  BY <1>2, <2>1
  <2> HIDE DEF b
  <2> QED  BY <2>1, <2>2, <2>3
<1>4. ASSUME NEW d \in DeliveryCounts
      PROVE  LET b == [a EXCEPT !.counts.deliveries = d]
             IN  /\ b \in Answers /\ b.rows = a.rows /\ b.counts.deliveries = d
                 /\ b.counts.events = a.counts.events
                 /\ b.counts.endpoints = a.counts.endpoints
  <2> DEFINE c == [a.counts EXCEPT !.deliveries = d]
             b == [a EXCEPT !.counts = c]
  <2>1. /\ c \in Counts /\ c.deliveries = d
        /\ c.events = a.counts.events /\ c.endpoints = a.counts.endpoints
    BY <1>1 DEF Counts
  <2>2. [a EXCEPT !.counts.deliveries = d] = b  OBVIOUS
  <2> HIDE DEF c
  <2>3. b \in Answers /\ b.rows = a.rows /\ b.counts = c  BY <1>2, <2>1
  <2> HIDE DEF b
  <2> QED  BY <2>1, <2>2, <2>3
<1>5. ASSUME NEW e \in EndpointCounts
      PROVE  LET b == [a EXCEPT !.counts.endpoints = e]
             IN  /\ b \in Answers /\ b.rows = a.rows /\ b.counts.endpoints = e
                 /\ b.counts.events = a.counts.events
                 /\ b.counts.deliveries = a.counts.deliveries
  <2> DEFINE c == [a.counts EXCEPT !.endpoints = e]
             b == [a EXCEPT !.counts = c]
  <2>1. /\ c \in Counts /\ c.endpoints = e
        /\ c.events = a.counts.events /\ c.deliveries = a.counts.deliveries
    BY <1>1 DEF Counts
  <2>2. [a EXCEPT !.counts.endpoints = e] = b  OBVIOUS
  <2> HIDE DEF c
  <2>3. b \in Answers /\ b.rows = a.rows /\ b.counts = c  BY <1>2, <2>1
  <2> HIDE DEF b
  <2> QED  BY <2>1, <2>2, <2>3
<1> QED  BY <1>3, <1>4, <1>5

\* Two statuses, or sets of them, that exclude each other are counted apart.
LEMMA CountedApart ==
    ASSUME NEW S, IsFiniteSet(S), NEW T, IsFiniteSet(T), S \cap T = {}
    PROVE  /\ IsFiniteSet(S \cup T)
           /\ Cardinality(S \cup T) = Cardinality(S) + Cardinality(T)
           /\ Cardinality(S) \in Nat /\ Cardinality(T) \in Nat
<1>1. Cardinality(S) \in Nat /\ Cardinality(T) \in Nat
  BY FS_CardinalityType
<1>2. IsFiniteSet(S \cup T)
      /\ Cardinality(S \cup T) = Cardinality(S) + Cardinality(T) - Cardinality(S \cap T)
  BY FS_Union
<1>3. Cardinality(S \cap T) = 0  BY FS_EmptySet, Zenon
<1>4. Cardinality(S \cup T) = Cardinality(S) + Cardinality(T)  BY <1>1, <1>2, <1>3
<1> QED  BY <1>1, <1>2, <1>4, Zenon

\* Half of a hundredth of a percent is rounded up, so both ends are exact.
LEMMA RateAtEnds ==
    ASSUME NEW delivered \in Nat, NEW settled \in Nat, delivered <= settled
    PROVE  /\ SuccessRate(delivered, settled) \in Nat
           /\ settled < 20000 =>
                /\ SuccessRate(delivered, settled) = 0 <=> delivered = 0
                /\ SuccessRate(delivered, settled) = 10000 <=> settled > 0 /\ delivered = settled
<1>1. CASE settled = 0  BY <1>1 DEF SuccessRate
<1>2. CASE settled # 0
  <2> DEFINE n == 20000 * delivered + settled
             m == 2 * settled
  <2>1. n \in Nat /\ m \in Nat \ {0}  BY <1>2
  <2>2. n < m <=> 20000 * delivered < settled  OBVIOUS
  <2>3. 10000 * m <= n /\ n < 10001 * m <=>
          20000 * settled <= 20000 * delivered + settled /\ 20000 * delivered < 20001 * settled
    OBVIOUS
  <2>4. SuccessRate(delivered, settled) = n \div m  BY <1>2 DEF SuccessRate
  <2> HIDE DEF n, m
  <2>5. /\ n \div m \in Nat
        /\ n \div m = 0 <=> n < m
        /\ n \div m = 10000 <=> 10000 * m <= n /\ n < 10001 * m
    <3>1. n \div m \in Nat  BY <2>1, SMT
    <3>2. n \div m = 0 <=> n < m  BY <2>1, SMT
    <3>3. n \div m = 10000 <=> 10000 * m <= n /\ n < 10001 * m  BY <2>1, SMT
    <3> QED  BY <3>1, <3>2, <3>3
  <2> QED  BY <1>2, <2>2, <2>3, <2>4, <2>5
<1> QED  BY <1>1, <1>2

LEMMA EventStatsKept ==
    ASSUME IInv, GetEventStats, UNCHANGED tables
    PROVE  IInv'
<1> DEFINE From(t) == {v \in Events : AppOf[v] = call.app /\ born[v] >= t}
           v == [all |-> Cardinality(From(1)), week |-> Cardinality(From(WeekStart)),
                 today |-> Cardinality(From(DayStart))]
<1>1. ReaderInv /\ UNCHANGED walk /\ call.pc = "stats"
      /\ call' = [call EXCEPT !.pc = "deliveries"] /\ answer' = [answer EXCEPT !.counts.events = v]
  BY DEF GetEventStats, IInv
<1>2. call' \in Calls /\ call'.app = call.app /\ call'.key = call.key
  BY <1>1 DEF ReaderInv, Calls, NoCall
<1>3. From(DayStart) \subseteq From(WeekStart) /\ From(WeekStart) \subseteq From(1)
  <2>1. /\ 1 <= WeekStart /\ WeekStart <= DayStart
        /\ WeekStart \in Nat /\ DayStart \in Nat
    BY LogAssumption
  <2>2. \A w \in Events : born[w] \in Nat  BY LogAssumption DEF IInv, TablesInv
  <2> QED  BY <2>1, <2>2
<1>4. IsFiniteSet(From(1)) /\ IsFiniteSet(From(WeekStart)) /\ IsFiniteSet(From(DayStart))
  BY LogAssumption, FS_Subset
<1> HIDE DEF From
<1>5. /\ Cardinality(From(1)) \in Nat /\ Cardinality(From(WeekStart)) \in Nat
      /\ Cardinality(From(DayStart)) \in Nat
      /\ Cardinality(From(DayStart)) <= Cardinality(From(WeekStart))
      /\ Cardinality(From(WeekStart)) <= Cardinality(From(1))
  BY <1>3, <1>4, FS_Subset, FS_CardinalityType
<1>6. v \in EventCounts /\ EventsFit(v)  BY <1>5 DEF EventCounts, EventsFit
<1> HIDE DEF v
<1>7. answer' \in Answers /\ answer'.rows = answer.rows /\ answer'.counts.events = v
      /\ answer'.counts.deliveries = answer.counts.deliveries
      /\ answer'.counts.endpoints = answer.counts.endpoints
  BY <1>1, <1>6, CountsWritten DEF ReaderInv
<1>8. StatsAddUp'
  BY <1>6, <1>7
     DEF IInv, StatsAddUp, EventsFit
<1> QED  BY <1>1, <1>2, <1>7, <1>8, ReaderKept DEF IInv, ReaderInv, OwnRowsOnly

LEMMA DeliveryStatsKept ==
    ASSUME IInv, GetDeliveryStats, UNCHANGED tables
    PROVE  IInv'
<1> DEFINE rows == {x \in Attempts : Present(x) /\ AppOf[EventOf[x]] = call.app}
           With(S) == {x \in rows : status[x] \in S}
           In(S) == Cardinality(With(S))
           d == [total |-> Cardinality(rows), delivered |-> In({"delivered"}),
                 failed |-> In({"failed"}), pending |-> In(Open),
                 dead_letter |-> In({"dead_letter"}),
                 rate |-> SuccessRate(In({"delivered"}), In(Settled))]
<1>1. ReaderInv /\ UNCHANGED walk /\ call.pc = "deliveries"
      /\ call' = [call EXCEPT !.pc = "endpoints"]
      /\ answer' = [answer EXCEPT !.counts.deliveries = d]
  BY DEF GetDeliveryStats, IInv
<1>2. call' \in Calls /\ call'.app = call.app /\ call'.key = call.key
  BY <1>1 DEF ReaderInv, Calls, NoCall
<1>3. rows \subseteq Attempts  OBVIOUS
<1>4. ASSUME NEW S  PROVE IsFiniteSet(With(S))
  <2>1. With(S) \subseteq Attempts  OBVIOUS
  <2> QED  BY <2>1, LogAssumption, FS_Subset
<1>5. /\ rows = With(Settled) \cup With(Open)
      /\ With(Settled) \cap With(Open) = {}
      /\ With(Settled) = With({"delivered"}) \cup With({"failed", "dead_letter"})
      /\ With({"delivered"}) \cap With({"failed", "dead_letter"}) = {}
      /\ With({"failed", "dead_letter"}) = With({"failed"}) \cup With({"dead_letter"})
      /\ With({"failed"}) \cap With({"dead_letter"}) = {}
  BY DEF Present, DeliveryStatus, Settled, Open
<1> HIDE DEF rows, With
<1>6. Cardinality(rows) = In(Settled) + In(Open) /\ In(Settled) \in Nat /\ In(Open) \in Nat
  BY <1>4, <1>5, CountedApart, Zenon
<1>7. In(Settled) = In({"delivered"}) + In({"failed", "dead_letter"})
      /\ In({"delivered"}) \in Nat /\ In({"failed", "dead_letter"}) \in Nat
  BY <1>4, <1>5, CountedApart, Zenon
<1>8. In({"failed", "dead_letter"}) = In({"failed"}) + In({"dead_letter"})
      /\ In({"failed"}) \in Nat /\ In({"dead_letter"}) \in Nat
  BY <1>4, <1>5, CountedApart, Zenon
<1> HIDE DEF In
<1>9. In({"delivered"}) <= In(Settled)  BY <1>6, <1>7
<1> DEFINE rate == SuccessRate(In({"delivered"}), In(Settled))
<1>10. /\ rate \in Nat
       /\ In(Settled) < 20000 =>
            /\ rate = 0 <=> In({"delivered"}) = 0
            /\ rate = 10000 <=> In(Settled) > 0 /\ In({"delivered"}) = In(Settled)
  BY <1>6, <1>7, <1>9, RateAtEnds
<1> HIDE DEF rate
<1>11. d = [total |-> Cardinality(rows), delivered |-> In({"delivered"}),
            failed |-> In({"failed"}), pending |-> In(Open),
            dead_letter |-> In({"dead_letter"}), rate |-> rate]
  BY DEF rate
<1> HIDE DEF d
<1>12. d \in DeliveryCounts
  BY <1>6, <1>7, <1>8, <1>10, <1>11 DEF DeliveryCounts
<1>13. SettledOf(d) = In(Settled) /\ d.delivered = In({"delivered"}) /\ d.rate = rate
       /\ d.total = SettledOf(d) + d.pending
  BY <1>6, <1>7, <1>8, <1>11 DEF SettledOf
<1>14. DeliveriesFit(d)  BY <1>10, <1>13 DEF DeliveriesFit
<1>15. answer' \in Answers /\ answer'.rows = answer.rows /\ answer'.counts.deliveries = d
       /\ answer'.counts.events = answer.counts.events
       /\ answer'.counts.endpoints = answer.counts.endpoints
  BY <1>1, <1>12, CountsWritten DEF ReaderInv
<1>16. StatsAddUp'
  BY <1>14, <1>15 DEF IInv, StatsAddUp, DeliveriesFit, SettledOf
<1> QED  BY <1>1, <1>2, <1>15, <1>16, ReaderKept DEF IInv, ReaderInv, OwnRowsOnly

LEMMA EndpointStatsKept ==
    ASSUME IInv, ListByApplication, UNCHANGED tables
    PROVE  IInv'
<1> DEFINE mine == EndpointsOf(call.app)
           active == {e \in mine : endpoint[e] = "active"}
           e == [total |-> Cardinality(mine), active |-> Cardinality(active),
                 inactive |-> Cardinality(mine \ active)]
<1>1. ReaderInv /\ UNCHANGED walk /\ call.pc = "endpoints"
      /\ call' = [call EXCEPT !.pc = "done"]
      /\ answer' = [answer EXCEPT !.counts.endpoints = e]
  BY DEF ListByApplication, IInv
<1>2. call' \in Calls /\ call'.app = call.app /\ call'.key = call.key
  BY <1>1 DEF ReaderInv, Calls, NoCall
<1>3. IsFiniteSet(mine)
  <2>1. mine \subseteq Endpoints  BY DEF EndpointsOf
  <2> QED  BY <2>1, LogAssumption, FS_Subset
<1>4. active \subseteq mine  OBVIOUS
<1> HIDE DEF mine, active
<1>5. IsFiniteSet(active) /\ IsFiniteSet(mine \ active)
  <2>1. mine \ active \subseteq mine  OBVIOUS
  <2> QED  BY <1>3, <1>4, <2>1, FS_Subset
<1>6. mine = active \cup (mine \ active) /\ active \cap (mine \ active) = {}
  BY <1>4
<1>7. /\ Cardinality(mine) = Cardinality(active) + Cardinality(mine \ active)
      /\ Cardinality(active) \in Nat /\ Cardinality(mine \ active) \in Nat
  BY <1>5, <1>6, CountedApart, Zenon
<1>8. e \in EndpointCounts /\ EndpointsFit(e)  BY <1>7 DEF EndpointCounts, EndpointsFit
<1> HIDE DEF e
<1>9. answer' \in Answers /\ answer'.rows = answer.rows /\ answer'.counts.endpoints = e
      /\ answer'.counts.events = answer.counts.events
      /\ answer'.counts.deliveries = answer.counts.deliveries
  BY <1>1, <1>8, CountsWritten DEF ReaderInv
<1>10. StatsAddUp'  BY <1>8, <1>9 DEF IInv, StatsAddUp, EndpointsFit
<1> QED  BY <1>1, <1>2, <1>9, <1>10, ReaderKept DEF IInv, ReaderInv, OwnRowsOnly

-----------------------------------------------------------------------------
(* Places in the order of a page query                                     *)

Times == [Attempts -> Nat]

\* The rows of a log that come before x, and how many they are.
Above(log, t, x) == {y \in log : t[y] > t[x]}
Rank(log, t, x) == Cardinality(Above(log, t, x))

Lone(t, x) == \A y \in Attempts \ {x} : t[y] # t[x]

LEMMA FiniteRows ==
    ASSUME NEW S \in SUBSET Attempts
    PROVE  IsFiniteSet(S) /\ Cardinality(S) \in Nat
  BY LogAssumption, FS_Subset, FS_CardinalityType

LEMMA FewerRows ==
    ASSUME NEW T \in SUBSET Attempts, NEW S \in SUBSET T
    PROVE  /\ Cardinality(S) <= Cardinality(T)
           /\ Cardinality(S) = Cardinality(T) => S = T
<1>1. IsFiniteSet(T)  BY FiniteRows
<1> QED  BY <1>1, FS_Subset

LEMMA RowsApart ==
    ASSUME NEW S \in SUBSET Attempts, NEW T \in SUBSET Attempts
    PROVE  /\ Cardinality(S \cup T) <= Cardinality(S) + Cardinality(T)
           /\ S \cap T = {} => Cardinality(S \cup T) = Cardinality(S) + Cardinality(T)
<1>1. IsFiniteSet(S) /\ IsFiniteSet(T) /\ Cardinality(S) \in Nat /\ Cardinality(T) \in Nat
      /\ Cardinality(S \cap T) \in Nat
  BY FiniteRows
<1>2. Cardinality(S \cup T) = Cardinality(S) + Cardinality(T) - Cardinality(S \cap T)
  BY <1>1, FS_Union
<1>3. S \cap T = {} => Cardinality(S \cap T) = 0  BY FS_EmptySet, Zenon
<1> QED  BY <1>1, <1>2, <1>3

LEMMA RankType ==
    ASSUME NEW log \in SUBSET Attempts, NEW t \in Times, NEW x \in log
    PROVE  /\ Above(log, t, x) \in SUBSET log
           /\ Rank(log, t, x) \in Nat
           /\ Rank(log, t, x) < Cardinality(log)
<1>1. Above(log, t, x) \in SUBSET log /\ x \notin Above(log, t, x)
  BY DEF Above, Times
<1>2. Above(log, t, x) # log  BY <1>1
<1>3. Rank(log, t, x) <= Cardinality(log) /\ Rank(log, t, x) # Cardinality(log)
  BY <1>1, <1>2, FewerRows DEF Rank
<1>4. Rank(log, t, x) \in Nat /\ Cardinality(log) \in Nat
  BY <1>1, FiniteRows DEF Rank
<1> QED  BY <1>1, <1>3, <1>4

\* Who comes later has a higher rank.
LEMMA RankOrdered ==
    ASSUME NEW log \in SUBSET Attempts, NEW t \in Times, NEW x \in log, NEW y \in log,
           t[x] > t[y]
    PROVE  Rank(log, t, x) < Rank(log, t, y)
<1>1. t[x] \in Nat /\ t[y] \in Nat /\ \A z \in log : t[z] \in Nat  BY DEF Times
<1>2. Above(log, t, x) \in SUBSET Above(log, t, y) /\ x \in Above(log, t, y)
      /\ x \notin Above(log, t, x)
  BY <1>1 DEF Above
<1>3. Above(log, t, y) \in SUBSET Attempts  BY DEF Above
<1>4. Rank(log, t, x) <= Rank(log, t, y) /\ Rank(log, t, x) # Rank(log, t, y)
  BY <1>2, <1>3, FewerRows DEF Rank
<1>5. Rank(log, t, x) \in Nat /\ Rank(log, t, y) \in Nat  BY RankType
<1> QED  BY <1>4, <1>5

\* Rows with a time of their own fill places of their own.
LEMMA LonePlaces ==
    ASSUME NEW log \in SUBSET Attempts, NEW t \in Times, NEW S \in SUBSET log,
           NEW a \in Nat, NEW b \in Nat,
           \A x \in S : Lone(t, x) /\ a <= Rank(log, t, x) /\ Rank(log, t, x) < b
    PROVE  /\ a <= b => Cardinality(S) <= b - a
           /\ b <= a => S = {}
<1>1. \A x \in S : Rank(log, t, x) \in Nat /\ Rank(log, t, x) \in a..(b - 1)
  <2> TAKE x \in S
  <2>1. Rank(log, t, x) \in Nat  BY RankType
  <2> QED  BY <2>1
<1> DEFINE place == [x \in S |-> Rank(log, t, x)]
<1>2. \A x, y \in S : place[x] = place[y] => x = y
  <2> SUFFICES ASSUME NEW x \in S, NEW y \in S, x # y  PROVE place[x] # place[y]
    OBVIOUS
  <2>1. t[x] \in Nat /\ t[y] \in Nat /\ t[x] # t[y]  BY DEF Lone, Times
  <2>2. t[x] > t[y] \/ t[y] > t[x]  BY <2>1
  <2>3. Rank(log, t, x) \in Nat /\ Rank(log, t, y) \in Nat  BY RankType
  <2>4. Rank(log, t, x) # Rank(log, t, y)  BY <2>2, <2>3, RankOrdered
  <2> QED  BY <2>4
<1>3. place \in Injection(S, a..(b - 1))
  BY <1>1, <1>2 DEF Injection, IsInjective
<1>4. /\ IsFiniteSet(a..(b - 1))
      /\ Cardinality(a..(b - 1)) = IF a > b - 1 THEN 0 ELSE (b - 1) - a + 1
  BY FS_Interval
<1>5. Cardinality(S) <= Cardinality(a..(b - 1))
  <2> HIDE DEF place
  <2> QED  BY <1>3, <1>4, FS_Injection
<1>6. b <= a => S = {}  BY <1>1
<1>7. Cardinality(S) \in Nat  BY FiniteRows
<1> QED  BY <1>4, <1>5, <1>6, <1>7

\* One row of any number of them is the newest.
LEMMA Newest ==
    ASSUME NEW S \in SUBSET Attempts, S # {}, NEW t \in Times
    PROVE  \E z \in S : \A x \in S : t[x] <= t[z]
<1> DEFINE T == {Above(S, t, x) : x \in S}
<1>1. T \subseteq SUBSET S /\ T # {}  BY DEF Above
<1>2. IsWellFoundedOn(StrictSubsetOrdering(S), SUBSET S)
  BY FiniteRows, FS_FiniteSubsetsOfFinite, FS_StrictSubsetOrderingWellFounded
<1> HIDE DEF T
<1>3. PICK U \in T : \A V \in T : ~ (<<V, U>> \in StrictSubsetOrdering(S))
  BY <1>1, <1>2, WFMin
<1>4. PICK z \in S : U = Above(S, t, z)  BY <1>3 DEF T
<1>5. ASSUME NEW x \in S, ~(t[x] <= t[z])  PROVE FALSE
  <2>1. t[x] \in Nat /\ t[z] \in Nat /\ \A y \in S : t[y] \in Nat  BY DEF Times
  <2>2. /\ Above(S, t, x) \subseteq U /\ U \subseteq S
        /\ x \in U /\ x \notin Above(S, t, x)
    BY <1>4, <1>5, <2>1 DEF Above
  <2>3. <<Above(S, t, x), U>> \in StrictSubsetOrdering(S)
    BY <2>2 DEF StrictSubsetOrdering
  <2> QED  BY <1>3, <2>3 DEF T
<1> QED  BY <1>5

\* LIMIT n OFFSET k: a row with a time of its own is on the page exactly when its
\* place is one of the page's, whichever way the others are sorted.
LEMMA PageHolds ==
    ASSUME NEW log \in SUBSET Attempts, NEW k \in Nat, NEW n \in Nat, at \in Times,
           NEW page \in PagesOf(log, k, n)
    PROVE  /\ page \in SUBSET log
           /\ \A x \in log : Lone(at, x) =>
                (x \in page <=> k <= Rank(log, at, x) /\ Rank(log, at, x) < k + n)
<1>1. page \in SUBSET log /\ Cardinality(page) <= n  BY DEF PagesOf
<1> PICK before \in SUBSET (log \ page) :
      /\ Cardinality(before) <= k
      /\ before \cup page # log => Cardinality(page) = n
      /\ before # log => Cardinality(before) = k
      /\ \A x \in before, y \in log \ before : at[x] >= at[y]
      /\ \A x \in page, y \in log \ (before \cup page) : at[x] >= at[y]
  BY DEF PagesOf
<1>2. /\ Cardinality(before) \in Nat /\ Cardinality(page) \in Nat
      /\ before \in SUBSET Attempts /\ page \in SUBSET Attempts
      /\ Cardinality(before \cup page) = Cardinality(before) + Cardinality(page)
  <2>1. before \in SUBSET Attempts /\ page \in SUBSET Attempts /\ before \cap page = {}
    BY <1>1
  <2> QED  BY <2>1, FiniteRows, RowsApart
<1>3. \A x \in log : at[x] \in Nat  BY DEF Times
<1>4. ASSUME NEW x \in log, Lone(at, x)
      PROVE  x \in page <=> k <= Rank(log, at, x) /\ Rank(log, at, x) < k + n
  <2> DEFINE above == Above(log, at, x)
  <2>1. \A y \in log \ {x} : at[y] # at[x]  BY <1>4 DEF Lone
  <2>2. above \in SUBSET log /\ x \notin above /\ Cardinality(above) \in Nat
        /\ Rank(log, at, x) = Cardinality(above)
    <3>1. x \notin above  BY <1>3 DEF Above
    <3> QED  BY <3>1, RankType DEF Rank
  <2>3. CASE x \in before
    <3>1. above \in SUBSET before  BY <1>3, <2>3 DEF Above
    <3>2. Cardinality(above) # Cardinality(before) /\ Cardinality(above) <= Cardinality(before)
      BY <1>2, <2>2, <2>3, <3>1, FewerRows
    <3>3. Cardinality(above) < k  BY <1>2, <2>2, <3>2
    <3> QED  BY <2>2, <2>3, <3>3
  <2>4. CASE x \in page
    <3>1. before \in SUBSET above  BY <1>1, <1>3, <2>1, <2>4 DEF Above
    <3>2. above \in SUBSET (before \cup page)  BY <1>3, <2>4 DEF Above
    <3>3. Cardinality(before) = k  BY <1>1, <2>4
    <3>4. k <= Cardinality(above)  BY <2>2, <3>1, <3>3, FewerRows
    <3>5. Cardinality(above) <= Cardinality(before \cup page)
          /\ Cardinality(above) # Cardinality(before \cup page)
      BY <1>2, <2>2, <2>4, <3>2, FewerRows
    <3>6. Cardinality(above) < k + n  BY <1>1, <1>2, <2>2, <3>3, <3>5
    <3> QED  BY <2>2, <2>4, <3>4, <3>6
  <2>5. CASE x \notin before \cup page
    <3>1. before \cup page \in SUBSET above
      BY <1>1, <1>3, <2>1, <2>5 DEF Above
    <3>2. Cardinality(before) = k /\ Cardinality(page) = n  BY <2>5
    <3>3. Cardinality(before \cup page) <= Cardinality(above)
      BY <2>2, <3>1, FewerRows
    <3>4. k + n <= Cardinality(above)  BY <1>2, <3>2, <3>3
    <3> QED  BY <2>2, <2>5, <3>4
  <2> QED  BY <2>3, <2>4, <2>5
<1> QED  BY <1>1, <1>4

\* Between two statements the log goes from log to now; what is in both keeps its
\* time.  A row moves up by one place at most for each row that left,
LEMMA Skips ==
    ASSUME NEW log \in SUBSET Attempts, NEW now \in SUBSET Attempts,
           NEW t \in Times, NEW u \in Times, \A x \in log \cap now : u[x] = t[x],
           NEW k \in Nat, NEW S \in SUBSET (log \cap now),
           \A x \in S : Lone(t, x) /\ k <= Rank(log, t, x) /\ Rank(now, u, x) < k
    PROVE  Cardinality(S) <= Cardinality(log \ now)
<1> DEFINE left == Cardinality(log \ now)
<1>1. left \in Nat  BY FiniteRows
<1>2. ASSUME NEW x \in S  PROVE Rank(log, t, x) < k + left
  <2>1. \A y \in log : t[y] \in Nat /\ u[y] \in Nat  BY DEF Times
  <2>2. Above(log, t, x) \subseteq Above(now, u, x) \cup (log \ now)
    BY <2>1 DEF Above
  <2>3. Above(now, u, x) \in SUBSET Attempts /\ log \ now \in SUBSET Attempts
    BY DEF Above
  <2>4. Cardinality(Above(log, t, x)) <= Cardinality(Above(now, u, x) \cup (log \ now))
    BY <2>2, <2>3, FewerRows
  <2>5. Cardinality(Above(now, u, x) \cup (log \ now)) <= Cardinality(Above(now, u, x)) + left
    BY <2>3, RowsApart
  <2>6. Cardinality(Above(now, u, x) \cup (log \ now)) \in Nat
    BY <2>3, FiniteRows
  <2>7. Rank(log, t, x) \in Nat /\ Rank(now, u, x) \in Nat /\ Rank(now, u, x) < k
    BY RankType
  <2> HIDE DEF left
  <2> QED  BY <1>1, <2>4, <2>5, <2>6, <2>7 DEF Rank
<1> HIDE DEF left
<1> DEFINE b == k + left
<1>3. b \in Nat /\ k <= b /\ b - k = left  BY <1>1
<1>4. S \in SUBSET log /\ \A x \in S : Lone(t, x) /\ k <= Rank(log, t, x) /\ Rank(log, t, x) < b
  BY <1>2
<1> HIDE DEF b
<1>5. k <= b => Cardinality(S) <= b - k  BY <1>3, <1>4, LonePlaces
<1> QED  BY <1>3, <1>5 DEF left

\* and the rows that end up behind a place, of those that were before it or not in
\* the log, are no more than those that came.
LEMMA Repeats ==
    ASSUME NEW log \in SUBSET Attempts, NEW now \in SUBSET Attempts,
           NEW t \in Times, NEW u \in Times, \A x \in log \cap now : u[x] = t[x],
           NEW k \in Nat, NEW S \in SUBSET now,
           \A x \in S : /\ k <= Rank(now, u, x)
                        /\ x \in log => Lone(t, x) /\ Rank(log, t, x) < k
    PROVE  Cardinality(S) <= Cardinality(now \ log)
<1>1. CASE S = {}
  <2>1. Cardinality(S) = 0  BY <1>1, FS_EmptySet, Zenon
  <2>2. Cardinality(now \ log) \in Nat  BY FiniteRows
  <2> QED  BY <2>1, <2>2
<1>2. CASE S # {}
  <2>1. PICK z \in S : \A x \in S : u[x] <= u[z]
    BY <1>2, Newest
  <2> DEFINE new == now \ log
             over == {y \in new : u[y] > u[z]}
             stay == {y \in log \cap now : u[y] > u[z]}
             A == S \cap log
             B == S \ log
  <2>2. \A y \in Attempts : t[y] \in Nat /\ u[y] \in Nat  BY DEF Times
  <2>3. Above(now, u, z) = stay \cup over /\ stay \cap over = {}
    BY DEF Above
  <2>4. stay \in SUBSET Attempts /\ over \in SUBSET new /\ new \in SUBSET Attempts
        /\ A \in SUBSET log /\ B \in SUBSET new /\ S = A \cup B /\ A \cap B = {}
        /\ A \in SUBSET S /\ B \in SUBSET S
    OBVIOUS
  <2>5. B \cap over = {}
    <3> SUFFICES ASSUME NEW x \in B, x \in over  PROVE FALSE  OBVIOUS
    <3>1. u[x] > u[z] /\ u[x] <= u[z] /\ u[x] \in Nat /\ u[z] \in Nat
      BY <2>1, <2>2
    <3> QED  BY <3>1
  <2>6. ASSUME NEW x \in A  PROVE stay \in SUBSET Above(log, t, x)
    <3> SUFFICES ASSUME NEW y \in stay  PROVE y \in Above(log, t, x)
      OBVIOUS
    <3>1. u[y] > u[z] /\ u[x] <= u[z] /\ u[y] = t[y] /\ u[x] = t[x] /\ y \in log
      BY <2>1
    <3>2. u[y] \in Nat /\ u[z] \in Nat /\ u[x] \in Nat  BY <2>2
    <3> QED  BY <3>1, <3>2 DEF Above
  <2> HIDE DEF new, over, stay, A, B
  <2>7. /\ Cardinality(stay) \in Nat /\ Cardinality(over) \in Nat
        /\ Cardinality(new) \in Nat /\ Cardinality(A) \in Nat /\ Cardinality(B) \in Nat
    BY <2>4, FiniteRows
  <2>8. k <= Cardinality(stay) + Cardinality(over)
    <3>1. over \in SUBSET Attempts  BY <2>4
    <3>2. Cardinality(stay \cup over) = Cardinality(stay) + Cardinality(over)
      BY <2>3, <2>4, <3>1, RowsApart
    <3> QED  BY <2>3, <3>2 DEF Rank
  <2>9. Cardinality(B) + Cardinality(over) <= Cardinality(new)
    <3>1. over \in SUBSET Attempts /\ B \in SUBSET Attempts /\ B \cup over \in SUBSET new
      BY <2>4
    <3>2. Cardinality(B \cup over) = Cardinality(B) + Cardinality(over)
      BY <2>5, <3>1, RowsApart
    <3>3. Cardinality(B \cup over) <= Cardinality(new)
      BY <2>4, <3>1, FewerRows
    <3> QED  BY <3>2, <3>3
  <2>10. ASSUME NEW x \in A
         PROVE  Lone(t, x) /\ Cardinality(stay) <= Rank(log, t, x) /\ Rank(log, t, x) < k
    <3>1. x \in S /\ x \in log  BY <2>4
    <3>2. Above(log, t, x) \in SUBSET Attempts  BY DEF Above
    <3>3. Cardinality(stay) <= Cardinality(Above(log, t, x))
      BY <2>6, <3>2, FewerRows
    <3> QED  BY <3>1, <3>3 DEF Rank
  <2>11. Cardinality(A) <= Cardinality(over)
    <3>1. /\ Cardinality(stay) <= k => Cardinality(A) <= k - Cardinality(stay)
          /\ k <= Cardinality(stay) => A = {}
      BY <2>4, <2>7, <2>10, LonePlaces
    <3>2. A = {} => Cardinality(A) = 0  BY FS_EmptySet, Zenon
    <3> QED  BY <2>7, <2>8, <3>1, <3>2
  <2>12. Cardinality(S) = Cardinality(A) + Cardinality(B)
    <3>1. A \in SUBSET Attempts /\ B \in SUBSET Attempts  BY <2>4
    <3>2. Cardinality(A \cup B) = Cardinality(A) + Cardinality(B)
      BY <2>4, <3>1, RowsApart
    <3> QED  BY <2>4, <3>2
  <2>13. Cardinality(S) <= Cardinality(new)  BY <2>7, <2>9, <2>11, <2>12
  <2> QED  BY <2>13 DEF new
<1> QED  BY <1>1, <1>2
-----------------------------------------------------------------------------
(* What holds while a caller turns the pages                               *)

Log == Matching(call.app, call.filter)

\* How many rows the pages that were fetched have room for.
Covered == (IF call.pc = "answered" THEN call.page ELSE call.page - 1) * call.perPage

\* The walk has gone past these and not shown them.
Passed ==
    {x \in walk.must : Lone(at, x) /\ walk.seen[x] = 0 /\ Rank(Log, at, x) < Covered}

\* These have been shown twice, or are ahead of the walk and will be.
Again ==
    {x \in Attempts :
        /\ Lone(at, x)
        /\ \/ walk.seen[x] > 1
           \/ walk.seen[x] = 1 /\ x \in Log /\ Rank(Log, at, x) >= Covered}

\* A row that was stored has a time, and only such rows are seen or missed.
StoredInv ==
    \A x \in Attempts :
        /\ IF status[x] = "none" THEN at[x] = 0 ELSE at[x] >= 1
        /\ x \in walk.must \/ walk.seen[x] > 0 => status[x] # "none"

ListInv ==
    call.op = "list" =>
        /\ call.page >= 1
        /\ call.page > 1 \/ call.pc \in {"count", "page", "answered"} => call.app # NoApp
        /\ call.pc \in {"page", "answered"} =>
             answer.pages = TotalPages(answer.total, call.perPage)
        /\ call.pc = "page" => Cardinality(Log) <= answer.total + walk.fresh

FirstPageInv ==
    call.op # "list" \/ (call.page = 1 /\ call.pc # "answered")
      => walk.must = {} /\ \A x \in Attempts : walk.seen[x] = 0

PagesInv ==
    Walking => /\ walk.must \subseteq Log
               /\ Cardinality(Passed) <= walk.left
               /\ Cardinality(Again) <= walk.came

WalkInv ==
    /\ StoredInv
    /\ ListInv
    /\ FirstPageInv
    /\ PagesInv
    /\ NothingSkipped
    /\ NothingRepeated

LEMMA EmptyCount == \A S : S = {} => Cardinality(S) = 0
  BY FS_EmptySet, Zenon

LEMMA LogTypesOfRows ==
    ASSUME TablesInv
    PROVE  at \in Times /\ Log \in SUBSET Attempts /\ \A x \in Log : status[x] # "none"
<1>1. at \in Times  BY LogAssumption DEF TablesInv, Times
<1>2. \A x \in Log : x \in Attempts /\ status[x] # "none"
  BY DEF Log, Matching, Present, DeliveryStatus, Settled
<1> QED  BY <1>1, <1>2

\* A row that was stored keeps its time.
LEMMA WriteRows ==
    ASSUME TablesInv, StoredInv, Write
    PROVE  \A x \in Attempts :
              /\ status[x] # "none" => status'[x] # "none" /\ at'[x] = at[x]
              /\ IF status'[x] = "none" THEN at'[x] = 0 ELSE at'[x] >= 1
<1>1. ASSUME NEW v \in Events, NEW new \in SUBSET Attempts, NEW t \in 1..MaxTime,
             StoreAttempts(v, new, t), NEW x \in Attempts
      PROVE  /\ status[x] # "none" => status'[x] # "none" /\ at'[x] = at[x]
             /\ IF status'[x] = "none" THEN at'[x] = 0 ELSE at'[x] >= 1
  <2>1. CASE x \in new
    BY <1>1, <2>1 DEF StoreAttempts
  <2>2. CASE x \notin new
    BY <1>1, <2>2 DEF StoreAttempts, StoredInv
  <2> QED
    BY <2>1, <2>2
<1>2. ASSUME NEW x \in Attempts, NEW s \in DeliveryStatus, ChangeStatus(x, s), NEW y \in Attempts
      PROVE  /\ status[y] # "none" => status'[y] # "none" /\ at'[y] = at[y]
             /\ IF status'[y] = "none" THEN at'[y] = 0 ELSE at'[y] >= 1
  BY <1>2 DEF ChangeStatus, StatusSteps, StoredInv, TablesInv, DeliveryStatus, Settled
<1>3. ASSUME NEW e \in Endpoints, DeleteEndpoint(e) \/ SwitchEndpoint(e), NEW x \in Attempts
      PROVE  /\ status[x] # "none" => status'[x] # "none" /\ at'[x] = at[x]
             /\ IF status'[x] = "none" THEN at'[x] = 0 ELSE at'[x] >= 1
  BY <1>3 DEF DeleteEndpoint, SwitchEndpoint, StoredInv, Present, DeliveryStatus, Settled
<1>4. ASSUME UNCHANGED <<status, at, born, endpoint>>, NEW x \in Attempts
      PROVE  /\ status[x] # "none" => status'[x] # "none" /\ at'[x] = at[x]
             /\ IF status'[x] = "none" THEN at'[x] = 0 ELSE at'[x] >= 1
  BY <1>4 DEF StoredInv
<1> QED
  BY <1>1, <1>2, <1>3, <1>4 DEF Write

\* Company at its time does not leave a row that was stored.
LEMMA LoneBefore ==
    ASSUME TablesInv, TablesInv', StoredInv, Write,
           NEW x \in Attempts, status[x] # "none", Lone(at', x)
    PROVE  Lone(at, x)
<1> SUFFICES ASSUME NEW y \in Attempts \ {x}, at[y] = at[x]  PROVE FALSE
  BY DEF Lone
<1>1. at[x] >= 1 /\ at'[x] = at[x]
  BY WriteRows DEF StoredInv
<1>2. CASE status[y] # "none"
  BY <1>1, <1>2, WriteRows DEF Lone
<1>3. CASE status[y] = "none"
  BY <1>1, <1>3 DEF StoredInv
<1> QED
  BY <1>2, <1>3

LEMMA ObserveWrites ==
    ASSUME walk \in Walks, Observe, UNCHANGED call
    PROVE  /\ Walking =>
                /\ walk'.must = walk.must \cap Log'
                /\ walk'.left = walk.left + Cardinality(Log \ Log')
                /\ walk'.came = walk.came + Cardinality(Log' \ Log)
                /\ walk'.fresh = IF call.pc = "page" THEN walk.fresh + Cardinality(Log' \ Log)
                                 ELSE walk.fresh
                /\ walk'.seen = walk.seen
           /\ ~Walking => walk' = walk
  BY DEF Observe, Log, Walks

LEMMA CoveredType ==
    ASSUME ReaderInv, ListInv, call.op = "list"
    PROVE  Covered \in Nat /\ call.page \in Nat \ {0} /\ call.perPage \in Nat \ {0}
<1>1. call.page \in Nat \ {0} /\ call.perPage \in Nat \ {0}
  <2>1. call.page \in Nat /\ call.perPage \in 1..MaxPerPage
    BY DEF ReaderInv, Calls, NoCall
  <2> QED
    BY <2>1, LogAssumption DEF ListInv
<1>2. \A m, n \in Nat : m * n \in Nat
  OBVIOUS
<1>3. call.page \in Nat /\ call.page - 1 \in Nat /\ call.perPage \in Nat
  BY <1>1
<1> QED
  BY <1>1, <1>2, <1>3 DEF Covered

LEMMA WalkWrite ==
    ASSUME IInv, IInv', WalkInv, Write, UNCHANGED <<call, answer>>, Observe
    PROVE  WalkInv'
<1>1. /\ TablesInv /\ TablesInv' /\ StoredInv /\ walk \in Walks /\ walk' \in Walks
      /\ UNCHANGED call /\ UNCHANGED answer
  BY DEF IInv, ReaderInv, WalkInv
<1>2. /\ at \in Times /\ at' \in Times
      /\ Log \in SUBSET Attempts /\ Log' \in SUBSET Attempts
      /\ \A x \in Log : status[x] # "none"
  <2>1. at' \in Times /\ Log' \in SUBSET Attempts
    BY <1>1, LogAssumption DEF TablesInv, Times, Log, Matching
  <2> QED
    BY <1>1, <2>1, LogTypesOfRows
<1>3. /\ \A x \in Log \cap Log' : at'[x] = at[x]
      /\ \A x \in Attempts : status[x] # "none" /\ Lone(at', x) => Lone(at, x)
  BY <1>1, <1>2, WriteRows, LoneBefore
<1>4. /\ Walking =>
           /\ walk'.must = walk.must \cap Log'
           /\ walk'.left = walk.left + Cardinality(Log \ Log')
           /\ walk'.came = walk.came + Cardinality(Log' \ Log)
           /\ walk'.fresh = IF call.pc = "page" THEN walk.fresh + Cardinality(Log' \ Log)
                            ELSE walk.fresh
           /\ walk'.seen = walk.seen
      /\ ~Walking => walk' = walk
  BY <1>1, ObserveWrites
<1>5. /\ Cardinality(Log \ Log') \in Nat /\ Cardinality(Log' \ Log) \in Nat
      /\ walk.left \in Nat /\ walk.came \in Nat /\ walk.fresh \in Nat
      /\ walk.must \in SUBSET Attempts /\ walk.seen \in [Attempts -> Nat]
  <2>1. Log \ Log' \in SUBSET Attempts /\ Log' \ Log \in SUBSET Attempts
    BY <1>2
  <2> QED
    BY <1>1, <2>1, FiniteRows DEF Walks
<1>6. walk'.must \in SUBSET walk.must /\ walk'.seen = walk.seen
      /\ walk'.came >= walk.came /\ walk'.came \in Nat
  BY <1>4, <1>5
<1>7. \A x \in Attempts : x \in walk.must \/ walk.seen[x] > 0 => status[x] # "none"
  BY <1>1 DEF StoredInv
<1>8. StoredInv'
  BY <1>1, <1>6, <1>7, WriteRows DEF StoredInv
<1>9. ListInv'
  <2>1. ASSUME call.op = "list", call.pc = "page"
        PROVE  Cardinality(Log') <= answer.total + walk'.fresh
    <3>1. Walking
      BY <2>1 DEF Walking, WalkOver
    <3>2. walk'.fresh = walk.fresh + Cardinality(Log' \ Log)
          /\ Cardinality(Log) <= answer.total + walk.fresh
      BY <1>4, <2>1, <3>1 DEF WalkInv, ListInv
    <3>3. Cardinality(Log') <= Cardinality(Log \cup (Log' \ Log))
          /\ Cardinality(Log \cup (Log' \ Log)) <= Cardinality(Log) + Cardinality(Log' \ Log)
      <4>1. /\ Log' \ Log \in SUBSET Attempts /\ Log \cup (Log' \ Log) \in SUBSET Attempts
            /\ Log' \in SUBSET (Log \cup (Log' \ Log))
        BY <1>2
      <4> QED
        BY <1>2, <4>1, RowsApart, FewerRows
    <3>4. /\ Cardinality(Log') \in Nat /\ Cardinality(Log) \in Nat
          /\ Cardinality(Log \cup (Log' \ Log)) \in Nat /\ answer.total \in Nat
      <4>1. Log \cup (Log' \ Log) \in SUBSET Attempts
        BY <1>2
      <4> QED
        BY <1>2, <4>1, FiniteRows DEF IInv, ReaderInv, Answers
    <3> QED
      BY <1>5, <3>2, <3>3, <3>4
  <2> QED
    BY <1>1, <2>1 DEF WalkInv, ListInv
<1>10. FirstPageInv'
  BY <1>1, <1>6 DEF WalkInv, FirstPageInv
<1>11. Walking' = Walking /\ WalkOver' = WalkOver /\ Covered' = Covered
  BY <1>1 DEF Walking, WalkOver, Covered
<1>12. ASSUME Walking  PROVE Cardinality(Passed') <= walk'.left
  <2> DEFINE new == {x \in Passed' : Covered <= Rank(Log, at, x)}
  <2>1. Covered \in Nat
    BY <1>12, CoveredType DEF Walking, IInv, WalkInv
  <2>2. walk.must \subseteq Log /\ Cardinality(Passed) <= walk.left
    BY <1>12 DEF WalkInv, PagesInv
  <2>3. \A x \in Passed' : /\ x \in Log \cap Log' /\ x \in walk.must /\ Lone(at, x)
                           /\ walk.seen[x] = 0 /\ Rank(Log', at', x) < Covered
    <3> TAKE x \in Passed'
    <3>1. x \in walk'.must /\ Lone(at', x) /\ walk'.seen[x] = 0 /\ Rank(Log', at', x) < Covered
      BY <1>11 DEF Passed
    <3>2. x \in walk.must /\ x \in Log' /\ walk.seen[x] = 0
      BY <1>4, <1>12, <3>1
    <3>3. x \in Attempts /\ x \in Log
      BY <1>5, <2>2, <3>2
    <3> QED
      BY <1>3, <1>7, <3>1, <3>2, <3>3
  <2>4. \A x \in Log : Rank(Log, at, x) \in Nat
    BY <1>2, RankType
  <2>5. Passed' \in SUBSET (Passed \cup new)
    BY <2>1, <2>3, <2>4 DEF Passed
  <2>6. Cardinality(new) <= Cardinality(Log \ Log')
    <3>1. /\ new \in SUBSET (Log \cap Log')
          /\ \A x \in new : Lone(at, x) /\ Covered <= Rank(Log, at, x)
                            /\ Rank(Log', at', x) < Covered
      BY <2>3
    <3> HIDE DEF new
    <3> QED
      BY <1>2, <1>3, <2>1, <3>1, Skips
  <2>7. Passed \in SUBSET Attempts /\ new \in SUBSET Attempts /\ Passed \cup new \in SUBSET Attempts
    BY <1>5, <2>3 DEF Passed
  <2> HIDE DEF new
  <2>8. Cardinality(Passed') <= Cardinality(Passed \cup new)
        /\ Cardinality(Passed \cup new) <= Cardinality(Passed) + Cardinality(new)
    BY <2>5, <2>7, FewerRows, RowsApart
  <2>9. /\ Cardinality(Passed') \in Nat /\ Cardinality(Passed) \in Nat /\ Cardinality(new) \in Nat
        /\ Cardinality(Passed \cup new) \in Nat
    <3>1. Passed' \in SUBSET Attempts
      BY <2>5, <2>7
    <3> QED
      BY <2>7, <3>1, FiniteRows
  <2> QED
    BY <1>4, <1>5, <1>12, <2>2, <2>6, <2>8, <2>9
<1>13. ASSUME Walking  PROVE Cardinality(Again') <= walk'.came
  <2> DEFINE new == Again' \ Again
  <2>1. Covered \in Nat
    BY <1>13, CoveredType DEF Walking, IInv, WalkInv
  <2>2. Cardinality(Again) <= walk.came
    BY <1>13 DEF WalkInv, PagesInv
  <2>3. ASSUME NEW x \in new
        PROVE  /\ x \in Log' /\ Covered <= Rank(Log', at', x)
               /\ x \in Log => Lone(at, x) /\ Rank(Log, at, x) < Covered
    <3>1. /\ x \in Attempts /\ Lone(at', x) /\ x \notin Again
          /\ \/ walk.seen[x] > 1
             \/ walk.seen[x] = 1 /\ x \in Log' /\ Rank(Log', at', x) >= Covered
      BY <1>6, <1>11 DEF Again
    <3>2. status[x] # "none"
      BY <1>5, <1>7, <3>1
    <3>3. Lone(at, x)
      BY <1>3, <3>1, <3>2
    <3>4. walk.seen[x] = 1 /\ x \in Log' /\ Rank(Log', at', x) >= Covered
      BY <3>1, <3>3 DEF Again
    <3>5. x \in Log => ~(Rank(Log, at, x) >= Covered) /\ Rank(Log, at, x) \in Nat
      BY <1>2, <3>1, <3>3, <3>4, RankType DEF Again
    <3>6. Rank(Log', at', x) \in Nat
      BY <1>2, <3>4, RankType
    <3> QED
      BY <2>1, <3>3, <3>4, <3>5, <3>6
  <2>4. Again \in SUBSET Attempts /\ new \in SUBSET Attempts /\ Again' \in SUBSET Attempts
        /\ Again \cup new \in SUBSET Attempts /\ Again' \in SUBSET (Again \cup new)
    BY DEF Again
  <2> HIDE DEF new
  <2>5. Cardinality(new) <= Cardinality(Log' \ Log)
    <3>1. new \in SUBSET Log'
      BY <2>3
    <3> QED
      BY <1>2, <1>3, <2>1, <2>3, <3>1, Repeats
  <2>6. Cardinality(Again') <= Cardinality(Again \cup new)
        /\ Cardinality(Again \cup new) <= Cardinality(Again) + Cardinality(new)
    BY <2>4, FewerRows, RowsApart
  <2>7. /\ Cardinality(Again') \in Nat /\ Cardinality(Again) \in Nat /\ Cardinality(new) \in Nat
        /\ Cardinality(Again \cup new) \in Nat
    BY <2>4, FiniteRows
  <2> QED
    BY <1>4, <1>5, <1>13, <2>2, <2>5, <2>6, <2>7
<1>14. PagesInv'
  BY <1>4, <1>11, <1>12, <1>13 DEF PagesInv
<1>15. NothingSkipped'
  <2> SUFFICES ASSUME WalkOver
               PROVE  Cardinality({x \in walk'.must : Alone(x)' /\ walk'.seen[x] = 0})
                        <= walk'.left + walk'.fresh
    BY <1>11 DEF NothingSkipped
  <2> DEFINE S == {x \in walk.must : Alone(x) /\ walk.seen[x] = 0}
             T == {x \in walk'.must : Alone(x)' /\ walk'.seen[x] = 0}
  <2>1. ~Walking
    BY DEF Walking
  <2>2. walk' = walk
    BY <1>4, <2>1
  <2>3. T \in SUBSET S /\ S \in SUBSET Attempts
    BY <1>3, <1>5, <1>7, <2>2 DEF Alone, Lone
  <2>4. Cardinality(S) <= walk.left + walk.fresh
    BY DEF WalkInv, NothingSkipped
  <2> HIDE DEF S, T
  <2>5. Cardinality(T) <= Cardinality(S) /\ Cardinality(S) \in Nat /\ Cardinality(T) \in Nat
    <3>1. T \in SUBSET Attempts
      BY <2>3
    <3> QED
      BY <2>3, <3>1, FewerRows, FiniteRows
  <2>6. Cardinality(T) <= walk'.left + walk'.fresh
    BY <1>5, <2>2, <2>4, <2>5
  <2> QED
    BY <2>6 DEF T
<1>16. NothingRepeated'
  <2> DEFINE S == {x \in Attempts : Alone(x) /\ walk.seen[x] > 1}
             T == {x \in Attempts : Alone(x)' /\ walk'.seen[x] > 1}
  <2>1. T \in SUBSET S /\ S \in SUBSET Attempts
    BY <1>3, <1>5, <1>6, <1>7 DEF Alone, Lone
  <2>2. Cardinality(S) <= walk.came
    BY DEF WalkInv, NothingRepeated
  <2> HIDE DEF S, T
  <2>3. Cardinality(T) <= Cardinality(S) /\ Cardinality(S) \in Nat /\ Cardinality(T) \in Nat
    <3>1. T \in SUBSET Attempts
      BY <2>1
    <3> QED
      BY <2>1, <3>1, FewerRows, FiniteRows
  <2>4. Cardinality(T) <= walk'.came
    BY <1>5, <1>6, <2>2, <2>3
  <2> QED
    BY <2>4 DEF NothingRepeated, T
<1> QED
  BY <1>8, <1>9, <1>10, <1>14, <1>15, <1>16 DEF WalkInv

\* As many pages as an answer announces have room for all that was counted.
LEMMA PagesSuffice ==
    ASSUME NEW total \in Nat, NEW n \in Nat \ {0}, NEW p \in Nat, p >= TotalPages(total, n)
    PROVE  total <= p * n
<1> DEFINE m == total + n - 1
           q == m \div n
<1>1. m \in Nat /\ n \in Nat /\ n > 0
  OBVIOUS
<1> HIDE DEF m
<1>2. q \in Nat /\ m < q * n + n
  <2>1. q \in Int /\ q >= 0
    BY <1>1, SMT
  <2>2. m < q * n + n
    BY <1>1, SMT
  <2> QED
    BY <2>1, <2>2
<1>3. q <= p
  BY DEF TotalPages, m
<1> HIDE DEF q
<1>4. q * n <= p * n /\ q * n \in Nat /\ p * n \in Nat
  BY <1>1, <1>2, <1>3, SMT
<1> QED
  BY <1>1, <1>2, <1>4 DEF m

\* Requests that are not about the list leave the walk where it is.
LEMMA WalkAside ==
    ASSUME IInv, WalkInv, UNCHANGED tables, UNCHANGED walk, call'.pc # "answered",
           call.op # "list" \/ (call.page = 1 /\ call.pc # "answered"),
           \/ call'.op # "list"
           \/ call'.op = "list" /\ call'.page = 1 /\ call'.pc \in {"auth", "done"}
    PROVE  WalkInv'
<1>1. UNCHANGED <<status, at>>
  BY DEF tables
<1>2. StoredInv'
  BY <1>1 DEF WalkInv, StoredInv
<1>3. FirstPageInv'
  BY DEF WalkInv, FirstPageInv
<1>4. ListInv' /\ PagesInv' /\ NothingSkipped'
  BY DEF ListInv, PagesInv, Walking, NothingSkipped, WalkOver
<1>5. NothingRepeated'
  BY <1>1 DEF WalkInv, NothingRepeated, Alone
<1> QED
  BY <1>2, <1>3, <1>4, <1>5 DEF WalkInv

LEMMA WalkRequest ==
    ASSUME IInv, WalkInv, UNCHANGED tables,
           NEW k \in Keys, NEW op \in {"list", "get", "event", "stats"}, Request(k, op)
    PROVE  WalkInv'
<1>1. UNCHANGED walk /\ call = NoCall /\ call.op # "list"
  BY DEF Request, NoCall
<1>2. /\ call'.pc = "auth"
      /\ call'.op # "list" \/ (call'.op = "list" /\ call'.page = 1)
  <2>1. CASE op = "list"
    BY <2>1 DEF Request
  <2>2. CASE op # "list"
    BY <2>2 DEF Request
  <2> QED
    BY <2>1, <2>2
<1> QED
  BY <1>1, <1>2, WalkAside

\* The rows the walk is about are the same ones after a step of the reader that
\* acts for the same application.
LEMMA SameLog ==
    ASSUME UNCHANGED tables, call'.app = call.app, call'.filter = call.filter
    PROVE  Log' = Log /\ at' = at /\ status' = status
<1>1. UNCHANGED <<status, at>>
  BY DEF tables
<1> QED
  BY <1>1 DEF Log, Matching, Present

LEMMA WalkAuthenticate ==
    ASSUME IInv, WalkInv, UNCHANGED tables, Authenticate
    PROVE  WalkInv'
<1> PICK a \in AuthenticateAPIKey(call.key) :
      call' = [call EXCEPT !.app = a, !.pc = IF a = NoApp THEN "done"
                                         ELSE IF call.op = "list" THEN "count" ELSE call.op]
  BY DEF Authenticate
<1>1. call.pc = "auth" /\ UNCHANGED <<answer, walk>> /\ call \in Calls /\ call # NoCall
  BY DEF Authenticate, IInv, ReaderInv, NoCall
<1>2. CASE call.op # "list"
  <2>1. call'.op = call.op /\ call'.pc # "answered"
    BY <1>1, <1>2 DEF Calls, NoCall
  <2> QED
    BY <1>1, <1>2, <2>1, WalkAside
<1>3. CASE call.op = "list"
  <2>1. /\ call'.op = "list" /\ call'.page = call.page /\ call'.filter = call.filter
        /\ call'.perPage = call.perPage /\ call'.app = a
        /\ call'.pc = IF a = NoApp THEN "done" ELSE "count"
    <3> DEFINE pc == IF a = NoApp THEN "done" ELSE "count"
    <3>1. call \in [pc : {"auth", "count", "page", "answered", "done"}, op : {"list"},
                    key : Keys, app : Tenant, filter : Filters, perPage : 1..MaxPerPage,
                    page : Nat]
      BY <1>1, <1>3 DEF Calls
    <3>2. call' = [call EXCEPT !.app = a, !.pc = pc]
      BY <1>3
    <3> HIDE DEF pc
    <3>3. /\ call'.op = "list" /\ call'.page = call.page /\ call'.filter = call.filter
          /\ call'.perPage = call.perPage /\ call'.app = a /\ call'.pc = pc
      BY <3>1, <3>2
    <3> QED
      BY <3>3 DEF pc
  <2>2. call.app # NoApp => a = call.app
    BY SameTenant DEF IInv
  <2>3. call.page >= 1 /\ (call.page > 1 => call.app # NoApp)
        /\ call.page \in Nat
    BY <1>3, CoveredType DEF WalkInv, ListInv, IInv
  <2>4. CASE call.page = 1 /\ a = NoApp
    <3>1. call'.page = 1 /\ call'.pc = "done" /\ call.pc # "answered"
      BY <1>1, <2>1, <2>4
    <3> QED
      BY <1>1, <2>1, <2>4, <3>1, WalkAside
  <2>5. CASE call.page = 1 /\ a # NoApp
    <3>1. UNCHANGED <<status, at>>
      BY DEF tables
    <3>2. StoredInv'
      BY <1>1, <3>1 DEF WalkInv, StoredInv
    <3>3. ListInv' /\ PagesInv' /\ NothingSkipped'
      BY <2>1, <2>3, <2>5 DEF ListInv, PagesInv, Walking, NothingSkipped, WalkOver
    <3>4. FirstPageInv'
      BY <1>1, <1>3, <2>5 DEF WalkInv, FirstPageInv
    <3>5. NothingRepeated'
      BY <1>1, <3>1 DEF WalkInv, NothingRepeated, Alone
    <3> QED
      BY <3>2, <3>3, <3>4, <3>5 DEF WalkInv
  <2>6. CASE call.page # 1
    <3>1. a = call.app /\ a # NoApp /\ call.page > 1
      BY <2>2, <2>3, <2>6
    <3>2. Log' = Log /\ at' = at /\ status' = status
      BY <2>1, <3>1, SameLog
    <3>3. Walking /\ Covered' = Covered
      BY <1>1, <1>3, <2>1, <2>6, <3>1 DEF Walking, WalkOver, Covered
    <3>4. StoredInv' /\ NothingRepeated'
      BY <1>1, <3>2 DEF WalkInv, StoredInv, NothingRepeated, Alone
    <3>5. ListInv' /\ FirstPageInv' /\ NothingSkipped'
      BY <2>1, <2>3, <3>1 DEF ListInv, FirstPageInv, NothingSkipped, WalkOver
    <3>6. PagesInv'
      <4>1. Passed' = Passed /\ Again' = Again
        BY <1>1, <3>2, <3>3 DEF Passed, Again
      <4> QED
        BY <1>1, <3>2, <3>3, <4>1 DEF WalkInv, PagesInv
    <3> QED
      BY <3>4, <3>5, <3>6 DEF WalkInv
  <2> QED
    BY <2>4, <2>5, <2>6
<1> QED
  BY <1>2, <1>3

\* A list request moves from one statement to the next.
LEMMA ListMoved ==
    ASSUME ReaderInv, call.pc \in {"count", "page", "answered"}, NEW pc,
           call' = [call EXCEPT !.pc = pc]
    PROVE  /\ call.op = "list"
           /\ call'.op = "list" /\ call'.app = call.app /\ call'.filter = call.filter
           /\ call'.perPage = call.perPage /\ call'.page = call.page /\ call'.pc = pc
  BY IsList

LEMMA WalkCount ==
    ASSUME IInv, WalkInv, UNCHANGED tables, CountAttempts
    PROVE  WalkInv'
<1> DEFINE total == Cardinality(Log)
           pc == IF total = 0 THEN "answered" ELSE "page"
<1>1. /\ call.pc = "count" /\ ReaderInv /\ ListInv /\ TablesInv
      /\ call' = [call EXCEPT !.pc = pc]
      /\ answer' = [answer EXCEPT !.total = total, !.rows = {},
                                  !.pages = TotalPages(total, call.perPage)]
      /\ walk' = [walk EXCEPT !.fresh = 0]
  BY DEF CountAttempts, IInv, WalkInv, Log
<1>2. /\ call.op = "list"
      /\ call'.op = "list" /\ call'.app = call.app /\ call'.filter = call.filter
      /\ call'.perPage = call.perPage /\ call'.page = call.page /\ call'.pc = pc
  BY <1>1, ListMoved
<1>3. /\ answer'.total = total /\ answer'.pages = TotalPages(total, call.perPage)
      /\ walk'.must = walk.must /\ walk'.seen = walk.seen /\ walk'.left = walk.left
      /\ walk'.came = walk.came /\ walk'.fresh = 0
      /\ walk.left \in Nat /\ walk.came \in Nat /\ walk.must \in SUBSET Attempts
      /\ walk.seen \in [Attempts -> Nat]
  BY <1>1 DEF ReaderInv, Answers, Walks
<1>4. Log' = Log /\ at' = at /\ status' = status
  BY <1>2, SameLog
<1>5. Log \in SUBSET Attempts /\ total \in Nat
  BY <1>1, LogTypesOfRows, FiniteRows
<1>6. call.page \in Nat \ {0} /\ call.perPage \in Nat \ {0} /\ call.app # NoApp
  BY <1>1, <1>2, CoveredType DEF ListInv
<1>7. StoredInv' /\ NothingRepeated'
  BY <1>3, <1>4 DEF WalkInv, StoredInv, NothingRepeated, Alone
<1>8. ListInv'
  BY <1>2, <1>3, <1>4, <1>5, <1>6 DEF ListInv
<1>9. call.page = 1 => walk.must = {} /\ \A x \in Attempts : walk.seen[x] = 0
  BY <1>1 DEF WalkInv, FirstPageInv
<1>10. FirstPageInv'
  BY <1>2, <1>3, <1>9 DEF FirstPageInv
<1>11. call.page # 1 => /\ walk.must \subseteq Log
                        /\ Cardinality(Passed) <= walk.left
                        /\ Cardinality(Again) <= walk.came
  BY <1>1, <1>2 DEF WalkInv, PagesInv, Walking, WalkOver
<1>12. NothingSkipped'
  <2> SUFFICES ASSUME WalkOver'
               PROVE  Cardinality({x \in walk'.must : Alone(x)' /\ walk'.seen[x] = 0})
                        <= walk'.left + walk'.fresh
    BY DEF NothingSkipped
  <2>1. Log = {}
    <3>1. total = 0
      BY <1>2 DEF WalkOver
    <3> QED
      BY <1>5, <3>1, FiniteRows, FS_EmptySet, Zenon
  <2>2. {x \in walk'.must : Alone(x)' /\ walk'.seen[x] = 0} = {}
    BY <1>3, <1>9, <1>11, <2>1
  <2>3. Cardinality({x \in walk'.must : Alone(x)' /\ walk'.seen[x] = 0}) = 0
    BY <2>2, EmptyCount
  <2> QED
    BY <1>3, <2>3
<1>13. PagesInv'
  <2> SUFFICES ASSUME Walking'
               PROVE  /\ walk'.must \subseteq Log'
                      /\ Cardinality(Passed') <= walk'.left
                      /\ Cardinality(Again') <= walk'.came
    BY DEF PagesInv
  <2>1. total # 0
    <3> SUFFICES ASSUME total = 0  PROVE FALSE
      OBVIOUS
    <3>1. answer'.pages = 0 /\ call'.pc = "answered"
      <4>1. \A n \in Nat \ {0} : (0 + n - 1) \div n = 0
        BY SMT
      <4> QED
        BY <1>2, <1>3, <1>6, <4>1 DEF TotalPages
    <3> QED
      BY <1>2, <1>6, <3>1 DEF Walking, WalkOver
  <2>2. Covered' = Covered
    BY <1>1, <1>2, <2>1 DEF Covered
  <2>3. Passed' = Passed /\ Again' = Again
    BY <1>3, <1>4, <2>2 DEF Passed, Again
  <2>4. CASE call.page = 1
    <3>1. Passed = {} /\ Again = {}
      BY <1>9, <2>4 DEF Passed, Again
    <3>2. Cardinality(Passed) = 0 /\ Cardinality(Again) = 0
      BY <3>1, EmptyCount
    <3> QED
      BY <1>3, <1>9, <2>3, <2>4, <3>2
  <2>5. CASE call.page # 1
    BY <1>3, <1>4, <1>11, <2>3, <2>5
  <2> QED
    BY <2>4, <2>5
<1> QED
  BY <1>7, <1>8, <1>10, <1>12, <1>13 DEF WalkInv

LEMMA WalkTurn ==
    ASSUME IInv, WalkInv, UNCHANGED tables, TurnPage
    PROVE  WalkInv'
<1>1. /\ call.pc = "answered" /\ ~WalkOver /\ ReaderInv /\ ListInv /\ UNCHANGED <<answer, walk>>
      /\ call' = [call EXCEPT !.page = @ + 1, !.pc = "auth"]
  BY DEF TurnPage, IInv, WalkInv
<1>2. call \in [pc : {"auth", "count", "page", "answered", "done"}, op : {"list"},
                key : Keys, app : Tenant, filter : Filters, perPage : 1..MaxPerPage,
                page : Nat]
  BY <1>1, IsList
<1>3. /\ call.op = "list"
      /\ call'.op = "list" /\ call'.app = call.app /\ call'.filter = call.filter
      /\ call'.perPage = call.perPage /\ call'.page = call.page + 1 /\ call'.pc = "auth"
  BY <1>1, <1>2
<1>4. call.page \in Nat \ {0} /\ call.perPage \in Nat \ {0} /\ call.app # NoApp
  BY <1>1, <1>3, CoveredType DEF ListInv
<1>5. Log' = Log /\ at' = at /\ status' = status
  BY <1>3, SameLog
<1>6. Walking /\ Covered' = Covered
  <2>1. (call.page + 1) - 1 = call.page
    BY <1>4
  <2> QED
    BY <1>1, <1>3, <2>1 DEF Walking, Covered
<1>7. StoredInv' /\ NothingRepeated'
  BY <1>1, <1>5 DEF WalkInv, StoredInv, NothingRepeated, Alone
<1>8. ListInv' /\ FirstPageInv' /\ NothingSkipped'
  BY <1>3, <1>4 DEF ListInv, FirstPageInv, NothingSkipped, WalkOver
<1>9. Passed' = Passed /\ Again' = Again
  BY <1>1, <1>5, <1>6 DEF Passed, Again
<1>10. PagesInv'
  BY <1>1, <1>5, <1>6, <1>9 DEF WalkInv, PagesInv
<1> QED
  BY <1>7, <1>8, <1>10 DEF WalkInv

LEMMA WalkLeave ==
    ASSUME IInv, WalkInv, UNCHANGED tables, Leave
    PROVE  WalkInv'
<1>1. walk' = NoWalk /\ call' = NoCall /\ UNCHANGED <<status, at>>
  BY DEF Leave, tables
<1>2. call'.op # "list" /\ call'.pc # "answered"
  BY <1>1 DEF NoCall
<1>3. \A x \in Attempts : IF status'[x] = "none" THEN at'[x] = 0 ELSE at'[x] >= 1
  BY <1>1 DEF WalkInv, StoredInv
<1>4. walk'.must = {} /\ walk'.came = 0 /\ \A x \in Attempts : walk'.seen[x] = 0
  BY <1>1 DEF NoWalk
<1>5. NothingRepeated'
  <2>1. {x \in Attempts : Alone(x)' /\ walk'.seen[x] > 1} = {}
    BY <1>4
  <2>2. Cardinality({x \in Attempts : Alone(x)' /\ walk'.seen[x] > 1}) = 0
    BY <2>1, EmptyCount
  <2> QED
    BY <1>4, <2>2 DEF NothingRepeated
<1> QED
  BY <1>2, <1>3, <1>4, <1>5
     DEF WalkInv, StoredInv, ListInv, FirstPageInv, PagesInv, Walking, NothingSkipped, WalkOver

LEMMA WalkOthers ==
    ASSUME IInv, WalkInv, UNCHANGED tables,
           ReadAttempts \/ GetEventStats \/ GetDeliveryStats \/ ListByApplication
    PROVE  WalkInv'
<1>1. PICK pc \in {"done", "deliveries", "endpoints"} :
        call' = [call EXCEPT !.pc = pc] /\ UNCHANGED walk
  BY DEF ReadAttempts, GetEventStats, GetDeliveryStats, ListByApplication
<1>2. call.pc \in {"get", "event", "stats", "deliveries", "endpoints"}
  BY DEF ReadAttempts, GetEventStats, GetDeliveryStats, ListByApplication
<1>3. call.op # "list" /\ call'.op = call.op /\ call'.pc # "answered"
  BY <1>1, <1>2 DEF IInv, ReaderInv, Calls, NoCall
<1> QED
  BY <1>1, <1>3, WalkAside

LEMMA WalkFetch ==
    ASSUME IInv, WalkInv, UNCHANGED tables, FetchPage
    PROVE  WalkInv'
<1> DEFINE n == call.perPage
           first == call.page = 1
           must == IF first THEN Log ELSE walk.must
           seen == IF first THEN NoWalk.seen ELSE walk.seen
           left == IF first THEN 0 ELSE walk.left
           came == IF first THEN 0 ELSE walk.came
<1>1. /\ call.pc = "page" /\ ReaderInv /\ ListInv /\ TablesInv /\ walk \in Walks
      /\ call' = [call EXCEPT !.pc = "answered"]
  BY DEF FetchPage, IInv, WalkInv, ReaderInv
<1>2. /\ call.op = "list"
      /\ call'.op = "list" /\ call'.app = call.app /\ call'.filter = call.filter
      /\ call'.perPage = call.perPage /\ call'.page = call.page /\ call'.pc = "answered"
  BY <1>1, ListMoved
<1>3. call.page \in Nat \ {0} /\ n \in Nat \ {0} /\ Covered \in Nat
  BY <1>1, <1>2, CoveredType
<1>4. Covered = Offset(call.page, n) /\ Covered' = Covered + n /\ Covered' = call.page * n
  <2>1. \A p \in Nat, m \in Nat : (p - 1) * m + m = p * m
    BY SMT
  <2>2. Covered = (call.page - 1) * n /\ Covered' = call.page * n
    BY <1>1, <1>2 DEF Covered
  <2> QED
    BY <1>3, <2>1, <2>2 DEF Offset
<1>5. Log' = Log /\ at' = at /\ status' = status
  BY <1>2, SameLog
<1>6. at \in Times /\ Log \in SUBSET Attempts /\ \A x \in Log : status[x] # "none"
  BY <1>1, LogTypesOfRows
<1>7. PICK page \in PagesOf(Log, Offset(call.page, n), n) :
        LET before == IF first THEN [NoWalk EXCEPT !.must = Log, !.fresh = walk.fresh] ELSE walk
        IN  /\ answer' = [answer EXCEPT !.rows = page]
            /\ walk' = [before EXCEPT
                  !.seen = [x \in Attempts |->
                     IF x \in page /\ @[x] < 2 THEN @[x] + 1 ELSE @[x]]]
  BY DEF FetchPage, Log
<1>8. /\ page \in SUBSET Log
      /\ \A x \in Log : Lone(at, x) =>
           (x \in page <=> Covered <= Rank(Log, at, x) /\ Rank(Log, at, x) < Covered')
  <2>1. page \in PagesOf(Log, Covered, n)
    BY <1>4
  <2>2. n \in Nat
    BY <1>3
  <2> HIDE DEF n
  <2>3. /\ page \in SUBSET Log
        /\ \A x \in Log : Lone(at, x) =>
             (x \in page <=> Covered <= Rank(Log, at, x) /\ Rank(Log, at, x) < Covered + n)
    BY <1>3, <1>6, <2>1, <2>2, PageHolds
  <2> QED
    BY <1>4, <2>3
<1>9. answer'.total = answer.total /\ answer'.pages = answer.pages
  BY <1>1, <1>7 DEF ReaderInv, Answers
<1>10. /\ walk'.must = must /\ walk'.left = left /\ walk'.came = came
       /\ walk'.fresh = walk.fresh
       /\ walk'.seen = [x \in Attempts |-> IF x \in page /\ seen[x] < 2 THEN seen[x] + 1
                                           ELSE seen[x]]
  <2>1. CASE first
    BY <1>7, <2>1 DEF NoWalk
  <2>2. CASE ~first
    BY <1>1, <1>7, <2>2 DEF Walks
  <2> QED
    BY <2>1, <2>2
<1>11. /\ must \in SUBSET Log /\ left \in Nat /\ came \in Nat /\ walk.fresh \in Nat
       /\ seen \in [Attempts -> Nat]
       /\ ~first => Cardinality(Passed) <= left /\ Cardinality(Again) <= came
  <2>1. Walking
    BY <1>1, <1>2 DEF Walking, WalkOver
  <2>2. walk.must \subseteq Log /\ Cardinality(Passed) <= walk.left
        /\ Cardinality(Again) <= walk.came
    BY <2>1 DEF WalkInv, PagesInv
  <2> QED
    BY <1>1, <2>2 DEF Walks, NoWalk
<1>12. first => Covered = 0 /\ \A x \in Attempts : seen[x] = 0
  BY <1>3, <1>4 DEF Offset, NoWalk
<1>13. ~first => must = walk.must /\ seen = walk.seen
  OBVIOUS
<1> HIDE DEF must, seen, left, came, n, first
<1>14. \A x \in Attempts : /\ x \in page /\ seen[x] = 0 => walk'.seen[x] = 1
                           /\ x \in page /\ seen[x] = 1 => walk'.seen[x] = 2
                           /\ x \in page /\ seen[x] > 1 => walk'.seen[x] > 1
                           /\ x \notin page => walk'.seen[x] = seen[x]
                           /\ seen[x] \in Nat
  BY <1>10, <1>11
<1>15. \A x \in Log : Rank(Log, at, x) \in Nat
  BY <1>6, RankType
<1>16. Covered' \in Nat /\ Covered < Covered'
  BY <1>3, <1>4
<1>17. Passed' \subseteq Log /\ \A x \in Passed' : ~first /\ x \in Passed
  <2> SUFFICES ASSUME NEW x \in Passed'  PROVE x \in Log /\ ~first /\ x \in Passed
    OBVIOUS
  <2>1. x \in must /\ Lone(at, x) /\ walk'.seen[x] = 0 /\ Rank(Log, at, x) < Covered'
    BY <1>5, <1>10 DEF Passed
  <2>2. x \in Log /\ x \in Attempts
    BY <1>6, <1>11, <2>1
  <2>3. x \notin page /\ seen[x] = 0
    BY <1>14, <2>1, <2>2
  <2>4. Rank(Log, at, x) < Covered
    BY <1>3, <1>8, <1>15, <2>1, <2>2, <2>3
  <2>5. ~first
    BY <1>12, <1>15, <2>2, <2>4
  <2> QED
    BY <1>13, <2>1, <2>2, <2>3, <2>4, <2>5 DEF Passed
<1>18. \A x \in Again' : ~first /\ x \in Again
  <2> TAKE x \in Again'
  <2>1. /\ x \in Attempts /\ Lone(at, x)
        /\ \/ walk'.seen[x] > 1
           \/ walk'.seen[x] = 1 /\ x \in Log /\ Rank(Log, at, x) >= Covered'
    BY <1>5 DEF Again
  <2>2. \/ seen[x] > 1
        \/ seen[x] = 1 /\ x \in Log /\ Rank(Log, at, x) >= Covered
    <3>1. CASE x \in page
      <4>1. x \in Log /\ Covered <= Rank(Log, at, x) /\ Rank(Log, at, x) < Covered'
        BY <1>8, <2>1, <3>1
      <4>2. walk'.seen[x] > 1
        BY <1>15, <1>16, <2>1, <4>1
      <4>3. seen[x] # 0
        BY <1>14, <2>1, <3>1, <4>2
      <4>4. seen[x] \in Nat
        BY <1>14, <2>1
      <4>5. seen[x] = 1 \/ seen[x] > 1
        BY <4>3, <4>4
      <4> QED
        BY <1>3, <1>15, <4>1, <4>5
    <3>2. CASE x \notin page
      <4>1. walk'.seen[x] = seen[x]
        BY <1>14, <2>1, <3>2
      <4> QED
        BY <1>3, <1>15, <1>16, <2>1, <4>1
    <3> QED
      BY <3>1, <3>2
  <2>3. ~first
    BY <1>12, <2>1, <2>2
  <2> QED
    BY <1>13, <2>1, <2>2, <2>3 DEF Again
<1>19. Cardinality(Passed') <= left
  <2>1. CASE first
    <3>1. Cardinality(Passed') = 0
      BY <1>17, <2>1, EmptyCount
    <3> QED
      BY <1>11, <3>1
  <2>2. CASE ~first
    <3>1. Passed' \in SUBSET Passed /\ Passed \in SUBSET Attempts
      BY <1>1, <1>17 DEF Passed, Walks
    <3>2. Cardinality(Passed') <= Cardinality(Passed) /\ Cardinality(Passed) \in Nat
          /\ Cardinality(Passed') \in Nat
      <4>1. Passed' \in SUBSET Attempts
        BY <3>1
      <4> QED
        BY <3>1, <4>1, FewerRows, FiniteRows
    <3> QED
      BY <1>11, <2>2, <3>2
  <2> QED
    BY <2>1, <2>2
<1>20. Cardinality(Again') <= came
  <2>1. CASE first
    <3>1. Cardinality(Again') = 0
      BY <1>18, <2>1, EmptyCount
    <3> QED
      BY <1>11, <3>1
  <2>2. CASE ~first
    <3>1. Again' \in SUBSET Again /\ Again \in SUBSET Attempts /\ Again' \in SUBSET Attempts
      BY <1>18 DEF Again
    <3>2. Cardinality(Again') <= Cardinality(Again) /\ Cardinality(Again) \in Nat
          /\ Cardinality(Again') \in Nat
      BY <3>1, FewerRows, FiniteRows
    <3> QED
      BY <1>11, <2>2, <3>2
  <2> QED
    BY <2>1, <2>2
<1>21. StoredInv'
  <2> SUFFICES ASSUME NEW x \in Attempts
               PROVE  /\ IF status[x] = "none" THEN at[x] = 0 ELSE at[x] >= 1
                      /\ x \in must \/ walk'.seen[x] > 0 => status[x] # "none"
    BY <1>5, <1>10 DEF StoredInv
  <2>1. CASE x \in Log
    BY <1>6, <2>1 DEF WalkInv, StoredInv
  <2>2. CASE x \notin Log
    <3>1. x \notin must /\ walk'.seen[x] = seen[x]
      BY <1>8, <1>11, <1>14, <2>2
    <3>2. seen[x] > 0 => walk.seen[x] > 0
      BY <1>12, <1>13
    <3> QED
      BY <3>1, <3>2 DEF WalkInv, StoredInv
  <2> QED
    BY <2>1, <2>2
<1>22. ListInv' /\ FirstPageInv'
  BY <1>1, <1>2, <1>9 DEF ListInv, FirstPageInv
<1>23. PagesInv'
  BY <1>5, <1>10, <1>11, <1>19, <1>20 DEF PagesInv
<1>24. NothingRepeated'
  <2> DEFINE T == {x \in Attempts : Alone(x)' /\ walk'.seen[x] > 1}
  <2>1. T \in SUBSET Again' /\ T \in SUBSET Attempts /\ Again' \in SUBSET Attempts
    BY <1>5 DEF Again, Alone, Lone
  <2> HIDE DEF T
  <2>2. Cardinality(T) <= Cardinality(Again') /\ Cardinality(T) \in Nat
        /\ Cardinality(Again') \in Nat
    BY <2>1, FewerRows, FiniteRows
  <2>3. Cardinality(T) <= walk'.came
    BY <1>10, <1>11, <1>20, <2>2
  <2> QED
    BY <2>3 DEF NothingRepeated, T
<1>25. NothingSkipped'
  <2> SUFFICES ASSUME WalkOver'
               PROVE  Cardinality({x \in walk'.must : Alone(x)' /\ walk'.seen[x] = 0})
                        <= walk'.left + walk'.fresh
    BY DEF NothingSkipped
  <2> DEFINE S == {x \in walk'.must : Alone(x)' /\ walk'.seen[x] = 0}
             late == {x \in S : Covered' <= Rank(Log, at, x)}
             size == Cardinality(Log)
  <2>1. answer.total <= Covered' /\ answer.total \in Nat
    <3>1. call.page >= TotalPages(answer.total, n)
      BY <1>1, <1>2, <1>9 DEF WalkOver, ListInv, n
    <3>2. answer.total \in Nat
      BY <1>1 DEF ReaderInv, Answers
    <3> QED
      BY <1>3, <1>4, <3>1, <3>2, PagesSuffice
  <2>2. size <= answer.total + walk.fresh /\ size \in Nat
    BY <1>1, <1>2, <1>6, FiniteRows DEF ListInv
  <2>3. S \in SUBSET Log /\ late \in SUBSET S /\ \A x \in S : Lone(at, x)
    BY <1>5, <1>10, <1>11 DEF Alone, Lone
  <2>4. S \in SUBSET (Passed' \cup late)
    <3> SUFFICES ASSUME NEW x \in S, x \notin late  PROVE x \in Passed'
      OBVIOUS
    <3>1. Rank(Log, at, x) < Covered'
      BY <1>15, <1>16, <2>3
    <3> QED
      BY <1>5, <2>3, <3>1 DEF Passed
  <2>5. \A x \in late : Lone(at, x) /\ Covered' <= Rank(Log, at, x) /\ Rank(Log, at, x) < size
    BY <1>6, <2>3, RankType
  <2> HIDE DEF S, late, size
  <2>6. Cardinality(late) <= walk.fresh
    <3> DEFINE a == Covered'
    <3>1. late \in SUBSET Log /\ a \in Nat
      BY <1>16, <2>3
    <3>2. \A x \in late : Lone(at, x) /\ a <= Rank(Log, at, x) /\ Rank(Log, at, x) < size
      BY <2>5
    <3>3. answer.total <= a
      BY <2>1
    <3> HIDE DEF a
    <3>4. /\ a <= size => Cardinality(late) <= size - a
          /\ size <= a => late = {}
      BY <1>6, <2>2, <3>1, <3>2, LonePlaces
    <3>5. late = {} => Cardinality(late) = 0
      BY EmptyCount
    <3>6. late \in SUBSET Attempts
      BY <1>6, <3>1
    <3>7. Cardinality(late) \in Nat
      BY <3>6, FiniteRows
    <3> QED
      BY <1>11, <2>1, <2>2, <3>1, <3>3, <3>4, <3>5, <3>7
  <2>7. /\ Passed' \in SUBSET Attempts /\ late \in SUBSET Attempts
        /\ Passed' \cup late \in SUBSET Attempts /\ S \in SUBSET Attempts
    BY <1>6, <1>17, <2>3
  <2>8. Cardinality(S) <= Cardinality(Passed' \cup late)
        /\ Cardinality(Passed' \cup late) <= Cardinality(Passed') + Cardinality(late)
    BY <2>4, <2>7, FewerRows, RowsApart
  <2>9. /\ Cardinality(S) \in Nat /\ Cardinality(Passed' \cup late) \in Nat
        /\ Cardinality(Passed') \in Nat /\ Cardinality(late) \in Nat
    BY <2>7, FiniteRows
  <2>10. Cardinality(S) <= walk'.left + walk'.fresh
    BY <1>10, <1>11, <1>19, <2>6, <2>8, <2>9
  <2> QED
    BY <2>10 DEF S
<1> QED
  BY <1>21, <1>22, <1>23, <1>24, <1>25 DEF WalkInv

LEMMA WalkInit ==
    ASSUME Init
    PROVE  WalkInv
<1>1. walk = NoWalk /\ call.op # "list" /\ call.pc # "answered"
  BY DEF Init, NoCall
<1>2. \A x \in Attempts : status[x] = "none" /\ at[x] = 0
  BY DEF Init
<1>3. walk.must = {} /\ walk.came = 0 /\ \A x \in Attempts : walk.seen[x] = 0
  BY <1>1 DEF NoWalk
<1>4. NothingRepeated
  <2>1. {x \in Attempts : Alone(x) /\ walk.seen[x] > 1} = {}
    BY <1>3
  <2>2. Cardinality({x \in Attempts : Alone(x) /\ walk.seen[x] > 1}) = 0
    BY <2>1, EmptyCount
  <2> QED
    BY <1>3, <2>2 DEF NothingRepeated
<1> QED
  BY <1>1, <1>2, <1>3, <1>4
     DEF WalkInv, StoredInv, ListInv, FirstPageInv, PagesInv, Walking, NothingSkipped, WalkOver

-----------------------------------------------------------------------------
(* The theorems                                                            *)

LEMMA WriteKept ==
    ASSUME IInv, Write, UNCHANGED <<call, answer>>, Observe
    PROVE  IInv'
<1>1. TablesInv'  BY WriteTables DEF IInv
<1>2. KeyInv' /\ \A a \in Apps : Exists(a) => keyOf'[a] = keyOf[a]
  BY WriteKeys DEF IInv
<1>3. ReaderInv'  BY ObserveKept DEF IInv, ReaderInv
<1>4. CallInv'
  <2>1. ASSUME call.app # NoApp  PROVE keyOf'[call.app] = call.key
    <3>1. call.app \in Apps /\ call.key \in Keys /\ keyOf[call.app] = call.key
      BY <2>1, Known DEF IInv, CallInv
    <3> QED  BY <1>2, <3>1, ApplicationsAssumption DEF Exists
  <2> QED  BY <2>1 DEF CallInv
<1>5. OwnRowsOnly' /\ StatsAddUp'  BY DEF IInv, OwnRowsOnly, StatsAddUp
<1> QED  BY <1>1, <1>2, <1>3, <1>4, <1>5 DEF IInv

LEMMA LogInit == Init => IInv
<1> SUFFICES ASSUME Init  PROVE IInv  OBVIOUS
<1>1. call = NoCall /\ answer = NoAnswer /\ walk = NoWalk  BY DEF Init
<1>2. TablesInv
  <2>1. 0 \in 0..MaxTime  BY LogAssumption
  <2> QED  BY <2>1 DEF Init, InitApplications, TablesInv
<1>3. ReaderInv
  <2>1. NoCall \in Calls  BY DEF Calls
  <2> QED  BY <1>1, <2>1, NothingAnswered, NothingWalked DEF ReaderInv
<1>4. KeyInv  BY DEF Init, InitApplications, KeyInv, Exists
<1>5. CallInv  BY <1>1 DEF CallInv, NoCall
<1>6. OwnRowsOnly /\ StatsAddUp  BY <1>1, NothingAnswered DEF OwnRowsOnly
<1> QED  BY <1>2, <1>3, <1>4, <1>5, <1>6 DEF IInv

LEMMA LogStep == IInv /\ [Next]_vars => IInv'
<1> SUFFICES ASSUME IInv, [Next]_vars  PROVE IInv'  OBVIOUS
<1>1. CASE Write /\ UNCHANGED <<call, answer>> /\ Observe  BY <1>1, WriteKept
<1>2. CASE Read /\ UNCHANGED tables
  BY <1>2, RequestKept, AuthenticateKept, CountKept, FetchKept, TurnKept, ReadAttemptsKept,
     EventStatsKept, DeliveryStatsKept, EndpointStatsKept, LeaveKept
     DEF Read
<1>3. CASE UNCHANGED vars
  <2>1. UNCHANGED <<tables, call, answer, walk>>  BY <1>3 DEF vars
  <2>2. StatsAddUp'  BY <2>1 DEF IInv, StatsAddUp
  <2> QED  BY <2>1, <2>2, ReaderKept DEF IInv, ReaderInv, OwnRowsOnly
<1> QED  BY <1>1, <1>2, <1>3 DEF Next

\* The inductive invariant.
THEOREM LogInvariant == Spec => []IInv
  BY LogInit, LogStep, PTL DEF Spec

\* Tables, requests and answers keep their shape, and no page asked of the
\* database is empty or larger than the largest, whatever size callers send.
THEOREM LogTypes == Spec => []TypeOK
<1>1. IInv => TypeOK
  <2> SUFFICES ASSUME IInv  PROVE TypeOK  OBVIOUS
  <2>1. call.app \in Apps \cup {NoApp}
        /\ (call.op = "list" => call.filter \in Filters /\ call.perPage \in 1..MaxPerPage)
    BY DEF IInv, ReaderInv, Calls, NoCall, Tenant
  <2>2. answer.rows \subseteq Attempts /\ walk.must \subseteq Attempts
    BY DEF IInv, ReaderInv, Answers, Walks
  <2> QED  BY <2>1, <2>2 DEF IInv, TablesInv, TypeOK
<1> QED  BY <1>1, LogInvariant, PTL

\* No page, attempt or list of attempts ever shows a row of another application.
THEOREM LogOwnRows == Spec => []OwnRowsOnly
<1>1. IInv => OwnRowsOnly  BY DEF IInv
<1> QED  BY <1>1, LogInvariant, PTL

\* Whatever is stored and moves while the three statements run, the numbers of
\* each of them fit together.
THEOREM LogStats == Spec => []StatsAddUp
<1>1. IInv => StatsAddUp  BY DEF IInv
<1> QED  BY <1>1, LogInvariant, PTL

LEMMA WalkStep ==
    ASSUME IInv, IInv', WalkInv, [Next]_vars
    PROVE  WalkInv'
<1>1. CASE Write /\ UNCHANGED <<call, answer>> /\ Observe
  BY <1>1, WalkWrite
<1>2. CASE Read /\ UNCHANGED tables
  BY <1>2, WalkRequest, WalkAuthenticate, WalkCount, WalkFetch, WalkTurn, WalkOthers, WalkLeave
     DEF Read
<1>3. CASE UNCHANGED vars
  <2>1. UNCHANGED <<tables, status, at, call, answer, walk>>
    BY <1>3 DEF vars, tables
  <2>2. Log' = Log /\ Covered' = Covered /\ Walking' = Walking /\ WalkOver' = WalkOver
    BY <2>1, SameLog DEF Covered, Walking, WalkOver
  <2>3. Passed' = Passed /\ Again' = Again
    BY <2>1, <2>2 DEF Passed, Again
  <2>4. StoredInv' /\ ListInv' /\ FirstPageInv' /\ PagesInv'
    BY <2>1, <2>2, <2>3 DEF WalkInv, StoredInv, ListInv, FirstPageInv, PagesInv
  <2>5. NothingSkipped' /\ NothingRepeated'
    BY <2>1, <2>2 DEF WalkInv, NothingSkipped, NothingRepeated, Alone
  <2> QED
    BY <2>4, <2>5 DEF WalkInv
<1> QED
  BY <1>1, <1>2, <1>3 DEF Next

LEMMA WalkHolds == Spec => []WalkInv
<1>1. Init => WalkInv
  BY WalkInit
<1>2. IInv /\ IInv' /\ WalkInv /\ [Next]_vars => WalkInv'
  BY WalkStep
<1> QED
  BY <1>1, <1>2, LogInvariant, PTL DEF Spec

\* Whoever follows the pages to the end has seen every attempt that was in the log
\* all along, but for one for each row that left it meanwhile and each that came
\* between the last count and its page, however many rows and pages there are.
THEOREM LogNothingSkipped == Spec => []NothingSkipped
<1>1. WalkInv => NothingSkipped
  BY DEF WalkInv
<1> QED
  BY <1>1, WalkHolds, PTL

\* The pages of one walk show no more attempts twice than rows came while it lasted.
THEOREM LogNothingRepeated == Spec => []NothingRepeated
<1>1. WalkInv => NothingRepeated
  BY DEF WalkInv
<1> QED
  BY <1>1, WalkHolds, PTL
=============================================================================
