----------------------------- MODULE RateLimiter -----------------------------
(***************************************************************************)
(* The token bucket of one endpoint and the workers that take tokens from  *)
(* it.  The registry (sync.Map), the bucket (x/time/rate) and the sleeping *)
(* are each safe on their own; here is what the workers make of them: a    *)
(* bucket is looked up and perhaps made, compared with the rate that the   *)
(* task carries, retuned in two calls, and only then asked for a token.    *)
(*                                                                         *)
(* Time is in ticks.  Tokens are counted in parts of 1/Second, so that a   *)
(* bucket of limit n gains n parts in a tick.  What a worker does between  *)
(* taking a task and going to sleep takes no time on this scale.           *)
(***************************************************************************)
EXTENDS Integers, Sequences, FiniteSets

CONSTANTS
    Workers,     \* the pool of one process: every process has its own registry
    NoWorker,
    Rates,       \* rate_limit of the endpoint: the service takes 1..1000
    Second,      \* a second in ticks
    MaxWait,     \* the 10 s of a worker's patience in ticks
    MaxPatches   \* bound: changes of the rate

ASSUME LimiterAssumption ==
    /\ IsFiniteSet(Workers) /\ NoWorker \notin Workers
    /\ Rates \subseteq Nat \ {0} /\ Rates # {}
    /\ Second \in Nat \ {0}
    /\ MaxWait \in Nat
    /\ MaxPatches \in Nat

VARIABLES
    rates,     \* the values rate_limit has had, the current one last
    highest,   \* history: the highest of them
    taken,     \* which of them the last task taken from the queue carries
    registry,  \* limiters: the worker that made the stored bucket
    bucket,    \* the bucket each worker made: limit, burst and level
    pc,        \* where each worker is
    rate,      \* task.RateLimit of its task
    mine,      \* the bucket it found, by its maker
    until,     \* ticks it still has to sleep
    meter,     \* history: how far the sends are ahead of the highest rate so far
    gaveUp,    \* history: a wait was refused
    crossed    \* history: two retunes for different rates overlapped

vars == <<rates, highest, taken, registry, bucket, pc, rate, mine, until, meter, gaveUp, crossed>>

Lesser(m, n) == IF m <= n THEN m ELSE n
Greater(m, n) == IF m >= n THEN m ELSE n

Current == rates[Len(rates)]

Goto(w, label) == pc' = [pc EXCEPT ![w] = label]

\* rate.NewLimiter(limit, burst): full.
NewLimiter(r) == [limit |-> r, burst |-> r, level |-> r * Second]

\* advance: no more than burst tokens are kept.  SetLimit, SetBurst and reserve
\* all begin with it.
Advance(b) == [b EXCEPT !.level = Lesser(@, b.burst * Second)]

\* A PATCH of the endpoint; tasks that were claimed before carry the old rate.
PatchRate(r) ==
    /\ Len(rates) <= MaxPatches
    /\ r # Current
    /\ rates' = Append(rates, r)
    /\ highest' = Greater(highest, r)
    /\ UNCHANGED <<taken, registry, bucket, pc, rate, mine, until, meter, gaveUp, crossed>>

\* A worker takes the next task of this endpoint.  The queue keeps the order of
\* the claims, so a task is never of an older rate than the one before it.
TakeTask(w) ==
    /\ pc[w] = "idle"
    /\ \E i \in taken..Len(rates) :
         /\ taken' = i
         /\ rate' = [rate EXCEPT ![w] = rates[i]]
    /\ Goto(w, "load")
    /\ UNCHANGED <<rates, highest, registry, bucket, mine, until, meter, gaveUp, crossed>>

\* The fast path: the bucket is there.
Load(w) ==
    /\ pc[w] = "load"
    /\ mine' = [mine EXCEPT ![w] = registry]
    /\ Goto(w, IF registry = NoWorker THEN "store" ELSE "check")
    /\ UNCHANGED <<rates, highest, taken, registry, bucket, rate, until, meter, gaveUp, crossed>>

\* Mutant: Store instead of LoadOrStore.
StoreAnyway(w) ==
    /\ registry' = w
    /\ bucket' = [bucket EXCEPT ![w] = NewLimiter(rate[w])]
    /\ mine' = [mine EXCEPT ![w] = w]

\* LoadOrStore: the first one's bucket is everybody's.
StoreOrLoad(w) ==
    IF registry = NoWorker
    THEN /\ registry' = w
         /\ bucket' = [bucket EXCEPT ![w] = NewLimiter(rate[w])]
         /\ mine' = [mine EXCEPT ![w] = w]
    ELSE /\ mine' = [mine EXCEPT ![w] = registry]
         /\ UNCHANGED <<registry, bucket>>

LoadOrStore(w) ==
    /\ pc[w] = "store"
    /\ StoreOrLoad(w)
    /\ Goto(w, "check")
    /\ UNCHANGED <<rates, highest, taken, rate, until, meter, gaveUp, crossed>>

\* limiter.Limit() != targetLimit; the burst is not looked at.
CompareLimit(w) ==
    /\ pc[w] = "check"
    /\ Goto(w, IF bucket[mine[w]].limit # rate[w] THEN "limit" ELSE "reserve")
    /\ UNCHANGED <<rates, highest, taken, registry, bucket, rate, mine, until, meter, gaveUp, crossed>>

SetLimit(w) ==
    /\ pc[w] = "limit"
    /\ bucket' = [bucket EXCEPT ![mine[w]] = [Advance(@) EXCEPT !.limit = rate[w]]]
    /\ crossed' = (crossed \/ \E o \in Workers : pc[o] = "burst" /\ rate[o] # rate[w])
    /\ Goto(w, "burst")
    /\ UNCHANGED <<rates, highest, taken, registry, rate, mine, until, meter, gaveUp>>

\* Mutant: only the limit is adjusted.
RetunedLimitOnly(b, r) == Advance(b)

Retuned(b, r) == [Advance(b) EXCEPT !.burst = r]

SetBurst(w) ==
    /\ pc[w] = "burst"
    /\ bucket' = [bucket EXCEPT ![mine[w]] = Retuned(@, rate[w])]
    /\ Goto(w, "reserve")
    /\ UNCHANGED <<rates, highest, taken, registry, rate, mine, until, meter, gaveUp, crossed>>

\* Mutant: the limit is taken for the seconds between two tokens.
DelayInverted(level, limit) == IF level >= 0 THEN 0 ELSE (0 - level) * limit

\* Until the tokens that are missing have been gained, in whole ticks.
Delay(level, limit) == IF level >= 0 THEN 0 ELSE ((0 - level) + limit - 1) \div limit

\* Mutant: the wait has no deadline.
WaitForever(delay) == TRUE

\* waitCtx: the token comes before the 10 s are over.
InTime(delay) == delay <= MaxWait

\* reserveN with the deadline: the token is taken now, ahead of time if need be,
\* or not at all if that would take too long.
Reserve(w) ==
    /\ pc[w] = "reserve"
    /\ LET b == Advance(bucket[mine[w]])
           left == b.level - Second
           delay == Delay(left, b.limit)
       IN  \/ /\ InTime(delay)
              /\ bucket' = [bucket EXCEPT ![mine[w]] = [b EXCEPT !.level = left]]
              /\ until' = [until EXCEPT ![w] = delay]
              /\ Goto(w, IF delay = 0 THEN "idle" ELSE "sleep")
              /\ meter' = IF delay = 0 THEN meter + Second ELSE meter
              /\ UNCHANGED gaveUp
           \/ /\ ~InTime(delay)
              /\ gaveUp' = TRUE
              /\ Goto(w, "idle")
              /\ UNCHANGED <<bucket, until, meter>>
    /\ UNCHANGED <<rates, highest, taken, registry, rate, mine, crossed>>

\* A tick: buckets fill, sleepers come nearer to their send, and the pace of the
\* highest rate so far catches up with the sends.
Due == {w \in Workers : pc[w] = "sleep" /\ until[w] = 1}

Tick ==
    /\ \A w \in Workers : pc[w] \in {"idle", "sleep"}
    /\ bucket' = [o \in Workers |->
                    Advance([bucket[o] EXCEPT !.level = @ + bucket[o].limit])]
    /\ until' = [w \in Workers |-> IF pc[w] = "sleep" THEN until[w] - 1 ELSE until[w]]
    /\ pc' = [w \in Workers |-> IF w \in Due THEN "idle" ELSE pc[w]]
    /\ meter' = Greater(meter - highest, 0) + Second * Cardinality(Due)
    /\ UNCHANGED <<rates, highest, taken, registry, rate, mine, gaveUp, crossed>>

NoBucket == [limit |-> 0, burst |-> 0, level |-> 0]

Init ==
    /\ \E r \in Rates : rates = <<r>> /\ highest = r
    /\ taken = 1
    /\ registry = NoWorker
    /\ bucket = [w \in Workers |-> NoBucket]
    /\ pc = [w \in Workers |-> "idle"]
    /\ rate = [w \in Workers |-> 0]
    /\ mine = [w \in Workers |-> NoWorker]
    /\ until = [w \in Workers |-> 0]
    /\ meter = 0
    /\ gaveUp = FALSE
    /\ crossed = FALSE

WorkerStep(w) ==
    \/ TakeTask(w)
    \/ Load(w) \/ LoadOrStore(w)
    \/ CompareLimit(w) \/ SetLimit(w) \/ SetBurst(w)
    \/ Reserve(w)

Next ==
    \/ \E w \in Workers : WorkerStep(w)
    \/ \E r \in Rates : PatchRate(r)
    \/ Tick

Spec == Init /\ [][Next]_vars

-----------------------------------------------------------------------------
(* Properties                                                              *)

Labels == {"idle", "load", "store", "check", "limit", "burst", "reserve", "sleep"}

\* Every variable has the shape the code gives it.
TypeOK ==
    /\ rates \in Seq(Rates) /\ taken \in DOMAIN rates /\ highest \in Rates
    /\ registry \in Workers \cup {NoWorker}
    /\ bucket \in [Workers -> [limit : Rates \cup {0}, burst : Rates \cup {0}, level : Int]]
    /\ pc \in [Workers -> Labels]
    /\ rate \in [Workers -> Rates \cup {0}]
    /\ mine \in [Workers -> Workers \cup {NoWorker}]
    /\ until \in [Workers -> 0..MaxWait]
    /\ meter \in Nat
    /\ gaveUp \in BOOLEAN /\ crossed \in BOOLEAN

\* The endpoint is never sent more than its rate and one burst allow: in any
\* stretch of d ticks at most R + R * d / Second, however many workers find no
\* bucket at once, compare it or sleep.  If the rate was changed, R is the highest
\* it has had, and each worker but one may be early by the token it took before.
Paced ==
    LET early == IF Len(rates) = 1 THEN 0 ELSE Cardinality(Workers) - 1
    IN  meter <= (highest + early) * Second

\* Limit and burst of the bucket belong to one rate unless a worker is between
\* the two calls, or two workers with different rates have been there at once:
\* then they may differ for good, as only the limit is compared.
LimitMatchesBurst ==
    /\ registry # NoWorker
    /\ ~crossed
    /\ \A w \in Workers : pc[w] # "burst"
    => bucket[registry].limit = bucket[registry].burst

\* With the rate left alone, no task is failed for waiting too long unless the
\* pool has more workers than the rate serves within their patience.
NobodyGivesUp ==
    Len(rates) = 1 /\ Cardinality(Workers) * Second < MaxWait * rates[1] => ~gaveUp
=============================================================================
