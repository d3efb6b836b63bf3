-------------------------- MODULE RateLimiterProofs --------------------------
(***************************************************************************)
(* The registry hands every worker the same bucket, and unless two retunes *)
(* for different rates overlap, its limit and its burst stay together.     *)
(* The sends keep the pace because each is paid for with a token, and the  *)
(* tokens come no faster than those of a bucket of the highest rate.       *)
(***************************************************************************)
EXTENDS RateLimiter, FiniteSetTheorems, TLAPS

Holding == {"check", "limit", "burst", "reserve"}

\* Whoever is past the lookup holds the stored bucket, and its limit is a rate.
OneBucket ==
    /\ \A w \in Workers :
          /\ pc[w] \in Holding => mine[w] = registry /\ registry \in Workers
          /\ pc[w] \notin {"idle", "sleep"} => rate[w] \in Rates
          /\ pc[w] = "sleep" => until[w] \in 1..MaxWait
    /\ registry \in Workers => bucket[registry].limit \in Rates

\* Between the calls of a retune that nobody crossed, the limit is its rate.
RetuneAlone ==
    ~crossed => \A w \in Workers : pc[w] = "burst" => bucket[registry].limit = rate[w]

IInv == TypeOK /\ OneBucket /\ RetuneAlone /\ LimitMatchesBurst

Bucket == [limit : Rates \cup {0}, burst : Rates \cup {0}, level : Int]

LEMMA InitInv == Init => IInv
<1> SUFFICES ASSUME Init PROVE IInv
  OBVIOUS
<1>1. TypeOK
  <2> PICK r \in Rates : rates = <<r>> /\ highest = r
    BY DEF Init
  <2>1. rates \in Seq(Rates) /\ taken \in DOMAIN rates /\ highest \in Rates
    BY DEF Init
  <2>2. NoBucket \in Bucket
    BY DEF NoBucket, Bucket
  <2>3. bucket \in [Workers -> Bucket]
    BY <2>2 DEF Init
  <2>4. /\ registry \in Workers \cup {NoWorker} /\ pc \in [Workers -> Labels]
        /\ rate \in [Workers -> Rates \cup {0}]
        /\ mine \in [Workers -> Workers \cup {NoWorker}]
        /\ until \in [Workers -> 0..MaxWait]
        /\ meter \in Nat /\ gaveUp \in BOOLEAN /\ crossed \in BOOLEAN
    <3>1. pc \in [Workers -> Labels]
      BY DEF Init, Labels
    <3>2. until \in [Workers -> 0..MaxWait] /\ meter \in Nat
      BY LimiterAssumption DEF Init
    <3>3. /\ registry \in Workers \cup {NoWorker}
          /\ rate \in [Workers -> Rates \cup {0}]
          /\ mine \in [Workers -> Workers \cup {NoWorker}]
      BY DEF Init
    <3>4. gaveUp \in BOOLEAN /\ crossed \in BOOLEAN
      BY DEF Init
    <3> QED
      BY <3>1, <3>2, <3>3, <3>4
  <2> QED
    BY <2>1, <2>3, <2>4 DEF TypeOK, Bucket
<1>2. OneBucket /\ RetuneAlone /\ LimitMatchesBurst
  BY LimiterAssumption DEF Init, OneBucket, RetuneAlone, LimitMatchesBurst, Holding
<1> QED
  BY <1>1, <1>2 DEF IInv

\* What the calls of x/time/rate make of a bucket.
LEMMA BucketCalls ==
    ASSUME NEW b \in Bucket, NEW r \in Rates
    PROVE  /\ Advance(b) \in Bucket
           /\ Advance(b).limit = b.limit /\ Advance(b).burst = b.burst
           /\ Retuned(b, r) \in Bucket
           /\ Retuned(b, r).limit = b.limit /\ Retuned(b, r).burst = r
           /\ [Advance(b) EXCEPT !.limit = r] \in Bucket
           /\ [Advance(b) EXCEPT !.limit = r].limit = r
           /\ NewLimiter(r) \in Bucket
           /\ NewLimiter(r).limit = r /\ NewLimiter(r).burst = r
<1>1. b.burst * Second \in Int /\ b.level \in Int /\ r * Second \in Int
  <2>1. b.burst \in Int /\ b.level \in Int /\ r \in Int /\ Second \in Int
    <3>1. b.burst \in Rates \cup {0} /\ b.level \in Int
      BY DEF Bucket
    <3>2. \A q \in Rates : q \in Int
      BY LimiterAssumption
    <3>3. Second \in Int
      BY LimiterAssumption
    <3> QED
      BY <3>1, <3>2, <3>3
  <2>2. ASSUME NEW m \in Int, NEW n \in Int PROVE m * n \in Int
    OBVIOUS
  <2> QED
    BY <2>1, <2>2
<1>2. Lesser(b.level, b.burst * Second) \in Int
  BY <1>1 DEF Lesser
<1> DEFINE kept == Lesser(b.level, b.burst * Second)
<1> HIDE DEF kept
<1>3. Advance(b) = [b EXCEPT !.level = kept] /\ kept \in Int
  BY <1>2 DEF Advance, kept
<1>4. Advance(b) \in Bucket /\ Advance(b).limit = b.limit /\ Advance(b).burst = b.burst
  BY <1>3 DEF Bucket
<1>5. \A c \in Bucket : /\ [c EXCEPT !.burst = r] \in Bucket
                        /\ [c EXCEPT !.burst = r].limit = c.limit
                        /\ [c EXCEPT !.burst = r].burst = r
                        /\ [c EXCEPT !.limit = r] \in Bucket
                        /\ [c EXCEPT !.limit = r].limit = r
  BY DEF Bucket
<1>6. /\ NewLimiter(r) \in Bucket
      /\ NewLimiter(r).limit = r /\ NewLimiter(r).burst = r
  BY <1>1 DEF Bucket, NewLimiter
<1> QED
  BY <1>4, <1>5, <1>6 DEF Retuned

LEMMA DelayIsTime ==
    ASSUME NEW level \in Int, NEW limit \in Rates
    PROVE  Delay(level, limit) \in Nat
<1>1. limit \in Nat \ {0}
  BY LimiterAssumption
<1> QED
  BY <1>1 DEF Delay

LEMMA PatchInv ==
    ASSUME IInv, NEW r \in Rates, PatchRate(r)
    PROVE  IInv'
<1> USE DEF PatchRate
<1>1. TypeOK'
  <2>1. /\ rates' \in Seq(Rates) /\ taken' \in DOMAIN rates'
        /\ highest' \in Rates
    BY DEF IInv, TypeOK, Greater
  <2> QED
    BY <2>1 DEF IInv, TypeOK
<1> QED
  BY <1>1 DEF IInv, OneBucket, RetuneAlone, LimitMatchesBurst

LEMMA TakeInv ==
    ASSUME IInv, NEW w \in Workers, TakeTask(w)
    PROVE  IInv'
<1> USE DEF TakeTask, Goto
<1> PICK i \in taken..Len(rates) : taken' = i /\ rate' = [rate EXCEPT ![w] = rates[i]]
  OBVIOUS
<1>1. i \in DOMAIN rates /\ rates[i] \in Rates
  BY DEF IInv, TypeOK
<1>2. TypeOK'
  BY <1>1 DEF IInv, TypeOK, Labels
<1>3. OneBucket'
  BY <1>1 DEF IInv, TypeOK, OneBucket, Holding
<1>4. RetuneAlone' /\ LimitMatchesBurst'
  BY DEF IInv, TypeOK, RetuneAlone, LimitMatchesBurst
<1> QED
  BY <1>2, <1>3, <1>4 DEF IInv

LEMMA LoadInv ==
    ASSUME IInv, NEW w \in Workers, Load(w)
    PROVE  IInv'
<1> USE DEF Load, Goto
<1>1. TypeOK'
  BY DEF IInv, TypeOK, Labels
<1>2. OneBucket'
  BY DEF IInv, TypeOK, OneBucket, Holding
<1>3. RetuneAlone' /\ LimitMatchesBurst'
  BY DEF IInv, TypeOK, RetuneAlone, LimitMatchesBurst
<1> QED
  BY <1>1, <1>2, <1>3 DEF IInv

LEMMA StoreInv ==
    ASSUME IInv, NEW w \in Workers, LoadOrStore(w)
    PROVE  IInv'
<1> USE DEF LoadOrStore, Goto
<1>1. CASE registry = NoWorker
  <2>1. rate[w] \in Rates /\ NoWorker \notin Workers
    BY LimiterAssumption DEF IInv, OneBucket
  <2>2. /\ registry' = w /\ mine' = [mine EXCEPT ![w] = w]
        /\ bucket' = [bucket EXCEPT ![w] = NewLimiter(rate[w])]
    BY <1>1 DEF StoreOrLoad
  <2>3. bucket \in [Workers -> Bucket] /\ bucket[w] \in Bucket
    BY DEF IInv, TypeOK, Bucket
  <2>4. /\ NewLimiter(rate[w]) \in Bucket
        /\ NewLimiter(rate[w]).limit = rate[w] /\ NewLimiter(rate[w]).burst = rate[w]
    BY <2>1, <2>3, BucketCalls
  <2>5. \A o \in Workers : pc[o] \notin Holding
    BY <1>1, <2>1 DEF IInv, OneBucket
  <2>6. bucket' \in [Workers -> Bucket] /\ bucket'[w] = NewLimiter(rate[w])
    BY <2>2, <2>3, <2>4
  <2>7. TypeOK'
    BY <2>2, <2>6 DEF IInv, TypeOK, Labels, Bucket
  <2>8. OneBucket'
    BY <2>1, <2>2, <2>4, <2>5, <2>6 DEF IInv, TypeOK, OneBucket, Holding
  <2>9. RetuneAlone' /\ LimitMatchesBurst'
    BY <2>2, <2>4, <2>5, <2>6 DEF IInv, TypeOK, RetuneAlone, LimitMatchesBurst, Holding
  <2> QED
    BY <2>7, <2>8, <2>9 DEF IInv
<1>2. CASE registry # NoWorker
  <2>1. UNCHANGED <<registry, bucket>> /\ mine' = [mine EXCEPT ![w] = registry]
    BY <1>2 DEF StoreOrLoad
  <2>2. TypeOK'
    BY <2>1 DEF IInv, TypeOK, Labels
  <2>3. OneBucket'
    BY <1>2, <2>1 DEF IInv, TypeOK, OneBucket, Holding
  <2>4. RetuneAlone' /\ LimitMatchesBurst'
    BY <2>1 DEF IInv, TypeOK, RetuneAlone, LimitMatchesBurst
  <2> QED
    BY <2>2, <2>3, <2>4 DEF IInv
<1> QED
  BY <1>1, <1>2

LEMMA CompareInv ==
    ASSUME IInv, NEW w \in Workers, CompareLimit(w)
    PROVE  IInv'
<1> USE DEF CompareLimit, Goto
<1>1. TypeOK'
  BY DEF IInv, TypeOK, Labels
<1>2. OneBucket'
  BY DEF IInv, TypeOK, OneBucket, Holding
<1>3. RetuneAlone' /\ LimitMatchesBurst'
  BY DEF IInv, TypeOK, RetuneAlone, LimitMatchesBurst
<1> QED
  BY <1>1, <1>2, <1>3 DEF IInv

LEMMA SetLimitInv ==
    ASSUME IInv, NEW w \in Workers, SetLimit(w)
    PROVE  IInv'
<1> USE DEF SetLimit, Goto
<1>1. /\ mine[w] = registry /\ registry \in Workers /\ rate[w] \in Rates
      /\ bucket \in [Workers -> Bucket] /\ bucket[registry] \in Bucket
  BY DEF IInv, TypeOK, OneBucket, Holding, Bucket
<1> DEFINE new == [Advance(bucket[registry]) EXCEPT !.limit = rate[w]]
<1>2. new \in Bucket /\ new.limit = rate[w]
  BY <1>1, BucketCalls
<1> HIDE DEF new
<1>3. bucket' = [bucket EXCEPT ![registry] = new]
  BY <1>1 DEF new
<1>4. bucket' \in [Workers -> Bucket] /\ bucket'[registry] = new
  BY <1>1, <1>2, <1>3
<1>5. crossed' \in BOOLEAN
  BY DEF IInv, TypeOK
<1>6. TypeOK'
  BY <1>4, <1>5 DEF IInv, TypeOK, Labels, Bucket
<1>7. OneBucket'
  BY <1>1, <1>2, <1>4 DEF IInv, TypeOK, OneBucket, Holding
<1>8. RetuneAlone'
  BY <1>1, <1>2, <1>4 DEF IInv, TypeOK, RetuneAlone
<1>9. LimitMatchesBurst'
  BY DEF IInv, TypeOK, LimitMatchesBurst
<1> QED
  BY <1>6, <1>7, <1>8, <1>9 DEF IInv

LEMMA SetBurstInv ==
    ASSUME IInv, NEW w \in Workers, SetBurst(w)
    PROVE  IInv'
<1> USE DEF SetBurst, Goto
<1>1. /\ mine[w] = registry /\ registry \in Workers /\ rate[w] \in Rates
      /\ bucket \in [Workers -> Bucket] /\ bucket[registry] \in Bucket
  BY DEF IInv, TypeOK, OneBucket, Holding, Bucket
<1> DEFINE new == Retuned(bucket[registry], rate[w])
<1>2. new \in Bucket /\ new.limit = bucket[registry].limit /\ new.burst = rate[w]
  BY <1>1, BucketCalls
<1> HIDE DEF new
<1>3. bucket' = [bucket EXCEPT ![registry] = new]
  BY <1>1 DEF new
<1>4. bucket' \in [Workers -> Bucket] /\ bucket'[registry] = new
  BY <1>1, <1>2, <1>3
<1>5. TypeOK'
  BY <1>4 DEF IInv, TypeOK, Labels, Bucket
<1>6. OneBucket'
  BY <1>1, <1>2, <1>4 DEF IInv, TypeOK, OneBucket, Holding
<1>7. RetuneAlone'
  BY <1>1, <1>2, <1>4 DEF IInv, TypeOK, RetuneAlone
<1>8. ~crossed => bucket[registry].limit = rate[w]
  BY DEF IInv, RetuneAlone
<1>9. LimitMatchesBurst'
  BY <1>1, <1>2, <1>4, <1>8 DEF LimitMatchesBurst
<1> QED
  BY <1>5, <1>6, <1>7, <1>9 DEF IInv

LEMMA ReserveInv ==
    ASSUME IInv, NEW w \in Workers, Reserve(w)
    PROVE  IInv'
<1> USE DEF Goto
<1>1. /\ pc[w] = "reserve" /\ mine[w] = registry /\ registry \in Workers
      /\ bucket \in [Workers -> Bucket] /\ bucket[registry] \in Bucket
      /\ bucket[registry].limit \in Rates
  BY DEF IInv, TypeOK, OneBucket, Holding, Bucket, Reserve
<1> DEFINE b == Advance(bucket[registry])
           left == b.level - Second
           delay == Delay(left, b.limit)
           new == [b EXCEPT !.level = left]
<1>2. /\ b \in Bucket /\ b.limit = bucket[registry].limit
      /\ b.burst = bucket[registry].burst
  BY <1>1, BucketCalls
<1>3. left \in Int /\ b.limit \in Rates
  BY <1>1, <1>2, LimiterAssumption DEF Bucket
<1>4. delay \in Nat
  BY <1>3, DelayIsTime
<1>5. new \in Bucket /\ new.limit = b.limit /\ new.burst = b.burst
  BY <1>2, <1>3 DEF Bucket
<1>6. UNCHANGED <<rates, highest, taken, registry, rate, mine, crossed>>
  BY DEF Reserve
<1>7. \/ /\ delay <= MaxWait
         /\ bucket' = [bucket EXCEPT ![registry] = new]
         /\ until' = [until EXCEPT ![w] = delay]
         /\ pc' = [pc EXCEPT ![w] = IF delay = 0 THEN "idle" ELSE "sleep"]
         /\ meter' = IF delay = 0 THEN meter + Second ELSE meter
         /\ UNCHANGED gaveUp
      \/ /\ gaveUp' = TRUE
         /\ pc' = [pc EXCEPT ![w] = "idle"]
         /\ UNCHANGED <<bucket, until, meter>>
  BY <1>1 DEF Reserve, InTime
<1> HIDE DEF b, left, delay, new
<1>8. ASSUME delay <= MaxWait,
             bucket' = [bucket EXCEPT ![registry] = new],
             until' = [until EXCEPT ![w] = delay],
             pc' = [pc EXCEPT ![w] = IF delay = 0 THEN "idle" ELSE "sleep"],
             meter' = IF delay = 0 THEN meter + Second ELSE meter,
             UNCHANGED gaveUp
      PROVE  IInv'
  <2>1. /\ bucket' \in [Workers -> Bucket] /\ bucket'[registry] = new
        /\ meter' \in Nat /\ delay \in 0..MaxWait
    BY <1>1, <1>4, <1>5, <1>8, LimiterAssumption DEF IInv, TypeOK
  <2>2. TypeOK'
    BY <1>6, <1>8, <2>1 DEF IInv, TypeOK, Labels, Bucket
  <2>3. OneBucket'
    BY <1>1, <1>2, <1>4, <1>5, <1>6, <1>8, <2>1 DEF IInv, TypeOK, OneBucket, Holding
  <2>4. RetuneAlone' /\ LimitMatchesBurst'
    BY <1>1, <1>2, <1>5, <1>6, <1>8, <2>1 DEF IInv, TypeOK, RetuneAlone, LimitMatchesBurst
  <2> QED
    BY <2>2, <2>3, <2>4 DEF IInv
<1>9. ASSUME gaveUp' = TRUE, pc' = [pc EXCEPT ![w] = "idle"],
             UNCHANGED <<bucket, until, meter>>
      PROVE  IInv'
  <2>1. TypeOK'
    BY <1>6, <1>9 DEF IInv, TypeOK, Labels
  <2>2. OneBucket'
    BY <1>6, <1>9 DEF IInv, TypeOK, OneBucket, Holding
  <2>3. RetuneAlone' /\ LimitMatchesBurst'
    BY <1>1, <1>6, <1>9 DEF IInv, TypeOK, RetuneAlone, LimitMatchesBurst
  <2> QED
    BY <2>1, <2>2, <2>3 DEF IInv
<1> QED
  BY <1>7, <1>8, <1>9

LEMMA TickInv ==
    ASSUME IInv, Tick
    PROVE  IInv'
<1> USE DEF Tick
<1> DEFINE filled(o) == [bucket[o] EXCEPT !.level = @ + bucket[o].limit]
<1>1. ASSUME NEW o \in Workers
      PROVE  /\ Advance(filled(o)) \in Bucket
             /\ Advance(filled(o)).limit = bucket[o].limit
             /\ Advance(filled(o)).burst = bucket[o].burst
  <2>1. bucket[o] \in Bucket
    BY DEF IInv, TypeOK, Bucket
  <2>2. /\ filled(o) \in Bucket /\ filled(o).limit = bucket[o].limit
        /\ filled(o).burst = bucket[o].burst
    BY <2>1, LimiterAssumption DEF Bucket
  <2>3. PICK r \in Rates : TRUE
    BY LimiterAssumption
  <2> QED
    BY <2>2, <2>3, BucketCalls
<1>2. /\ bucket' \in [Workers -> Bucket]
      /\ \A o \in Workers : /\ bucket'[o].limit = bucket[o].limit
                            /\ bucket'[o].burst = bucket[o].burst
  BY <1>1
<1>3. \A w \in Workers : pc[w] = "sleep" => until[w] \in 1..MaxWait
  BY DEF IInv, OneBucket
<1>4. until' \in [Workers -> 0..MaxWait]
  BY <1>3, LimiterAssumption DEF IInv, TypeOK
<1>5. pc' \in [Workers -> {"idle", "sleep"}]
  BY DEF IInv, TypeOK
<1>6. meter' \in Nat
  <2>1. Cardinality(Due) \in Nat
    BY LimiterAssumption, FS_Subset, FS_CardinalityType DEF Due
  <2>2. highest \in Int /\ meter \in Nat
    BY LimiterAssumption DEF IInv, TypeOK
  <2>3. Greater(meter - highest, 0) \in Nat
    BY <2>2 DEF Greater
  <2>4. Second * Cardinality(Due) \in Nat
    BY <2>1, LimiterAssumption
  <2> QED
    BY <2>3, <2>4
<1>7. TypeOK'
  BY <1>2, <1>4, <1>5, <1>6 DEF IInv, TypeOK, Labels, Bucket
<1>8. ASSUME NEW w \in Workers, pc'[w] = "sleep"
      PROVE  until'[w] \in 1..MaxWait
  <2>1. pc[w] = "sleep" /\ until[w] # 1
    BY <1>8 DEF IInv, TypeOK, Due
  <2> QED
    BY <1>3, <2>1, LimiterAssumption DEF IInv, TypeOK
<1>9. OneBucket'
  BY <1>2, <1>5, <1>8 DEF IInv, OneBucket, Holding
<1>10. RetuneAlone' /\ LimitMatchesBurst'
  <2>1. \A w \in Workers : pc[w] # "burst" /\ pc'[w] # "burst"
    BY <1>5
  <2>2. registry # NoWorker => registry \in Workers
    BY DEF IInv, TypeOK
  <2> QED
    BY <1>2, <2>1, <2>2 DEF IInv, RetuneAlone, LimitMatchesBurst
<1> QED
  BY <1>7, <1>9, <1>10 DEF IInv

LEMMA NextInv == IInv /\ [Next]_vars => IInv'
<1> SUFFICES ASSUME IInv, [Next]_vars PROVE IInv'
  OBVIOUS
<1>1. ASSUME NEW w \in Workers, WorkerStep(w) PROVE IInv'
  BY <1>1, TakeInv, LoadInv, StoreInv, CompareInv, SetLimitInv, SetBurstInv, ReserveInv
     DEF WorkerStep
<1>2. ASSUME NEW r \in Rates, PatchRate(r) PROVE IInv'
  BY <1>2, PatchInv
<1>3. ASSUME Tick PROVE IInv'
  BY <1>3, TickInv
<1>4. ASSUME UNCHANGED vars PROVE IInv'
  BY <1>4 DEF vars, IInv, TypeOK, OneBucket, RetuneAlone, LimitMatchesBurst
<1> QED
  BY <1>1, <1>2, <1>3, <1>4 DEF Next

\* The limiter's variables keep their shape, for every pool and every set of
\* rates: in particular no wait is longer than a worker's patience.
THEOREM LimiterTypes == Spec => []TypeOK
<1>1. IInv => TypeOK
  BY DEF IInv
<1> QED
  BY InitInv, NextInv, <1>1, PTL DEF Spec

\* However many workers look the bucket up, make it and retune it, limit and
\* burst stay together unless two retunes for different rates overlapped.
THEOREM LimiterRetunes == Spec => []LimitMatchesBurst
<1>1. IInv => LimitMatchesBurst
  BY DEF IInv
<1> QED
  BY InitInv, NextInv, <1>1, PTL DEF Spec

-----------------------------------------------------------------------------
(* The pace: arithmetic                                                    *)

\* Products that the provers do not multiply out by themselves.
LEMMA Times ==
    ASSUME NEW a \in Int, NEW b \in Int
    PROVE  a * b \in Int /\ a * (b + 1) = a * b + a /\ a * (b - 1) = a * b - a /\ a * 0 = 0
  OBVIOUS

LEMMA TimesPositive ==
    ASSUME NEW a \in Nat, NEW b \in Nat
    PROVE  a * b \in Nat
  OBVIOUS

LEMMA TimesMonotone ==
    ASSUME NEW a \in Int, NEW b \in Int, NEW c \in Nat, a <= b
    PROVE  a * c <= b * c /\ c * a <= c * b
<1>1. (b - a) * c \in Nat
  BY TimesPositive
<1>2. (b - a) * c = b * c - a * c /\ c * a = a * c /\ c * b = b * c
  OBVIOUS
<1> QED
  BY <1>1, <1>2

\* Numbers of at least one add up to at most one more than their product.
LEMMA SumBelowProduct ==
    ASSUME NEW a \in Nat \ {0}, NEW b \in Nat \ {0}
    PROVE  a + b - 1 <= a * b
<1>1. (a - 1) * (b - 1) \in Nat
  BY TimesPositive
<1>2. (a - 1) * (b - 1) = a * b - a - b + 1
  OBVIOUS
<1> QED
  BY <1>1, <1>2

LEMMA Ceiling ==
    ASSUME NEW n \in Nat, NEW r \in Nat \ {0}
    PROVE  LET d == (n + r - 1) \div r
           IN  d \in Nat /\ d * r <= n + r - 1 /\ n + r - 1 < d * r + r
  OBVIOUS

\* A wait is long enough for the tokens that are missing, and a tick shorter
\* would not be.
LEMMA DelayWaits ==
    ASSUME NEW level \in Int, NEW limit \in Nat \ {0}, NEW d, d = Delay(level, limit)
    PROVE  /\ d \in Nat
           /\ level + limit * d >= 0
           /\ d > 0 => level + limit * (d - 1) < 0
           /\ d = 0 => level >= 0
<1>1. CASE level >= 0
  <2>1. d = 0
    BY <1>1 DEF Delay
  <2> QED
    BY <1>1, <2>1
<1>2. CASE level < 0
  <2> DEFINE n == 0 - level
  <2>1. n \in Nat /\ n > 0
    BY <1>2
  <2>2. d = (n + limit - 1) \div limit
    BY <1>2 DEF Delay
  <2>3. d \in Nat /\ d * limit <= n + limit - 1 /\ n + limit - 1 < d * limit + limit
    BY <2>1, <2>2, Ceiling
  <2>4. limit * d = d * limit /\ limit * (d - 1) = d * limit - limit
    BY <2>3
  <2>5. d # 0
    BY <2>1, <2>3
  <2> QED
    BY <2>1, <2>3, <2>4, <2>5
<1> QED
  BY <1>1, <1>2

LEMMA AdvanceLevel ==
    ASSUME NEW b \in Bucket
    PROVE  /\ Advance(b).level <= b.level
           /\ Advance(b).level <= b.burst * Second
           /\ Advance(b).level \in {b.level, b.burst * Second}
           /\ b.burst * Second \in Nat
<1>1. b.burst \in Nat /\ b.level \in Int /\ Second \in Nat
  <2>1. b.burst \in Rates \cup {0} /\ b.level \in Int
    BY DEF Bucket
  <2>2. (\A q \in Rates : q \in Nat) /\ Second \in Nat
    BY LimiterAssumption
  <2> QED
    BY <2>1, <2>2
<1>2. b.burst * Second \in Nat
  BY <1>1, TimesPositive
<1> DEFINE kept == Lesser(b.level, b.burst * Second)
<1>3. /\ kept <= b.level /\ kept <= b.burst * Second
      /\ kept \in {b.level, b.burst * Second}
  BY <1>1, <1>2 DEF Lesser
<1>4. Advance(b).level = kept
  BY DEF Advance, Bucket
<1> QED
  BY <1>2, <1>3, <1>4

-----------------------------------------------------------------------------
(* The pace: tokens taken ahead of time                                    *)

\* Who still sleeps u ticks from now, and the tokens they have taken already.
Asleep(u) == {w \in Workers : pc[w] = "sleep" /\ until[w] > u}
Weight(u) == Second * Cardinality(Asleep(u))

Level == bucket[registry].level
Limit == bucket[registry].limit

\* No bucket is faster than the highest rate so far, and the stored one is the
\* first that anything was sent by.
RatesBelow ==
    /\ \A i \in DOMAIN rates : rates[i] <= highest
    /\ \A w \in Workers : /\ rate[w] <= highest
                          /\ bucket[w].limit <= highest /\ bucket[w].burst <= highest
    /\ registry = NoWorker => meter = 0 /\ \A w \in Workers : pc[w] # "sleep"

\* Tokens that come at the highest rate pay for every send by the time it is due.
Covered(v) == \A u \in Nat : v + highest * u + Weight(u) >= 0

\* Whatever was sent or will be has taken a token, of the stored bucket or of one
\* that is ahead of it because it fills at the highest rate.
Accounted ==
    registry # NoWorker =>
      \E v \in Int : /\ Level <= v
                     /\ meter + v + Weight(0) <= (highest + Cardinality(Workers) - 1) * Second
                     /\ Covered(v)

\* While all sleep nobody has retuned the bucket since the last of them took its
\* token, so one of them waits no longer than the bucket needs.
AllAsleep == \A w \in Workers : pc[w] = "sleep"

SomeoneOnTime ==
    registry # NoWorker /\ AllAsleep =>
      \E w \in Workers : Level + Limit * (until[w] - 1) < 0

\* As long as the rate has not been changed, the stored bucket is of that rate,
\* its own tokens pay for the sends, and nobody sleeps longer than it needs.
OneRate ==
    Len(rates) = 1 =>
      /\ highest = rates[1]
      /\ \A w \in Workers : /\ pc[w] \notin {"limit", "burst"}
                            /\ pc[w] \notin {"idle", "sleep"} => rate[w] = highest
      /\ registry # NoWorker =>
           /\ Limit = highest /\ bucket[registry].burst = highest
           /\ meter + Level + Weight(0) <= highest * Second
           /\ Covered(Level)
           /\ \A u \in Nat : Asleep(u) # {} => Level + Weight(u) - Second + highest * u < 0

PaceInv ==
    IInv /\ RatesBelow /\ Accounted /\ SomeoneOnTime /\ OneRate /\ NobodyGivesUp

LEMMA PaceTypes ==
    ASSUME IInv
    PROVE  /\ highest \in Nat \ {0} /\ meter \in Nat /\ Second \in Nat \ {0}
           /\ Cardinality(Workers) \in Nat
           /\ bucket \in [Workers -> Bucket]
           /\ registry # NoWorker =>
                 /\ registry \in Workers /\ bucket[registry] \in Bucket
                 /\ Level \in Int /\ Limit \in Nat \ {0}
<1>1. /\ highest \in Nat \ {0} /\ meter \in Nat /\ Second \in Nat \ {0}
      /\ Cardinality(Workers) \in Nat
  BY LimiterAssumption, FS_CardinalityType DEF IInv, TypeOK
<1>2. bucket \in [Workers -> Bucket]
  BY DEF IInv, TypeOK, Bucket
<1>3. ASSUME registry # NoWorker
      PROVE  /\ registry \in Workers /\ bucket[registry] \in Bucket
             /\ Level \in Int /\ Limit \in Nat \ {0}
  <2>1. registry \in Workers /\ bucket[registry] \in Bucket
    BY <1>2, <1>3 DEF IInv, TypeOK
  <2>2. Limit \in Nat \ {0}
    BY <2>1, LimiterAssumption DEF IInv, OneBucket, Limit
  <2> QED
    BY <2>1, <2>2 DEF Bucket, Level
<1> QED
  BY <1>1, <1>2, <1>3

\* What is asleep is a part of the pool, all of it only if all sleep.
LEMMA AsleepInPool ==
    ASSUME IInv, NEW u \in Nat
    PROVE  /\ IsFiniteSet(Asleep(u)) /\ Cardinality(Asleep(u)) \in Nat
           /\ Cardinality(Asleep(u)) <= Cardinality(Workers)
           /\ ~AllAsleep => Cardinality(Asleep(u)) <= Cardinality(Workers) - 1
           /\ Asleep(u) = {} => Weight(u) = 0
           /\ Weight(u) \in Nat
           /\ Weight(u) <= Second * Cardinality(Workers)
           /\ ~AllAsleep => Weight(u) <= Second * Cardinality(Workers) - Second
<1>1. Asleep(u) \in SUBSET Workers
  BY DEF Asleep
<1>2. /\ IsFiniteSet(Asleep(u)) /\ Cardinality(Asleep(u)) \in Nat
      /\ Cardinality(Workers) \in Nat
      /\ Cardinality(Asleep(u)) <= Cardinality(Workers)
      /\ Cardinality(Asleep(u)) = Cardinality(Workers) => Asleep(u) = Workers
  BY <1>1, LimiterAssumption, FS_Subset, FS_CardinalityType
<1>3. ~AllAsleep => Asleep(u) # Workers
  BY DEF AllAsleep, Asleep
<1>4. ~AllAsleep => Cardinality(Asleep(u)) <= Cardinality(Workers) - 1
  BY <1>2, <1>3
<1>5. Asleep(u) = {} => Cardinality(Asleep(u)) = 0
  BY FS_EmptySet
<1>6. Second \in Nat
  BY LimiterAssumption
<1>7. Weight(u) \in Nat /\ Weight(u) <= Second * Cardinality(Workers)
  BY <1>2, <1>6, TimesPositive, TimesMonotone DEF Weight
<1>8. ASSUME ~AllAsleep PROVE Weight(u) <= Second * Cardinality(Workers) - Second
  <2>1. /\ Cardinality(Asleep(u)) \in Int /\ Cardinality(Workers) - 1 \in Int
        /\ Cardinality(Asleep(u)) <= Cardinality(Workers) - 1
    BY <1>2, <1>4, <1>8
  <2>2. Second * Cardinality(Asleep(u)) <= Second * (Cardinality(Workers) - 1)
    BY <2>1, <1>6, TimesMonotone
  <2>3. Second * (Cardinality(Workers) - 1) = Second * Cardinality(Workers) - Second
    BY <1>2, <1>6, Times
  <2> QED
    BY <2>2, <2>3 DEF Weight
<1>9. Asleep(u) = {} => Weight(u) = 0
  BY <1>5, <1>6, Times DEF Weight
<1> QED
  BY <1>2, <1>4, <1>7, <1>8, <1>9

\* A worker that is neither asleep before nor after changes nothing for the others.
LEMMA AsleepUntouched ==
    ASSUME IInv, NEW w \in Workers, pc[w] # "sleep",
           NEW l, l # "sleep", pc' = [pc EXCEPT ![w] = l], until' = until
    PROVE  /\ \A u \in Nat : Asleep(u)' = Asleep(u) /\ Weight(u)' = Weight(u)
           /\ ~AllAsleep /\ ~AllAsleep'
<1>1. pc \in [Workers -> Labels]
  BY DEF IInv, TypeOK
<1>2. \A o \in Workers : pc'[o] = "sleep" <=> pc[o] = "sleep"
  BY <1>1
<1>3. \A u \in Nat : Asleep(u)' = Asleep(u)
  BY <1>2 DEF Asleep
<1> QED
  BY <1>1, <1>3 DEF Weight, AllAsleep

\* The account stays good while nobody sends, the weight is the same, and the
\* bucket gains nothing.
LEMMA AccountedStays ==
    ASSUME IInv, Accounted, registry' = registry, meter' = meter, highest' = highest,
           \A u \in Nat : Weight(u)' = Weight(u),
           registry # NoWorker => Level' <= Level /\ Level' \in Int
    PROVE  Accounted'
<1> SUFFICES ASSUME registry # NoWorker
             PROVE  \E v \in Int :
                       /\ Level' <= v
                       /\ meter + v + Weight(0)' <= (highest + Cardinality(Workers) - 1) * Second
                       /\ Covered(v)'
  BY DEF Accounted
<1>1. PICK v \in Int : /\ Level <= v /\ Covered(v)
                       /\ meter + v + Weight(0) <= (highest + Cardinality(Workers) - 1) * Second
  BY DEF Accounted
<1>2. Level' <= v
  BY <1>1, PaceTypes
<1>3. Covered(v)'
  BY <1>1 DEF Covered
<1>4. Weight(0)' = Weight(0)
  OBVIOUS
<1> QED
  BY <1>1, <1>2, <1>3, <1>4

\* The steps of a worker that look the bucket up and leave it as it is.
LEMMA PaceLooks ==
    ASSUME PaceInv, IInv', NEW w \in Workers, pc[w] # "sleep",
           NEW l, l # "sleep", pc' = [pc EXCEPT ![w] = l],
           UNCHANGED <<rates, highest, registry, bucket, until, meter, gaveUp>>,
           \A o \in Workers : rate'[o] <= highest,
           Len(rates) = 1 => l \notin {"limit", "burst"},
           Len(rates) = 1 => \A o \in Workers : pc'[o] \notin {"idle", "sleep"} => rate'[o] = highest
    PROVE  PaceInv'
<1>1. /\ \A u \in Nat : Asleep(u)' = Asleep(u) /\ Weight(u)' = Weight(u)
      /\ ~AllAsleep'
  BY AsleepUntouched DEF PaceInv
<1>2. pc \in [Workers -> Labels] /\ \A o \in Workers : pc'[o] = IF o = w THEN l ELSE pc[o]
  BY DEF PaceInv, IInv, TypeOK
<1>3. RatesBelow'
  BY <1>2 DEF PaceInv, RatesBelow
<1>4. Level' = Level /\ Limit' = Limit /\ (registry # NoWorker => Level \in Int)
  BY PaceTypes DEF Level, Limit, PaceInv
<1>5. Accounted'
  <2>1. registry # NoWorker => Level' <= Level /\ Level' \in Int
    BY <1>4
  <2> QED
    BY <1>1, <2>1, AccountedStays DEF PaceInv
<1>6. SomeoneOnTime'
  BY <1>1 DEF SomeoneOnTime
<1>7. OneRate'
  <2>1. Covered(Level) => Covered(Level)'
    BY <1>1, <1>4 DEF Covered
  <2>2. Weight(0)' = Weight(0)
    BY <1>1
  <2> QED
    BY <1>1, <1>2, <1>4, <2>1, <2>2 DEF PaceInv, OneRate
<1>8. NobodyGivesUp'
  BY DEF PaceInv, NobodyGivesUp
<1> QED
  BY <1>3, <1>5, <1>6, <1>7, <1>8 DEF PaceInv

LEMMA TakePace ==
    ASSUME PaceInv, IInv', NEW w \in Workers, TakeTask(w)
    PROVE  PaceInv'
<1> USE DEF TakeTask, Goto
<1> PICK i \in taken..Len(rates) : taken' = i /\ rate' = [rate EXCEPT ![w] = rates[i]]
  OBVIOUS
<1>1. i \in DOMAIN rates /\ rates[i] <= highest
  BY DEF PaceInv, RatesBelow, IInv, TypeOK
<1>2. Len(rates) = 1 => rates[i] = highest
  BY <1>1 DEF PaceInv, OneRate, IInv, TypeOK
<1>3. \A o \in Workers : rate'[o] = IF o = w THEN rates[i] ELSE rate[o]
  BY DEF PaceInv, IInv, TypeOK
<1>4. \A o \in Workers : rate'[o] <= highest
  BY <1>1, <1>3 DEF PaceInv, RatesBelow
<1>5. Len(rates) = 1 => \A o \in Workers : pc'[o] \notin {"idle", "sleep"} => rate'[o] = highest
  BY <1>2, <1>3 DEF PaceInv, OneRate, IInv, TypeOK
<1> QED
  BY <1>4, <1>5, PaceLooks

LEMMA LoadPace ==
    ASSUME PaceInv, IInv', NEW w \in Workers, Load(w)
    PROVE  PaceInv'
<1> DEFINE l == IF registry = NoWorker THEN "store" ELSE "check"
<1>1. /\ pc[w] = "load" /\ pc' = [pc EXCEPT ![w] = l]
      /\ l \in {"store", "check"}
      /\ UNCHANGED <<rates, highest, registry, bucket, until, meter, gaveUp, rate>>
  BY DEF Load, Goto
<1> HIDE DEF l
<1>2. \A o \in Workers : rate'[o] <= highest
  BY <1>1 DEF PaceInv, RatesBelow
<1>3. Len(rates) = 1 => \A o \in Workers : pc'[o] \notin {"idle", "sleep"} => rate'[o] = highest
  BY <1>1 DEF PaceInv, OneRate, IInv, TypeOK
<1> QED
  BY <1>1, <1>2, <1>3, PaceLooks

LEMMA ComparePace ==
    ASSUME PaceInv, IInv', NEW w \in Workers, CompareLimit(w)
    PROVE  PaceInv'
<1> DEFINE l == IF bucket[mine[w]].limit # rate[w] THEN "limit" ELSE "reserve"
<1>1. /\ pc[w] = "check" /\ pc' = [pc EXCEPT ![w] = l]
      /\ l \in {"limit", "reserve"}
      /\ UNCHANGED <<rates, highest, registry, bucket, until, meter, gaveUp, rate>>
  BY DEF CompareLimit, Goto
<1>2. mine[w] = registry /\ registry \in Workers /\ registry # NoWorker
  BY <1>1, LimiterAssumption DEF PaceInv, IInv, OneBucket, Holding
<1>3. Len(rates) = 1 => l \notin {"limit", "burst"}
  BY <1>1, <1>2 DEF PaceInv, OneRate, Limit
<1> HIDE DEF l
<1>4. \A o \in Workers : rate'[o] <= highest
  BY <1>1 DEF PaceInv, RatesBelow
<1>5. Len(rates) = 1 => \A o \in Workers : pc'[o] \notin {"idle", "sleep"} => rate'[o] = highest
  BY <1>1 DEF PaceInv, OneRate, IInv, TypeOK
<1> QED
  BY <1>1, <1>3, <1>4, <1>5, PaceLooks

\* The first bucket is full, of one rate, and nothing was sent before it.
LEMMA StorePace ==
    ASSUME PaceInv, IInv', NEW w \in Workers, LoadOrStore(w)
    PROVE  PaceInv'
<1>1. /\ pc[w] = "store" /\ pc' = [pc EXCEPT ![w] = "check"]
      /\ UNCHANGED <<rates, highest, until, meter, gaveUp, rate>>
  BY DEF LoadOrStore, Goto
<1>2. \A o \in Workers : rate'[o] <= highest
  BY <1>1 DEF PaceInv, RatesBelow
<1>3. Len(rates) = 1 => \A o \in Workers : pc'[o] \notin {"idle", "sleep"} => rate'[o] = highest
  BY <1>1 DEF PaceInv, OneRate, IInv, TypeOK
<1>4. CASE registry # NoWorker
  <2>1. UNCHANGED <<registry, bucket>>
    BY <1>4 DEF LoadOrStore, StoreOrLoad
  <2> QED
    BY <1>1, <1>2, <1>3, <2>1, PaceLooks
<1>5. CASE registry = NoWorker
  <2> DEFINE r == rate[w]
  <2>1. r \in Rates /\ r \in Nat \ {0} /\ r <= highest /\ (Len(rates) = 1 => r = highest)
    BY <1>1, LimiterAssumption DEF PaceInv, IInv, OneBucket, RatesBelow, OneRate
  <2>2. /\ highest \in Nat \ {0} /\ Second \in Nat \ {0} /\ Cardinality(Workers) \in Nat
        /\ bucket \in [Workers -> Bucket]
    BY PaceTypes DEF PaceInv
  <2>3. registry' = w /\ bucket' = [bucket EXCEPT ![w] = NewLimiter(r)] /\ w # NoWorker
    BY <1>5, LimiterAssumption DEF LoadOrStore, StoreOrLoad
  <2>4. /\ bucket'[w] = NewLimiter(r) /\ \A o \in Workers \ {w} : bucket'[o] = bucket[o]
    BY <2>2, <2>3
  <2>5. Level' = r * Second /\ Limit' = r /\ bucket'[registry'].burst = r
    BY <2>3, <2>4 DEF NewLimiter, Level, Limit
  <2>6. /\ \A u \in Nat : Asleep(u)' = Asleep(u) /\ Weight(u)' = Weight(u)
        /\ ~AllAsleep'
    BY <1>1, AsleepUntouched DEF PaceInv
  <2>7. meter = 0 /\ \A u \in Nat : Asleep(u) = {}
    BY <1>5 DEF PaceInv, RatesBelow, Asleep
  <2>8. \A u \in Nat : Asleep(u)' = {} /\ Weight(u)' = 0
    BY <2>6, <2>7, AsleepInPool DEF PaceInv
  <2>9. RatesBelow'
    BY <1>1, <1>2, <2>1, <2>3, <2>4 DEF PaceInv, RatesBelow, NewLimiter
  <2>10. r * Second \in Nat /\ \A u \in Nat : highest * u \in Nat
    BY <2>1, <2>2, TimesPositive
  <2>11. Covered(Level)'
    BY <1>1, <2>5, <2>8, <2>10 DEF Covered
  <2>12. Cardinality(Workers) >= 1
    BY LimiterAssumption, <2>2, FS_EmptySet
  <2>13. r * Second <= (highest + Cardinality(Workers) - 1) * Second
    BY <2>1, <2>2, <2>12, TimesMonotone
  <2>14. Accounted'
    BY <1>1, <2>5, <2>7, <2>8, <2>10, <2>11, <2>13 DEF Accounted
  <2>15. SomeoneOnTime'
    BY <2>6 DEF SomeoneOnTime
  <2>16. OneRate'
    <3> SUFFICES ASSUME Len(rates) = 1 PROVE OneRate'
      BY <1>1 DEF OneRate
    <3>1. r = highest /\ highest = rates[1]
      BY <2>1 DEF PaceInv, OneRate
    <3>2. \A o \in Workers : pc'[o] \notin {"limit", "burst"}
      BY <1>1 DEF PaceInv, OneRate, IInv, TypeOK
    <3>3. meter' + Level' + Weight(0)' <= highest' * Second
      BY <1>1, <2>5, <2>7, <2>8, <2>10, <3>1
    <3> QED
      BY <1>1, <1>3, <2>5, <2>8, <2>11, <3>1, <3>2, <3>3 DEF OneRate
  <2>17. NobodyGivesUp'
    BY <1>1 DEF PaceInv, NobodyGivesUp
  <2> QED
    BY <2>9, <2>14, <2>15, <2>16, <2>17 DEF PaceInv
<1> QED
  BY <1>4, <1>5

\* A call of a retune puts a slower or a faster bucket in the place of the stored
\* one, never a fuller one; with one rate there is no retune.
LEMMA PaceRetunes ==
    ASSUME PaceInv, IInv', NEW w \in Workers, pc[w] \in {"limit", "burst"},
           NEW l, l \in {"burst", "reserve"}, pc' = [pc EXCEPT ![w] = l],
           UNCHANGED <<rates, highest, registry, until, meter, gaveUp, rate>>,
           registry \in Workers, NEW new \in Bucket, bucket' = [bucket EXCEPT ![registry] = new],
           new.level <= Level, new.limit <= highest, new.burst <= highest
    PROVE  PaceInv'
<1>1. /\ \A u \in Nat : Asleep(u)' = Asleep(u) /\ Weight(u)' = Weight(u)
      /\ ~AllAsleep'
  BY AsleepUntouched DEF PaceInv
<1>2. Len(rates) # 1
  BY DEF PaceInv, OneRate
<1>3. bucket \in [Workers -> Bucket]
  BY PaceTypes DEF PaceInv
<1>4. bucket'[registry] = new /\ \A o \in Workers \ {registry} : bucket'[o] = bucket[o]
  BY <1>3
<1>5. registry # NoWorker /\ Level' = new.level /\ Level' \in Int
  BY <1>4, LimiterAssumption DEF Level, Bucket
<1>6. RatesBelow'
  BY <1>4, <1>5 DEF PaceInv, RatesBelow
<1>7. Accounted'
  <2>1. Level' <= Level
    BY <1>5
  <2> QED
    BY <1>1, <1>5, <2>1, AccountedStays DEF PaceInv
<1> QED
  BY <1>1, <1>2, <1>6, <1>7 DEF PaceInv, SomeoneOnTime, OneRate, NobodyGivesUp

LEMMA SetLimitPace ==
    ASSUME PaceInv, IInv', NEW w \in Workers, SetLimit(w)
    PROVE  PaceInv'
<1>1. /\ mine[w] = registry /\ registry \in Workers /\ rate[w] \in Rates /\ pc[w] = "limit"
      /\ bucket[registry] \in Bucket
  BY DEF PaceInv, IInv, TypeOK, OneBucket, Holding, Bucket, SetLimit
<1> DEFINE b == Advance(bucket[registry])
           new == [b EXCEPT !.limit = rate[w]]
<1>2. new \in Bucket /\ new.limit = rate[w] /\ b \in Bucket /\ b.burst = bucket[registry].burst
  BY <1>1, BucketCalls
<1>3. b.level <= Level
  BY <1>1, AdvanceLevel DEF Level
<1>4. new.level = b.level /\ new.burst = b.burst
  BY <1>2 DEF Bucket
<1>5. new.limit <= highest /\ new.burst <= highest /\ new.level <= Level
  BY <1>1, <1>2, <1>3, <1>4 DEF PaceInv, RatesBelow
<1>6. /\ bucket' = [bucket EXCEPT ![registry] = new] /\ pc' = [pc EXCEPT ![w] = "burst"]
      /\ UNCHANGED <<rates, highest, registry, until, meter, gaveUp, rate>>
  BY <1>1 DEF SetLimit, Goto
<1> HIDE DEF new
<1> QED
  BY <1>1, <1>2, <1>5, <1>6, PaceRetunes

LEMMA SetBurstPace ==
    ASSUME PaceInv, IInv', NEW w \in Workers, SetBurst(w)
    PROVE  PaceInv'
<1>1. /\ mine[w] = registry /\ registry \in Workers /\ rate[w] \in Rates /\ pc[w] = "burst"
      /\ bucket[registry] \in Bucket
  BY DEF PaceInv, IInv, TypeOK, OneBucket, Holding, Bucket, SetBurst
<1> DEFINE b == Advance(bucket[registry])
           new == Retuned(bucket[registry], rate[w])
<1>2. /\ new \in Bucket /\ new.limit = bucket[registry].limit /\ new.burst = rate[w]
      /\ b \in Bucket
  BY <1>1, BucketCalls
<1>3. b.level <= Level
  BY <1>1, AdvanceLevel DEF Level
<1>4. new.level = b.level
  BY <1>2 DEF Bucket, Retuned
<1>5. new.limit <= highest /\ new.burst <= highest /\ new.level <= Level
  BY <1>1, <1>2, <1>3, <1>4 DEF PaceInv, RatesBelow
<1>6. /\ bucket' = [bucket EXCEPT ![registry] = new] /\ pc' = [pc EXCEPT ![w] = "reserve"]
      /\ UNCHANGED <<rates, highest, registry, until, meter, gaveUp, rate>>
  BY <1>1 DEF SetBurst, Goto
<1> HIDE DEF new
<1> QED
  BY <1>1, <1>2, <1>5, <1>6, PaceRetunes

\* A change of the rate ends the statements about one rate, and the others allow
\* for the highest.
LEMMA PatchPace ==
    ASSUME PaceInv, IInv', NEW r \in Rates, PatchRate(r)
    PROVE  PaceInv'
<1>1. /\ rates' = Append(rates, r) /\ highest' = Greater(highest, r)
      /\ UNCHANGED <<registry, bucket, pc, rate, until, meter, gaveUp>>
  BY DEF PatchRate
<1>2. rates \in Seq(Rates) /\ Len(rates) \in Nat \ {0}
  BY DEF PaceInv, IInv, TypeOK
<1>3. Len(rates') # 1
  BY <1>1, <1>2
<1>4. /\ highest \in Nat \ {0} /\ r \in Nat \ {0} /\ meter \in Nat /\ Second \in Nat \ {0}
      /\ Cardinality(Workers) \in Nat
  BY PaceTypes, LimiterAssumption DEF PaceInv
<1>5. highest' \in Nat \ {0} /\ highest <= highest' /\ r <= highest'
  BY <1>1, <1>4 DEF Greater
<1>6. \A u \in Nat : Asleep(u)' = Asleep(u) /\ Weight(u)' = Weight(u)
  BY <1>1 DEF Asleep, Weight
<1>7. RatesBelow'
  <2>1. \A i \in DOMAIN rates' : rates'[i] <= highest'
    <3> SUFFICES ASSUME NEW i \in 1..Len(rates) + 1 PROVE Append(rates, r)[i] <= highest'
      BY <1>1, <1>2
    <3>1. CASE i = Len(rates) + 1
      BY <1>2, <1>5, <3>1
    <3>2. CASE i \in 1..Len(rates)
      <4>1. rates[i] \in Nat /\ rates[i] <= highest
        BY <1>2, <3>2, LimiterAssumption DEF PaceInv, RatesBelow
      <4> QED
        BY <1>2, <1>4, <1>5, <3>2, <4>1
    <3> QED
      BY <1>2, <3>1, <3>2
  <2>2. ASSUME NEW w \in Workers
        PROVE  rate[w] <= highest' /\ bucket[w].limit <= highest' /\ bucket[w].burst <= highest'
    <3>1. /\ rate[w] \in Rates \cup {0} /\ bucket[w].limit \in Rates \cup {0}
          /\ bucket[w].burst \in Rates \cup {0}
      BY DEF PaceInv, IInv, TypeOK
    <3>2. \A q \in Rates \cup {0} : q \in Nat
      BY LimiterAssumption
    <3>3. rate[w] <= highest /\ bucket[w].limit <= highest /\ bucket[w].burst <= highest
      BY DEF PaceInv, RatesBelow
    <3>4. \A q \in Nat : q <= highest => q <= highest'
      BY <1>4, <1>5
    <3> QED
      BY <3>1, <3>2, <3>3, <3>4
  <2> QED
    BY <1>1, <2>1, <2>2 DEF PaceInv, RatesBelow
<1>8. Accounted'
  <2> SUFFICES ASSUME registry # NoWorker
               PROVE  \E v \in Int :
                         /\ Level <= v
                         /\ meter + v + Weight(0) <= (highest' + Cardinality(Workers) - 1) * Second
                         /\ Covered(v)'
    BY <1>1, <1>6 DEF Accounted, Level
  <2>1. PICK v \in Int : /\ Level <= v /\ Covered(v)
                         /\ meter + v + Weight(0) <= (highest + Cardinality(Workers) - 1) * Second
    BY DEF PaceInv, Accounted
  <2>2. (highest + Cardinality(Workers) - 1) * Second
          <= (highest' + Cardinality(Workers) - 1) * Second
    BY <1>4, <1>5, TimesMonotone
  <2>3. Weight(0) \in Nat
    BY AsleepInPool DEF PaceInv
  <2>4. ASSUME NEW u \in Nat PROVE v + highest' * u + Weight(u)' >= 0
    <3>1. v + highest * u + Weight(u) >= 0
      BY <2>1 DEF Covered
    <3>2. Weight(u) \in Nat /\ Weight(u)' = Weight(u)
      BY <1>6, AsleepInPool DEF PaceInv
    <3>3. highest \in Int /\ highest' \in Int /\ highest <= highest' /\ u \in Int
      BY <1>4, <1>5
    <3>4. highest * u <= highest' * u
      BY <3>3, TimesMonotone
    <3>5. highest * u \in Int /\ highest' * u \in Int
      BY <3>3, Times
    <3> QED
      BY <3>1, <3>2, <3>4, <3>5
  <2>5. /\ (highest + Cardinality(Workers) - 1) * Second \in Int
        /\ (highest' + Cardinality(Workers) - 1) * Second \in Int
    BY <1>4, <1>5, Times
  <2>6. meter + v + Weight(0) <= (highest' + Cardinality(Workers) - 1) * Second
    BY <1>4, <2>1, <2>2, <2>3, <2>5
  <2> QED
    BY <2>1, <2>4, <2>6 DEF Covered
<1>9. SomeoneOnTime'
  BY <1>1 DEF PaceInv, SomeoneOnTime, AllAsleep, Level, Limit
<1> QED
  BY <1>3, <1>7, <1>8, <1>9 DEF PaceInv, OneRate, NobodyGivesUp

\* Who takes a token sleeps until its bucket has gained it: the account stays as
\* good as it was, and no better.
LEMMA ReservePace ==
    ASSUME PaceInv, IInv', NEW w \in Workers, Reserve(w)
    PROVE  PaceInv'
<1>1. /\ pc[w] = "reserve" /\ mine[w] = registry /\ registry \in Workers /\ registry # NoWorker
      /\ bucket \in [Workers -> Bucket] /\ bucket[registry] \in Bucket
      /\ Level \in Int /\ Limit \in Nat \ {0} /\ Limit <= highest
      /\ highest \in Nat \ {0} /\ meter \in Nat /\ Second \in Nat \ {0}
      /\ Cardinality(Workers) \in Nat
      /\ rate[w] <= highest /\ MaxWait \in Nat
  BY PaceTypes, LimiterAssumption
     DEF PaceInv, IInv, TypeOK, OneBucket, Holding, Reserve, RatesBelow, Limit
<1> DEFINE b == Advance(bucket[registry])
           left == b.level - Second
           delay == Delay(left, b.limit)
           new == [b EXCEPT !.level = left]
           l == IF delay = 0 THEN "idle" ELSE "sleep"
<1>2. /\ b \in Bucket /\ b.limit = Limit /\ b.burst = bucket[registry].burst
      /\ b.level \in Int /\ left \in Int
      /\ b.level <= Level /\ b.level \in {Level, b.burst * Second} /\ b.burst * Second \in Nat
  <2>1. /\ b \in Bucket /\ b.limit = Limit /\ b.burst = bucket[registry].burst
    <3>1. PICK r \in Rates : TRUE
      BY LimiterAssumption
    <3> QED
      BY <1>1, <3>1, BucketCalls DEF Limit
  <2>2. b.level \in Int /\ left \in Int
    BY <1>1, <2>1 DEF Bucket
  <2>3. /\ b.level <= Level /\ b.level \in {Level, bucket[registry].burst * Second}
        /\ bucket[registry].burst * Second \in Nat
    BY <1>1, AdvanceLevel DEF Level
  <2> QED
    BY <2>1, <2>2, <2>3
<1>3. new.level = left /\ new.limit = Limit /\ new.burst = bucket[registry].burst
  BY <1>2 DEF Bucket
<1>4. /\ delay \in Nat
      /\ left + Limit * delay >= 0
      /\ delay > 0 => left + Limit * (delay - 1) < 0
      /\ delay = 0 => left >= 0
  BY <1>1, <1>2, DelayWaits
<1>5. UNCHANGED <<rates, highest, taken, registry, rate, mine>>
  BY DEF Reserve
<1>6. \/ /\ delay <= MaxWait
         /\ bucket' = [bucket EXCEPT ![registry] = new]
         /\ until' = [until EXCEPT ![w] = delay]
         /\ pc' = [pc EXCEPT ![w] = l]
         /\ meter' = IF delay = 0 THEN meter + Second ELSE meter
         /\ UNCHANGED gaveUp
      \/ /\ delay > MaxWait
         /\ pc' = [pc EXCEPT ![w] = "idle"]
         /\ UNCHANGED <<bucket, until, meter>>
  BY <1>1, <1>4 DEF Reserve, InTime, Goto
<1>7. /\ pc \in [Workers -> Labels] /\ until \in [Workers -> 0..MaxWait]
      /\ \A o \in Workers : pc[o] = "sleep" => until[o] \in 1..MaxWait
  BY DEF PaceInv, IInv, TypeOK, OneBucket
<1>8. \A u \in Nat : highest * u \in Nat /\ Weight(u) \in Nat
  BY <1>1, TimesPositive, AsleepInPool DEF PaceInv
<1>9. ~AllAsleep
  BY <1>1 DEF AllAsleep
<1> HIDE DEF b, left, delay, new
<1>10. ASSUME delay <= MaxWait,
              bucket' = [bucket EXCEPT ![registry] = new],
              until' = [until EXCEPT ![w] = delay],
              pc' = [pc EXCEPT ![w] = l],
              meter' = IF delay = 0 THEN meter + Second ELSE meter,
              UNCHANGED gaveUp
       PROVE  PaceInv'
  <2>1. /\ Level' = left /\ Limit' = Limit /\ bucket'[registry'] = new
        /\ \A o \in Workers \ {registry} : bucket'[o] = bucket[o]
    BY <1>1, <1>3, <1>5, <1>10 DEF Level, Limit
  <2>2. ASSUME NEW u \in Nat
        PROVE  Weight(u)' = IF u < delay THEN Weight(u) + Second ELSE Weight(u)
    <3>1. \A o \in Workers \ {w} : pc'[o] = pc[o] /\ until'[o] = until[o]
      BY <1>7, <1>10
    <3>2. /\ pc[w] # "sleep" /\ until'[w] = delay
          /\ pc'[w] = "sleep" <=> delay # 0
      BY <1>1, <1>7, <1>10
    <3>3. Asleep(u)' = IF u < delay THEN Asleep(u) \cup {w} ELSE Asleep(u)
      BY <1>4, <3>1, <3>2 DEF Asleep
    <3>4. w \notin Asleep(u) /\ IsFiniteSet(Asleep(u)) /\ Cardinality(Asleep(u)) \in Nat
      BY <3>2, AsleepInPool DEF Asleep, PaceInv
    <3>5. Cardinality(Asleep(u) \cup {w}) = Cardinality(Asleep(u)) + 1
      BY <3>4, FS_AddElement
    <3>6. Second * (Cardinality(Asleep(u)) + 1) = Second * Cardinality(Asleep(u)) + Second
      BY <1>1, <3>4, Times
    <3> QED
      BY <3>3, <3>5, <3>6 DEF Weight
  <2>3. meter' + Weight(0)' = meter + Weight(0) + Second
    BY <1>1, <1>4, <1>8, <1>10, <2>2
  <2>4. ASSUME NEW u \in Nat PROVE Limit * u \in Nat /\ Limit * u <= highest * u
    BY <1>1, TimesMonotone, TimesPositive
  <2>5. RatesBelow'
    BY <1>1, <1>3, <1>5, <2>1 DEF PaceInv, RatesBelow
  <2>6. Accounted'
    <3>1. PICK v \in Int : /\ Level <= v /\ Covered(v)
                           /\ meter + v + Weight(0) <= (highest + Cardinality(Workers) - 1) * Second
      BY <1>1 DEF PaceInv, Accounted
    <3>2. v - Second \in Int /\ left <= v - Second /\ left \in Int
      BY <1>1, <1>2, <3>1 DEF left
    <3>3. ASSUME NEW u \in Nat PROVE (v - Second) + highest * u + Weight(u)' >= 0
      <4>1. CASE u < delay
        <5>1. Weight(u)' = Weight(u) + Second
          BY <2>2, <4>1
        <5> QED
          BY <1>1, <1>8, <3>1, <5>1 DEF Covered
      <4>2. CASE u >= delay
        <5>1. Limit * delay <= Limit * u
          BY <1>1, <1>4, <4>2, TimesMonotone
        <5>2. Limit * delay \in Nat /\ Limit * u \in Nat /\ Limit * u <= highest * u
          BY <1>4, <2>4
        <5>3. Weight(u)' \in Nat
          BY <1>1, <1>8, <2>2
        <5> QED
          BY <1>4, <1>8, <3>2, <5>1, <5>2, <5>3
      <4> QED
        BY <1>4, <4>1, <4>2
    <3>4. meter' + (v - Second) + Weight(0)' <= (highest + Cardinality(Workers) - 1) * Second
      <4>1. meter' \in Int /\ Weight(0)' \in Int
        BY <1>1, <1>4, <1>8, <1>10, <2>2
      <4> QED
        BY <1>1, <1>8, <2>3, <3>1, <4>1
    <3>5. Level' <= v - Second /\ Covered(v - Second)'
      BY <1>5, <2>1, <3>2, <3>3 DEF Covered
    <3> QED
      BY <1>5, <3>2, <3>4, <3>5 DEF Accounted
  <2>7. SomeoneOnTime'
    <3> SUFFICES ASSUME AllAsleep'
                 PROVE  \E o \in Workers : Level' + Limit' * (until'[o] - 1) < 0
      BY DEF SomeoneOnTime
    <3>1. pc'[w] = "sleep" /\ until'[w] = delay /\ delay # 0
      BY <1>7, <1>10 DEF AllAsleep
    <3> QED
      BY <1>4, <2>1, <3>1
  <2>8. OneRate'
    <3> SUFFICES ASSUME Len(rates) = 1 PROVE OneRate'
      BY <1>5 DEF OneRate
    <3>1. /\ highest = rates[1] /\ Limit = highest /\ bucket[registry].burst = highest
          /\ meter + Level + Weight(0) <= highest * Second
          /\ Covered(Level)
      BY <1>1 DEF PaceInv, OneRate
    <3>2. highest * Second \in Nat
      BY <1>1, TimesPositive
    <3>3. b.level = Level
      <4>1. Level <= highest * Second
        BY <1>1, <1>8, <3>1, <3>2
      <4>2. b.burst = highest
        BY <1>2, <3>1
      <4> QED
        BY <1>1, <1>2, <3>2, <4>1, <4>2
    <3>4. left = Level - Second
      BY <3>3 DEF left
    <3>5. meter' + left + Weight(0)' <= highest * Second
      <4>1. meter' \in Int /\ Weight(0)' \in Int
        BY <1>1, <1>4, <1>8, <1>10, <2>2
      <4> QED
        BY <1>1, <1>8, <2>3, <3>1, <3>2, <3>4, <4>1
    <3>6. ASSUME NEW u \in Nat PROVE left + highest * u + Weight(u)' >= 0
      <4>1. CASE u < delay
        <5>1. Weight(u)' = Weight(u) + Second
          BY <2>2, <4>1
        <5>2. Level + highest * u + Weight(u) >= 0
          BY <3>1 DEF Covered
        <5> QED
          BY <1>1, <1>8, <3>4, <5>1, <5>2
      <4>2. CASE u >= delay
        <5>1. highest * delay <= highest * u
          BY <1>1, <1>4, <4>2, TimesMonotone
        <5>2. Weight(u)' \in Nat
          BY <1>1, <1>8, <2>2
        <5> QED
          BY <1>1, <1>2, <1>4, <1>8, <3>1, <3>4, <5>1, <5>2
      <4> QED
        BY <1>4, <4>1, <4>2
    <3>7. ASSUME NEW u \in Nat, Asleep(u)' # {}
          PROVE  left + Weight(u)' - Second + highest * u < 0
      <4>1. CASE Asleep(u) = {}
        <5>1. Weight(u) = 0
          BY <4>1, AsleepInPool DEF PaceInv
        <5>2. u < delay
          <6>1. CASE ~(u < delay)
            <7>1. PICK o \in Workers : o \in Asleep(u)'
              BY <3>7 DEF Asleep
            <7>2. pc'[o] = "sleep" /\ until'[o] > u
              BY <7>1 DEF Asleep
            <7>3. o = w
              BY <1>7, <1>10, <4>1, <7>2 DEF Asleep
            <7> QED
              BY <1>4, <1>7, <1>10, <6>1, <7>2, <7>3
          <6> QED
            BY <6>1
        <5>3. Weight(u)' = Second
          BY <1>1, <2>2, <5>1, <5>2
        <5>4. highest * u <= highest * (delay - 1) /\ highest * (delay - 1) \in Int
          <6>1. u \in Int /\ delay - 1 \in Int /\ u <= delay - 1
            BY <1>4, <5>2
          <6> QED
            BY <1>1, <6>1, TimesMonotone, Times
        <5>5. left + highest * (delay - 1) < 0
          BY <1>4, <3>1, <5>2
        <5> QED
          BY <1>1, <1>2, <1>8, <3>4, <5>3, <5>4, <5>5
      <4>2. CASE Asleep(u) # {}
        <5>1. Level + Weight(u) - Second + highest * u < 0
          BY <1>1, <4>2 DEF PaceInv, OneRate
        <5>2. Weight(u)' <= Weight(u) + Second /\ Weight(u)' \in Int
          BY <1>1, <1>8, <2>2
        <5> QED
          BY <1>1, <1>8, <3>4, <5>1, <5>2
      <4> QED
        BY <4>1, <4>2
    <3>8. \A o \in Workers : /\ pc'[o] \notin {"limit", "burst"}
                             /\ pc'[o] \notin {"idle", "sleep"} => rate'[o] = highest
      BY <1>5, <1>7, <1>10 DEF PaceInv, OneRate
    <3>9. Limit' = highest' /\ bucket'[registry'].burst = highest'
      BY <1>3, <1>5, <2>1, <3>1
    <3>10. Covered(Level)'
      BY <1>5, <2>1, <3>6 DEF Covered
    <3> QED
      BY <1>5, <2>1, <3>1, <3>5, <3>7, <3>8, <3>9, <3>10 DEF OneRate
  <2>9. NobodyGivesUp'
    BY <1>5, <1>10 DEF PaceInv, NobodyGivesUp
  <2> QED
    BY <2>5, <2>6, <2>7, <2>8, <2>9 DEF PaceInv
<1>11. ASSUME delay > MaxWait, pc' = [pc EXCEPT ![w] = "idle"], UNCHANGED <<bucket, until, meter>>
       PROVE  PaceInv'
  <2>1. /\ \A u \in Nat : Asleep(u)' = Asleep(u) /\ Weight(u)' = Weight(u)
        /\ ~AllAsleep'
    BY <1>1, <1>11, AsleepUntouched DEF PaceInv
  <2>2. Level' = Level /\ Limit' = Limit
    BY <1>5, <1>11 DEF Level, Limit
  <2>3. RatesBelow'
    BY <1>5, <1>7, <1>11 DEF PaceInv, RatesBelow
  <2>4. Accounted'
    <3>1. Level' <= Level
      BY <1>1, <2>2
    <3> QED
      BY <1>1, <1>5, <1>11, <2>1, <2>2, <3>1, AccountedStays DEF PaceInv
  <2>5. SomeoneOnTime'
    BY <2>1 DEF SomeoneOnTime
  <2>6. OneRate'
    <3>1. Covered(Level) => Covered(Level)'
      BY <1>5, <2>1, <2>2 DEF Covered
    <3>2. Weight(0)' = Weight(0)
      BY <2>1
    <3>3. \A o \in Workers : pc'[o] = IF o = w THEN "idle" ELSE pc[o]
      BY <1>7, <1>11
    <3> QED
      BY <1>5, <1>11, <2>1, <2>2, <3>1, <3>2, <3>3 DEF PaceInv, OneRate
  <2>7. NobodyGivesUp'
    <3> SUFFICES ASSUME Len(rates) = 1, Cardinality(Workers) * Second < MaxWait * rates[1]
                 PROVE  FALSE
      BY <1>5 DEF NobodyGivesUp
    <3>1. highest = rates[1] /\ Limit = highest /\ Covered(Level)
      BY <1>1 DEF PaceInv, OneRate
    <3>2. Level + Weight(0) >= 0
      <4>1. Level + highest * 0 + Weight(0) >= 0 /\ highest * 0 = 0
        BY <1>1, <3>1, Times DEF Covered
      <4> QED
        BY <1>1, <1>8, <4>1
    <3>3. Weight(0) <= Second * Cardinality(Workers) - Second
      BY <1>9, AsleepInPool DEF PaceInv
    <3>4. Second * Cardinality(Workers) \in Nat
      BY <1>1, TimesPositive
    <3>5. b.level >= Second - Second * Cardinality(Workers)
      <4>1. CASE b.level = Level
        BY <1>1, <1>8, <3>2, <3>3, <3>4, <4>1
      <4>2. CASE b.level = b.burst * Second
        <5>1. Weight(0) >= 0
          BY <1>8
        <5> QED
          BY <1>1, <1>2, <1>8, <3>3, <3>4, <4>2, <5>1
      <4> QED
        BY <1>2, <4>1, <4>2
    <3>6. left >= 0 - Second * Cardinality(Workers)
      BY <1>1, <1>2, <3>4, <3>5 DEF left
    <3>7. MaxWait \in Int /\ delay - 1 \in Int /\ MaxWait <= delay - 1 /\ delay > 0
      BY <1>1, <1>4, <1>11
    <3>8. highest * MaxWait <= highest * (delay - 1)
      BY <1>1, <3>7, TimesMonotone
    <3>9. highest * MaxWait \in Int /\ highest * (delay - 1) \in Int
      BY <1>1, <3>7, Times
    <3>10. left + highest * (delay - 1) < 0
      BY <1>4, <3>1, <3>7
    <3>11. Second * Cardinality(Workers) < highest * MaxWait
      BY <1>1, <3>1
    <3> QED
      BY <1>2, <3>4, <3>6, <3>8, <3>9, <3>10, <3>11
  <2> QED
    BY <2>3, <2>4, <2>5, <2>6, <2>7 DEF PaceInv
<1> QED
  BY <1>6, <1>10, <1>11

\* After a tick everybody is a tick nearer to the send, and those who were one
\* tick away have sent.
LEMMA TickAsleep ==
    ASSUME IInv, Tick
    PROVE  /\ \A u \in Nat : Weight(u)' = Weight(u + 1)
           /\ Weight(1) <= Weight(0)
           /\ Second * Cardinality(Due) = Weight(0) - Weight(1)
<1>1. /\ pc \in [Workers -> Labels] /\ until \in [Workers -> 0..MaxWait] /\ MaxWait \in Nat
      /\ \A w \in Workers : pc[w] = "sleep" => until[w] \in 1..MaxWait
      /\ Second \in Nat \ {0}
  BY LimiterAssumption DEF IInv, TypeOK, OneBucket
<1>2. ASSUME NEW u \in Nat PROVE Weight(u)' = Weight(u + 1)
  <2>1. ASSUME NEW w \in Workers
        PROVE  pc'[w] = "sleep" /\ until'[w] > u <=> pc[w] = "sleep" /\ until[w] > u + 1
    <3>1. /\ pc'[w] = IF w \in Due THEN "idle" ELSE pc[w]
          /\ until'[w] = IF pc[w] = "sleep" THEN until[w] - 1 ELSE until[w]
      BY DEF Tick
    <3>2. CASE pc[w] = "sleep"
      <4>1. until[w] \in Int
        BY <1>1
      <4> QED
        BY <3>1, <3>2, <4>1 DEF Due
    <3>3. CASE pc[w] # "sleep"
      BY <3>1, <3>3 DEF Due
    <3> QED
      BY <3>2, <3>3
  <2>2. Asleep(u)' = Asleep(u + 1)
    BY <2>1 DEF Asleep
  <2> QED
    BY <2>2 DEF Weight
<1>3. Due = Asleep(0) \ Asleep(1) /\ Asleep(1) \subseteq Asleep(0)
  <2>1. \A n \in Int : (n > 0 <=> n = 1 \/ n > 1) /\ (n = 1 => ~(n > 1))
    OBVIOUS
  <2>2. \A w \in Workers : until[w] \in Int
    BY <1>1
  <2> QED
    BY <2>1, <2>2 DEF Due, Asleep
<1>4. /\ IsFiniteSet(Asleep(0)) /\ IsFiniteSet(Asleep(1))
      /\ Cardinality(Asleep(0)) \in Nat /\ Cardinality(Asleep(1)) \in Nat
  BY AsleepInPool
<1>5. /\ Cardinality(Due) = Cardinality(Asleep(0)) - Cardinality(Asleep(1))
      /\ Cardinality(Due) \in Nat
  <2>1. Asleep(0) \cap Asleep(1) = Asleep(1)
    BY <1>3
  <2>2. Cardinality(Asleep(0) \ Asleep(1)) = Cardinality(Asleep(0)) - Cardinality(Asleep(0) \cap Asleep(1))
    BY <1>4, FS_Difference
  <2>3. IsFiniteSet(Due)
    BY <1>3, <1>4, FS_Difference
  <2> QED
    BY <1>3, <2>1, <2>2, <2>3, FS_CardinalityType
<1> DEFINE m == Cardinality(Asleep(0))
           n == Cardinality(Asleep(1))
           d == Cardinality(Due)
<1>6. m \in Nat /\ n \in Nat /\ d \in Nat /\ d = m - n
  BY <1>4, <1>5
<1> HIDE DEF m, n, d
<1>7. Second * d = Second * m - Second * n /\ Second * n <= Second * m
  <2>1. Second * (m - n) = Second * m - Second * n
    BY <1>1, <1>6
  <2>2. Second * n <= Second * m
    BY <1>1, <1>6, TimesMonotone
  <2> QED
    BY <1>6, <2>1, <2>2
<1> QED
  BY <1>2, <1>7 DEF Weight, m, n, d

\* A tick: the highest rate drains the meter at least as fast as it fills any
\* bucket, and where it has nothing to drain the caps hold.
LEMMA TickPace ==
    ASSUME PaceInv, IInv', Tick
    PROVE  PaceInv'
<1>1. UNCHANGED <<rates, highest, taken, registry, rate, mine, gaveUp>>
  BY DEF Tick
<1>2. /\ highest \in Nat \ {0} /\ meter \in Nat /\ Second \in Nat \ {0}
      /\ Cardinality(Workers) \in Nat
  BY PaceTypes DEF PaceInv
<1>3. /\ \A u \in Nat : Weight(u) \in Nat /\ Weight(u)' = Weight(u + 1)
      /\ Weight(0)' = Weight(1) /\ Weight(1) <= Weight(0)
      /\ Weight(0) \in Nat /\ Weight(1) \in Nat
  BY TickAsleep, AsleepInPool DEF PaceInv
<1>4. /\ meter' = Greater(meter - highest, 0) + (Weight(0) - Weight(1))
  BY TickAsleep DEF Tick, PaceInv
<1>5. \A u \in Nat : highest * u \in Nat /\ highest * (u + 1) = highest * u + highest
  BY <1>2, TimesPositive, Times
<1>6. /\ pc \in [Workers -> Labels] /\ until \in [Workers -> 0..MaxWait] /\ MaxWait \in Nat
      /\ \A w \in Workers : pc[w] \in {"idle", "sleep"}
      /\ \A w \in Workers : pc[w] = "sleep" => until[w] \in 1..MaxWait
  BY LimiterAssumption DEF PaceInv, IInv, TypeOK, OneBucket, Tick
<1>7. \A w \in Workers : /\ pc'[w] = IF w \in Due THEN "idle" ELSE pc[w]
                         /\ until'[w] = IF pc[w] = "sleep" THEN until[w] - 1 ELSE until[w]
  BY DEF Tick
<1>8. ASSUME NEW o \in Workers
      PROVE  /\ bucket'[o].limit = bucket[o].limit /\ bucket'[o].burst = bucket[o].burst
             /\ bucket'[o].level <= bucket[o].level + bucket[o].limit
             /\ bucket'[o].level <= bucket[o].burst * Second
             /\ bucket'[o].level \in {bucket[o].level + bucket[o].limit, bucket[o].burst * Second}
             /\ bucket[o].burst * Second \in Nat
  <2> DEFINE b == [bucket[o] EXCEPT !.level = @ + bucket[o].limit]
  <2>1. bucket[o] \in Bucket /\ bucket[o].level \in Int /\ bucket[o].limit \in Int
    <3>1. bucket[o] \in Bucket
      BY DEF PaceInv, IInv, TypeOK, Bucket
    <3>2. bucket[o].level \in Int /\ bucket[o].limit \in Rates \cup {0}
      BY <3>1 DEF Bucket
    <3>3. \A q \in Rates \cup {0} : q \in Int
      BY LimiterAssumption
    <3> QED
      BY <3>1, <3>2, <3>3
  <2>2. /\ b \in Bucket /\ b.limit = bucket[o].limit /\ b.burst = bucket[o].burst
        /\ b.level = bucket[o].level + bucket[o].limit
    BY <2>1 DEF Bucket
  <2>3. bucket'[o] = Advance(b)
    BY DEF Tick
  <2> HIDE DEF b
  <2>4. PICK r \in Rates : TRUE
    BY LimiterAssumption
  <2>5. Advance(b).limit = b.limit /\ Advance(b).burst = b.burst
    BY <2>2, <2>4, BucketCalls
  <2> QED
    BY <2>2, <2>3, <2>5, AdvanceLevel
<1>9. RatesBelow'
  <2>1. \A w \in Workers : pc'[w] = "sleep" => pc[w] = "sleep"
    BY <1>7
  <2>2. registry = NoWorker => meter' = 0
    <3> SUFFICES ASSUME registry = NoWorker PROVE meter' = 0
      OBVIOUS
    <3>1. meter = 0 /\ Asleep(0) = {}
      BY DEF PaceInv, RatesBelow, Asleep
    <3>2. Weight(0) = 0
      BY <3>1, AsleepInPool DEF PaceInv
    <3> QED
      BY <1>2, <1>3, <1>4, <3>1, <3>2 DEF Greater
  <2> QED
    BY <1>1, <1>8, <2>1, <2>2 DEF PaceInv, RatesBelow
<1> DEFINE room == (highest + Cardinality(Workers) - 1) * Second
<1>10. /\ room \in Nat
       /\ room = highest * Second + Second * Cardinality(Workers) - Second
       /\ highest * Second \in Nat /\ Second * Cardinality(Workers) \in Nat
       /\ Second <= highest * Second
  <2>1. highest * Second \in Nat /\ Second * Cardinality(Workers) \in Nat
    BY <1>2, TimesPositive
  <2>2. room = highest * Second + Second * Cardinality(Workers) - Second
    BY <1>2
  <2>3. 1 * Second <= highest * Second
    <3>1. 1 \in Int /\ highest \in Int /\ 1 <= highest /\ Second \in Nat
      BY <1>2
    <3> QED
      BY <3>1, TimesMonotone
  <2>4. Second <= highest * Second
    BY <1>2, <2>3
  <2> QED
    BY <1>2, <2>1, <2>2, <2>4
<1>11. ASSUME registry # NoWorker
       PROVE  /\ Level \in Int /\ Limit \in Nat \ {0} /\ Limit <= highest /\ Limit' = Limit
              /\ Level' \in Int
              /\ Level' <= Level + Limit /\ Level' <= highest * Second
              /\ Level' \in {Level + Limit, bucket[registry].burst * Second}
              /\ bucket[registry].burst * Second \in Nat
              /\ bucket'[registry'].burst = bucket[registry].burst
  <2>1. /\ registry \in Workers /\ Level \in Int /\ Limit \in Nat \ {0} /\ Limit <= highest
        /\ bucket[registry].burst <= highest
    BY <1>11, PaceTypes DEF PaceInv, RatesBelow, Limit
  <2>2. /\ Limit' = Limit /\ bucket'[registry'].burst = bucket[registry].burst
        /\ Level' <= Level + Limit /\ Level' <= bucket[registry].burst * Second
        /\ Level' \in {Level + Limit, bucket[registry].burst * Second}
        /\ bucket[registry].burst * Second \in Nat
    BY <1>1, <1>8, <2>1 DEF Level, Limit
  <2>3. bucket[registry].burst * Second <= highest * Second
    <3>1. bucket[registry].burst \in Rates \cup {0}
      BY <2>1 DEF PaceInv, IInv, TypeOK
    <3>2. \A q \in Rates \cup {0} : q \in Int
      BY LimiterAssumption
    <3>3. bucket[registry].burst \in Int
      BY <3>1, <3>2
    <3> QED
      BY <1>2, <2>1, <3>3, TimesMonotone
  <2> QED
    BY <1>10, <2>1, <2>2, <2>3
<1> HIDE DEF room
<1>12. Accounted'
  <2> SUFFICES ASSUME registry # NoWorker
               PROVE  \E v \in Int : Level' <= v /\ meter' + v + Weight(1) <= room /\ Covered(v)'
    BY <1>1, <1>3 DEF Accounted, room
  <2>1. PICK v \in Int : Level <= v /\ Covered(v) /\ meter + v + Weight(0) <= room
    BY DEF PaceInv, Accounted, room
  <2> PICK full \in Int : full = v + highest
    BY <1>2
  <2>2. Level' <= full
    BY <1>2, <1>11, <2>1
  <2>3. Covered(full)'
    <3>1. ASSUME NEW u \in Nat PROVE full + highest * u + Weight(u)' >= 0
      <4>1. u + 1 \in Nat
        OBVIOUS
      <4>2. v + highest * (u + 1) + Weight(u + 1) >= 0
        BY <2>1, <4>1 DEF Covered
      <4>3. /\ highest * (u + 1) = highest * u + highest /\ highest * u \in Nat
            /\ Weight(u)' = Weight(u + 1) /\ Weight(u + 1) \in Nat
        BY <1>3, <1>5, <4>1
      <4> QED
        BY <1>2, <4>2, <4>3
    <3> QED
      BY <1>1, <3>1 DEF Covered
  <2>4. CASE meter >= highest \/ v + highest + Weight(0) <= room
    <3>1. meter' + full + Weight(1) <= room
      BY <1>2, <1>3, <1>4, <1>10, <2>1, <2>4 DEF Greater
    <3> QED
      BY <2>2, <2>3, <3>1
  <2>5. CASE meter < highest /\ v + highest + Weight(0) > room
    <3> PICK z \in Int : z = room - Weight(0)
      BY <1>3, <1>10
    <3>1. z >= 0
      <4>1. Weight(0) <= Second * Cardinality(Workers)
        BY AsleepInPool DEF PaceInv
      <4> QED
        BY <1>2, <1>3, <1>10, <4>1
    <3>2. Level' <= z
      <4>1. CASE ~AllAsleep
        <5>1. Weight(0) <= Second * Cardinality(Workers) - Second
          BY <4>1, AsleepInPool DEF PaceInv
        <5> QED
          BY <1>2, <1>3, <1>10, <1>11, <5>1
      <4>2. CASE AllAsleep
        <5>1. PICK w \in Workers : Level + Limit * (until[w] - 1) < 0
          BY <4>2 DEF PaceInv, SomeoneOnTime
        <5>2. until[w] - 1 \in Nat
          BY <1>6, <4>2 DEF AllAsleep
        <5>3. Limit * (until[w] - 1) \in Nat
          BY <1>11, <5>2, TimesPositive
        <5>4. Level + Limit <= highest - 1
          BY <1>2, <1>11, <5>1, <5>3
        <5>5. highest + Second - 1 <= highest * Second
          BY <1>2, SumBelowProduct
        <5>6. Weight(0) <= Second * Cardinality(Workers)
          BY AsleepInPool DEF PaceInv
        <5> QED
          BY <1>2, <1>3, <1>10, <1>11, <5>4, <5>5, <5>6
      <4> QED
        BY <4>1, <4>2
    <3>3. meter' + z + Weight(1) <= room
      BY <1>2, <1>3, <1>4, <1>10, <2>5 DEF Greater
    <3>4. Covered(z)'
      <4>1. \A u \in Nat : Weight(u)' \in Nat /\ highest * u \in Nat
        BY <1>3, <1>5
      <4>2. \A u \in Nat : z + highest * u + Weight(u)' >= 0
        BY <3>1, <4>1
      <4> QED
        BY <1>1, <4>2 DEF Covered
    <3> QED
      BY <3>2, <3>3, <3>4
  <2> QED
    BY <1>2, <1>3, <1>10, <2>4, <2>5
<1>13. SomeoneOnTime'
  <2> SUFFICES ASSUME registry # NoWorker, AllAsleep'
               PROVE  \E w \in Workers : Level' + Limit' * (until'[w] - 1) < 0
    BY <1>1 DEF SomeoneOnTime
  <2>1. \A w \in Workers : pc[w] = "sleep" /\ w \notin Due
    BY <1>7 DEF AllAsleep
  <2>2. PICK w \in Workers : Level + Limit * (until[w] - 1) < 0
    BY <2>1 DEF PaceInv, SomeoneOnTime, AllAsleep
  <2>3. until[w] \in Nat /\ until[w] # 1 /\ until'[w] = until[w] - 1
    BY <1>6, <1>7, <2>1 DEF Due
  <2> DEFINE n == until[w] - 1
  <2>4. Limit * (n - 1) = Limit * n - Limit /\ Limit * n \in Int /\ until'[w] = n
    BY <1>11, <2>3, Times
  <2> HIDE DEF n
  <2>5. Level + Limit * n < 0
    BY <2>2 DEF n
  <2>6. Level' + Limit' * (n - 1) < 0
    BY <1>11, <2>4, <2>5
  <2> QED
    BY <2>4, <2>6
<1>14. OneRate'
  <2> SUFFICES ASSUME Len(rates) = 1 PROVE OneRate'
    BY <1>1 DEF OneRate
  <2>1. \A w \in Workers : pc'[w] \in {"idle", "sleep"}
    BY <1>6, <1>7
  <2>2. highest = rates[1]
    BY DEF PaceInv, OneRate
  <2>3. ASSUME registry # NoWorker
        PROVE  /\ Limit' = highest /\ bucket'[registry'].burst = highest
               /\ meter' + Level' + Weight(0)' <= highest * Second
               /\ Covered(Level)'
               /\ \A u \in Nat : Asleep(u)' # {} =>
                     Level' + Weight(u)' - Second + highest * u < 0
    <3>1. /\ Limit = highest /\ bucket[registry].burst = highest
          /\ meter + Level + Weight(0) <= highest * Second
          /\ Covered(Level)
      BY <2>3 DEF PaceInv, OneRate
    <3>2. Level' <= Level + highest
      BY <1>11, <2>3, <3>1
    <3>3. meter' + Level' + Weight(1) <= highest * Second
      <4>1. CASE meter >= highest
        BY <1>2, <1>3, <1>4, <1>10, <1>11, <2>3, <3>1, <3>2, <4>1 DEF Greater
      <4>2. CASE meter < highest
        <5>1. meter' + Weight(1) = Weight(0)
          BY <1>2, <1>3, <1>4, <4>2 DEF Greater
        <5>2. CASE Asleep(0) = {}
          <6>1. Weight(0) = 0
            BY <5>2, AsleepInPool DEF PaceInv
          <6>2. meter' \in Int
            BY <1>2, <1>3, <1>4 DEF Greater
          <6> QED
            BY <1>2, <1>3, <1>10, <1>11, <2>3, <5>1, <6>1, <6>2
        <5>3. CASE Asleep(0) # {}
          <6>1. Level + Weight(0) - Second + highest * 0 < 0
            BY <2>3, <5>3 DEF PaceInv, OneRate
          <6>4. highest * 0 = 0
            BY <1>2, Times
          <6>2. highest + Second - 1 <= highest * Second
            BY <1>2, SumBelowProduct
          <6>3. meter' \in Int
            BY <1>2, <1>3, <1>4 DEF Greater
          <6> QED
            BY <1>2, <1>3, <1>10, <1>11, <2>3, <3>2, <5>1, <6>1, <6>2, <6>3, <6>4
        <5> QED
          BY <5>2, <5>3
      <4> QED
        BY <1>2, <4>1, <4>2
    <3>4. ASSUME NEW u \in Nat PROVE Level' + highest * u + Weight(u)' >= 0
      <4>1. /\ u + 1 \in Nat /\ highest * (u + 1) = highest * u + highest /\ highest * u \in Nat
            /\ Weight(u)' = Weight(u + 1) /\ Weight(u + 1) \in Nat
        BY <1>3, <1>5
      <4>2. Level + highest * (u + 1) + Weight(u + 1) >= 0
        BY <3>1, <4>1 DEF Covered
      <4>3. CASE Level' = Level + Limit
        BY <1>2, <1>11, <2>3, <3>1, <4>1, <4>2, <4>3
      <4>4. CASE Level' = bucket[registry].burst * Second
        BY <1>11, <2>3, <4>1, <4>4
      <4> QED
        BY <1>11, <2>3, <4>3, <4>4
    <3>5. ASSUME NEW u \in Nat, Asleep(u)' # {}
          PROVE  Level' + Weight(u)' - Second + highest * u < 0
      <4>1. /\ u + 1 \in Nat /\ highest * (u + 1) = highest * u + highest /\ highest * u \in Nat
            /\ Weight(u)' = Weight(u + 1) /\ Weight(u + 1) \in Nat
        BY <1>3, <1>5
      <4>2. Asleep(u + 1) # {}
        <5>1. PICK w \in Workers : pc'[w] = "sleep" /\ until'[w] > u
          BY <3>5 DEF Asleep
        <5>2. pc[w] = "sleep" /\ until[w] > u + 1
          BY <1>6, <1>7, <5>1
        <5> QED
          BY <5>2 DEF Asleep
      <4>3. Level + Weight(u + 1) - Second + highest * (u + 1) < 0
        BY <2>3, <4>1, <4>2 DEF PaceInv, OneRate
      <4> QED
        BY <1>2, <1>11, <2>3, <3>2, <4>1, <4>3
    <3>6. Covered(Level)'
      BY <1>1, <3>4 DEF Covered
    <3>7. Limit' = highest /\ bucket'[registry'].burst = highest
      BY <1>11, <2>3, <3>1
    <3> QED
      BY <1>3, <3>3, <3>5, <3>6, <3>7
  <2> QED
    BY <1>1, <2>1, <2>2, <2>3 DEF OneRate
<1>15. NobodyGivesUp'
  BY <1>1 DEF PaceInv, NobodyGivesUp
<1> QED
  BY <1>9, <1>12, <1>13, <1>14, <1>15 DEF PaceInv

LEMMA InitPace == Init => PaceInv
<1> SUFFICES ASSUME Init PROVE PaceInv
  OBVIOUS
<1>1. IInv
  BY InitInv
<1>2. PICK r \in Rates : rates = <<r>> /\ highest = r
  BY DEF Init
<1>3. r \in Nat \ {0} /\ 0 <= r /\ r <= r
  BY LimiterAssumption
<1>4. RatesBelow
  BY <1>2, <1>3 DEF Init, RatesBelow, NoBucket
<1>5. registry = NoWorker /\ gaveUp = FALSE /\ \A w \in Workers : pc[w] = "idle"
  BY DEF Init
<1> QED
  BY <1>1, <1>2, <1>4, <1>5
     DEF PaceInv, Accounted, SomeoneOnTime, OneRate, NobodyGivesUp

LEMMA NextPace == PaceInv /\ [Next]_vars => PaceInv'
<1> SUFFICES ASSUME PaceInv, [Next]_vars PROVE PaceInv'
  OBVIOUS
<1>1. IInv'
  BY NextInv DEF PaceInv
<1>2. ASSUME NEW w \in Workers, WorkerStep(w) PROVE PaceInv'
  BY <1>1, <1>2, TakePace, LoadPace, StorePace, ComparePace, SetLimitPace, SetBurstPace,
     ReservePace DEF WorkerStep
<1>3. ASSUME NEW r \in Rates, PatchRate(r) PROVE PaceInv'
  BY <1>1, <1>3, PatchPace
<1>4. ASSUME Tick PROVE PaceInv'
  BY <1>1, <1>4, TickPace
<1>5. ASSUME UNCHANGED vars PROVE PaceInv'
  <2>1. \A u \in Nat : Asleep(u)' = Asleep(u) /\ Weight(u)' = Weight(u)
    BY <1>5 DEF vars, Asleep, Weight
  <2>2. Level' = Level /\ Limit' = Limit /\ AllAsleep' = AllAsleep
    BY <1>5 DEF vars, Level, Limit, AllAsleep
  <2>3. \A v \in Int : Covered(v) => Covered(v)'
    BY <1>5, <2>1 DEF vars, Covered
  <2>4. Covered(Level) => Covered(Level)'
    BY <1>5, <2>1, <2>2 DEF vars, Covered
  <2>5. RatesBelow' /\ NobodyGivesUp'
    BY <1>5 DEF vars, PaceInv, RatesBelow, NobodyGivesUp
  <2>6. Weight(0)' = Weight(0)
    BY <2>1
  <2>7. Accounted'
    BY <1>5, <2>2, <2>3, <2>6 DEF vars, PaceInv, Accounted
  <2>8. SomeoneOnTime'
    BY <1>5, <2>2 DEF vars, PaceInv, SomeoneOnTime
  <2>9. OneRate'
    BY <1>5, <2>1, <2>2, <2>4, <2>6 DEF vars, PaceInv, OneRate
  <2> QED
    BY <1>1, <2>5, <2>7, <2>8, <2>9 DEF PaceInv
<1> QED
  BY <1>2, <1>3, <1>4, <1>5 DEF Next

\* However many workers share the bucket and whenever the rate changes, the
\* endpoint is never sent more than the highest rate and one burst allow, and one
\* token for each worker but one; with the rate left alone, not even those.
THEOREM LimiterPaces == Spec => []Paced
<1>1. PaceInv => Paced
  <2> SUFFICES ASSUME PaceInv PROVE Paced
    OBVIOUS
  <2>1. /\ highest \in Nat \ {0} /\ meter \in Nat /\ Second \in Nat \ {0}
        /\ Cardinality(Workers) \in Nat /\ Weight(0) \in Nat
    BY PaceTypes, AsleepInPool DEF PaceInv
  <2>2. \A v \in Int : Covered(v) => v + Weight(0) >= 0
    <3>1. highest * 0 = 0
      BY <2>1, Times
    <3>2. ASSUME NEW v \in Int, Covered(v) PROVE v + highest * 0 + Weight(0) >= 0
      BY <3>2 DEF Covered
    <3> QED
      BY <2>1, <3>1, <3>2
  <2>3. highest * Second \in Nat
    BY <2>1, TimesPositive
  <2>4. CASE registry = NoWorker
    <3>1. meter = 0
      BY <2>4 DEF PaceInv, RatesBelow
    <3>2. CASE Len(rates) = 1
      BY <2>1, <2>3, <3>1, <3>2 DEF Paced
    <3>3. CASE Len(rates) # 1
      <4>1. highest + (Cardinality(Workers) - 1) \in Nat
        BY <2>1
      <4>2. (highest + (Cardinality(Workers) - 1)) * Second \in Nat
        BY <2>1, <4>1, TimesPositive
      <4> QED
        BY <3>1, <3>3, <4>2 DEF Paced
    <3> QED
      BY <3>2, <3>3
  <2>5. CASE registry # NoWorker
    <3>1. CASE Len(rates) = 1
      <4>1. meter + Level + Weight(0) <= highest * Second /\ Covered(Level) /\ Level \in Int
        BY <2>5, <3>1, PaceTypes DEF PaceInv, OneRate
      <4>2. meter <= highest * Second
        BY <2>1, <2>2, <2>3, <4>1
      <4>3. (highest + 0) * Second = highest * Second
        BY <2>1
      <4> QED
        BY <3>1, <4>2, <4>3 DEF Paced
    <3>2. CASE Len(rates) # 1
      <4>1. PICK v \in Int :
               /\ Covered(v)
               /\ meter + v + Weight(0) <= (highest + Cardinality(Workers) - 1) * Second
        BY <2>5 DEF PaceInv, Accounted
      <4>2. highest + Cardinality(Workers) - 1 = highest + (Cardinality(Workers) - 1)
        BY <2>1
      <4>3. (highest + Cardinality(Workers) - 1) * Second \in Int
        BY <2>1, Times
      <4>4. meter <= (highest + Cardinality(Workers) - 1) * Second
        BY <2>1, <2>2, <4>1, <4>3
      <4> QED
        BY <3>2, <4>2, <4>4 DEF Paced
    <3> QED
      BY <3>1, <3>2
  <2> QED
    BY <2>4, <2>5
<1> QED
  BY InitPace, NextPace, <1>1, PTL DEF Spec

\* With the rate left alone, a pool whose workers together need less than the
\* patience of one fails nobody for waiting too long.
THEOREM LimiterServes == Spec => []NobodyGivesUp
<1>1. PaceInv => NobodyGivesUp
  BY DEF PaceInv
<1> QED
  BY InitPace, NextPace, <1>1, PTL DEF Spec
=============================================================================
