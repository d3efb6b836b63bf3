--------------------------- MODULE RetryPolicyProofs ---------------------------
(***************************************************************************)
(* Theorems about RetryPolicy, for every configuration Config.Validate     *)
(* lets pass and every outcome of the random jitter.                       *)
(***************************************************************************)
EXTENDS RetryPolicy, TLAPS

\* What Load reads and Validate lets pass is a configuration: the delays are
\* positive int64 values in their order, and the retries are a number.
LEMMA AcceptedConfig ==
    ASSUME NEW c \in Configs
    PROVE  /\ c.base \in 1..MaxDuration
           /\ c.max \in 1..MaxDuration
           /\ c.base <= c.max
           /\ c.retries \in Nat
           /\ MaxDuration \in Nat
<1>1. PICK env \in Environments : c = Load(env) /\ Validate(c)
  BY DEF Configs
<1>2. ASSUME NEW s \in Settings
      PROVE  c[s] \in Int64
  <2>1. env[s] \in Int64 \cup {Unset, Malformed} /\ Fallback[s] \in 1..MaxDuration
    BY RetryAssumption
  <2>2. Fallback[s] \in Int64
    BY <2>1, RetryAssumption DEF Int64
  <2>3. c[s] = GetEnv(env[s], Fallback[s])
    BY <1>1 DEF Load
  <2> QED
    BY <2>1, <2>2, <2>3 DEF GetEnv
<1>3. {"base", "max", "retries"} \subseteq Settings /\ "base" # "retries" /\ "max" # "retries"
  BY DEF Settings
<1>4. c["base"] > 0 /\ c["max"] > 0 /\ c["retries"] >= 0 /\ c["max"] >= c["base"]
  BY <1>1, <1>3 DEF Validate
<1> QED
  BY <1>2, <1>3, <1>4, RetryAssumption DEF Int64

\* What is known of a delay: it comes from the jittered step, or it is one of the
\* two values an overflow is replaced by.
LEMMA DelayOrigin ==
    ASSUME NEW c \in Configs, NEW n \in Nat, NEW d \in CalculateNextRetry(n, c)
    PROVE  \E x \in Jittered(c.base * Multiplier(n)) :
             \E y \in ToDuration(x) : d = Clamp(y, c)
BY DEF CalculateNextRetry

LEMMA MultiplierNat ==
    ASSUME NEW n \in Nat
    PROVE  Multiplier(n) \in {1, 4, 20, 120, 480}
BY DEF Multiplier

\* Every delay is positive and within the ceiling, overflow or not.
LEMMA DelayBounds ==
    ASSUME NEW c \in Configs, NEW n \in Nat, NEW d \in CalculateNextRetry(n, c)
    PROVE  d \in 1..c.max
<1>1. PICK x \in Jittered(c.base * Multiplier(n)) : \E y \in ToDuration(x) : d = Clamp(y, c)
  BY DelayOrigin
<1>2. PICK y \in ToDuration(x) : d = Clamp(y, c)
  BY <1>1
<1>3. /\ c.base \in 1..MaxDuration
      /\ c.max \in 1..MaxDuration
      /\ c.base <= c.max
      /\ MaxDuration \in Nat
  BY AcceptedConfig
<1>4. x \in Int
  BY <1>1 DEF Jittered
<1>5. y \in Int
  BY <1>3, <1>4 DEF ToDuration
<1> QED
  BY <1>2, <1>3, <1>5 DEF Clamp

\* A step whose largest value fits is computed exactly.
LEMMA NoOverflow ==
    ASSUME NEW c \in Configs, Fits(c), NEW n \in Nat,
           NEW d \in CalculateNextRetry(n, c)
    PROVE  \E x \in Jittered(c.base * Multiplier(n)) : x \in Nat /\ d = Clamp(x, c)
<1>1. PICK x \in Jittered(c.base * Multiplier(n)) : \E y \in ToDuration(x) : d = Clamp(y, c)
  BY DelayOrigin
<1>2. c.base \in Nat /\ MaxDuration \in Nat
  BY AcceptedConfig
<1> DEFINE m == c.base * Multiplier(n)
<1>3. m \in Nat /\ m <= c.base * 480
  BY <1>2, MultiplierNat
<1>4. c.base * 480 \in Nat /\ 120 * (c.base * 480) <= 100 * MaxDuration
  BY <1>2 DEF Fits
<1>5. x \in (80 * m) \div 100 .. (120 * m) \div 100
  BY <1>1 DEF Jittered
<1> HIDE DEF m
<1>6. x \in Nat /\ x <= MaxDuration
  BY <1>2, <1>3, <1>4, <1>5
<1> QED
  BY <1>1, <1>6 DEF ToDuration

\* The longest delay of a step never passes the shortest of the next one, while
\* the multipliers still grow.
LEMMA StepsGrow ==
    ASSUME NEW c \in Configs, Fits(c), NEW n \in 1..4,
           NEW d \in CalculateNextRetry(n, c), NEW e \in CalculateNextRetry(n + 1, c)
    PROVE  d <= e
<1>1. PICK x \in Jittered(c.base * Multiplier(n)) : x \in Nat /\ d = Clamp(x, c)
  BY NoOverflow
<1>2. PICK y \in Jittered(c.base * Multiplier(n + 1)) : y \in Nat /\ e = Clamp(y, c)
  BY NoOverflow
<1>3. c.base \in Nat /\ 1 <= c.base /\ c.max \in Nat /\ c.base <= c.max
  BY AcceptedConfig
<1>4. x <= y /\ y >= c.base
  <2>1. CASE n = 1
    BY <1>1, <1>2, <1>3, <2>1 DEF Jittered, Multiplier
  <2>2. CASE n = 2
    BY <1>1, <1>2, <1>3, <2>2 DEF Jittered, Multiplier
  <2>3. CASE n = 3
    BY <1>1, <1>2, <1>3, <2>3 DEF Jittered, Multiplier
  <2>4. CASE n = 4
    BY <1>1, <1>2, <1>3, <2>4 DEF Jittered, Multiplier
  <2> QED
    BY <2>1, <2>2, <2>3, <2>4
<1> QED
  BY <1>1, <1>2, <1>3, <1>4 DEF Clamp

-----------------------------------------------------------------------------
\* The history and the counters move together, and every delay is one the
\* configuration allows at its step.
Inv ==
    /\ cfg \in Configs
    /\ number \in Nat \ {0}
    /\ delays \in Seq(Int)
    /\ Len(delays) = number - 1
    /\ \A k \in 1..Len(delays) : delays[k] \in CalculateNextRetry(k, cfg)
    /\ number > 1 => number <= cfg.retries
    /\ status = "dead_letter" => number >= cfg.retries

LEMMA InvInit == Init => Inv
BY DEF Init, Inv

LEMMA InvNext == Inv /\ [Next]_vars => Inv'
<1> SUFFICES ASSUME Inv, [Next]_vars PROVE Inv'
  OBVIOUS
<1> USE DEF Inv
<1>1. CASE UNCHANGED vars
  BY <1>1 DEF vars
<1>2. ASSUME NEW code \in Answers, Delivered(code) \/ Rejected(code) \/ Exhausted(code)
      PROVE  Inv'
  BY <1>2 DEF Delivered, Rejected, Exhausted, Settle
<1>3. ASSUME NEW code \in Answers, Scheduled(code)
      PROVE  Inv'
  <2>1. PICK d \in CalculateNextRetry(number, cfg) : delays' = Append(delays, d)
    BY <1>3 DEF Scheduled
  <2>2. /\ status = "pending" /\ number < cfg.retries
        /\ number' = number + 1 /\ cfg' = cfg /\ status' = status
    BY <1>3 DEF Scheduled
  <2>3. cfg.retries \in Nat
    BY AcceptedConfig
  <2>4. d \in Int
    BY DelayBounds, AcceptedConfig
  <2>5. /\ delays' \in Seq(Int)
        /\ Len(delays') = Len(delays) + 1
        /\ \A k \in 1..Len(delays) : delays'[k] = delays[k]
        /\ delays'[Len(delays) + 1] = d
    BY <2>1, <2>4
  <2>6. \A k \in 1..Len(delays') : delays'[k] \in CalculateNextRetry(k, cfg')
    BY <2>1, <2>2, <2>5
  <2> QED
    BY <2>2, <2>3, <2>5, <2>6
<1> QED
  BY <1>1, <1>2, <1>3 DEF Next

LEMMA InvImplies == Inv => DelayWithinBounds /\ BackoffGrows /\ DeadLetterAfterAll
<1> SUFFICES ASSUME Inv PROVE DelayWithinBounds /\ BackoffGrows /\ DeadLetterAfterAll
  OBVIOUS
<1>1. DelayWithinBounds
  BY DelayBounds DEF Inv, DelayWithinBounds
<1>2. BackoffGrows
  <2> SUFFICES ASSUME Fits(cfg), NEW k \in 1..Len(delays),
                      k + 1 \in 1..Len(delays), k < 5
               PROVE  delays[k] <= delays[k + 1]
    BY DEF BackoffGrows
  <2>1. k \in 1..4 /\ cfg \in Configs
    BY DEF Inv
  <2>2. delays[k] \in CalculateNextRetry(k, cfg)
        /\ delays[k + 1] \in CalculateNextRetry(k + 1, cfg)
    BY DEF Inv
  <2> QED
    BY <2>1, <2>2, StepsGrow
<1>3. DeadLetterAfterAll
  BY AcceptedConfig DEF Inv, DeadLetterAfterAll
<1> QED
  BY <1>1, <1>2, <1>3

\* For every configuration: each retry waits between one nanosecond and MaxDelay,
\* the back-off grows despite the jitter, and the dead-letter queue is reached
\* after every attempt the configuration grants and no other way.
THEOREM ScheduleSafe == Spec => [](DelayWithinBounds /\ BackoffGrows /\ DeadLetterAfterAll)
BY InvInit, InvNext, InvImplies, PTL DEF Spec
=============================================================================
