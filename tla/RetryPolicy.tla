----------------------------- MODULE RetryPolicy -----------------------------
(***************************************************************************)
(* The retry schedule of one delivery attempt: how the environment becomes *)
(* a configuration (Load, Validate), which answers are tried again         *)
(* (IsRetryable), after how long (CalculateNextRetry), and when the        *)
(* attempt is given up (NewResultRecorder).  A duration is a whole number  *)
(* of nanoseconds in an int64; the delay itself is computed in floating    *)
(* point and converted back, which truncates, and which a value beyond the *)
(* int64 range does not survive.                                           *)
(***************************************************************************)
EXTENDS Integers, Sequences

CONSTANTS
    Environments, \* what the variables of the environment may hold
    Unset,        \* a variable that is missing or empty
    Malformed,    \* one that does not parse as a number or a duration
    Fallback,     \* the defaults that Load has for them
    Codes,        \* HTTP status codes receivers answer with
    MaxDuration   \* the largest int64

Settings == {"workers", "queue", "poll", "batch", "retries", "base", "max", "failures"}

Int64 == -MaxDuration - 1 .. MaxDuration

ASSUME RetryAssumption ==
    /\ MaxDuration \in Nat
    /\ Environments \subseteq [Settings -> Int64 \cup {Unset, Malformed}]
    /\ Fallback \in [Settings -> 1..MaxDuration]
    /\ Codes \subseteq 100..999

VARIABLES
    cfg,      \* the configuration the process was started with
    number,   \* attempt_number
    status,
    delays    \* history: the delay of each retry scheduled so far

vars == <<cfg, number, status, delays>>

\* getEnvInt, getEnvDuration: what does not parse counts as not given.
GetEnv(value, fallback) == IF value \in {Unset, Malformed} THEN fallback ELSE value

Load(env) == [s \in Settings |-> GetEnv(env[s], Fallback[s])]

\* MAX_RETRIES may be 0, everything else is positive, and the ceiling is not
\* below the base.
Validate(c) ==
    /\ \A s \in Settings \ {"retries"} : c[s] > 0
    /\ c["retries"] >= 0
    /\ c["max"] >= c["base"]

\* The process starts with a configuration that passes, or not at all.
Configs == {c \in {Load(env) : env \in Environments} : Validate(c)}

\* Network error, time-out, rate-limit wait given up: result.HTTPStatus is nil.
NoCode == 0

Answers == Codes \cup {NoCode}

Success(code) == code \in 200..299

IsRetryable(code) == code \in {NoCode, 429} \/ code >= 500

\* Mutant: the third step is missing from the table.
MultiplierMissingStep(n) ==
    CASE n = 1 -> 1
      [] n = 2 -> 4
      [] n = 4 -> 120
      [] OTHER -> 480

Multiplier(n) ==
    CASE n = 1 -> 1
      [] n = 2 -> 4
      [] n = 3 -> 20
      [] n = 4 -> 120
      [] OTHER -> 480

\* Twenty percent either way, truncated.
Jittered(d) == (80 * d) \div 100 .. (120 * d) \div 100

\* What the conversion to time.Duration makes of x: out of range it is up to
\* the platform, the smallest int64 on amd64 and the largest on arm64.
ToDuration(x) == IF x <= MaxDuration THEN {x} ELSE {MaxDuration, -MaxDuration - 1}

\* Mutant: nothing replaces a delay that truncation or overflow has spoilt.
ClampNoFloor(x, c) == IF x > c.max THEN c.max ELSE x

Clamp(x, c) ==
    IF x > c.max THEN c.max
    ELSE IF x <= 0 THEN c.base
    ELSE x

\* Every delay the random generator can lead to.
CalculateNextRetry(n, c) ==
    {Clamp(y, c) : y \in UNION {ToDuration(x) : x \in Jittered(c.base * Multiplier(n))}}

-----------------------------------------------------------------------------
Settle(s) == status' = s /\ UNCHANGED <<cfg, number, delays>>

Delivered(code) == status = "pending" /\ Success(code) /\ Settle("delivered")

Rejected(code) ==
    status = "pending" /\ ~Success(code) /\ ~IsRetryable(code) /\ Settle("failed")

\* Mutant: gives up one attempt too early.
ExhaustedEarly(code) ==
    /\ status = "pending"
    /\ IsRetryable(code)
    /\ number + 1 >= cfg.retries
    /\ Settle("dead_letter")

Exhausted(code) ==
    /\ status = "pending"
    /\ IsRetryable(code)
    /\ number >= cfg.retries
    /\ Settle("dead_letter")

Scheduled(code) ==
    /\ status = "pending"
    /\ IsRetryable(code)
    /\ number < cfg.retries
    /\ \E d \in CalculateNextRetry(number, cfg) : delays' = Append(delays, d)
    /\ number' = number + 1
    /\ UNCHANGED <<cfg, status>>

Init ==
    /\ cfg \in Configs
    /\ number = 1
    /\ status = "pending"
    /\ delays = <<>>

Next ==
    \E code \in Answers :
        Delivered(code) \/ Rejected(code) \/ Exhausted(code) \/ Scheduled(code)

Spec == Init /\ [][Next]_vars

-----------------------------------------------------------------------------
(* Properties                                                              *)

\* Every retry waits, and none longer than MaxDelay: neither a delay truncated
\* to nothing nor one that left the int64 range gets through
\* (CalculateNextRetryWithRandom, "never exceed MaxDelay", "never return
\* non-positive duration").
DelayWithinBounds == \A k \in 1..Len(delays) : delays[k] \in 1..cfg.max

\* The largest delay before the ceiling fits an int64.
Fits(c) == 120 * (c.base * 480) <= 100 * MaxDuration

\* The back-off does not shrink from one retry to the next, whatever the jitter,
\* as long as the multipliers still grow: the longest delay of a step never
\* passes the shortest of the following one.
BackoffGrows ==
    Fits(cfg) =>
        \A k \in 1..Len(delays) :
            k + 1 \in 1..Len(delays) /\ k < 5 => delays[k] <= delays[k + 1]

\* An attempt reaches the dead-letter queue only after every attempt the
\* configuration grants, each but the last followed by a wait (README,
\* MAX_RETRIES "Attempts before dead-lettering"); zero grants one all the same.
DeadLetterAfterAll ==
    status = "dead_letter" =>
        Len(delays) + 1 = (IF cfg.retries = 0 THEN 1 ELSE cfg.retries)
=============================================================================
