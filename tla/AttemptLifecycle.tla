-------------------------- MODULE AttemptLifecycle --------------------------
(***************************************************************************)
(* What the engine promises of one delivery attempt, with no instance,     *)
(* dispatcher, worker or breaker in sight: a row is claimed once it is due,*)
(* handed back, rescheduled or settled, and leaves a settled state only    *)
(* when an operator asks for it.  DeliveryEngine implements this as long   *)
(* as no task outlives the five minutes after which its row may be claimed *)
(* again.                                                                  *)
(***************************************************************************)
EXTENDS Integers

CONSTANTS Attempts, MaxRetries

VARIABLES status, number, due

vars == <<status, number, due>>

Init ==
    /\ status = [a \in Attempts |-> "pending"]
    /\ number = [a \in Attempts |-> 1]
    /\ due = [a \in Attempts |-> TRUE]

\* One poll may claim several rows at once, and one hand-back return several.
Claim(S) ==
    /\ \A a \in S : \/ status[a] = "pending" /\ due[a]
                    \/ status[a] = "processing"
    /\ status' = [a \in Attempts |-> IF a \in S THEN "processing" ELSE status[a]]
    /\ UNCHANGED <<number, due>>

HandBack(S) ==
    /\ \A a \in S : status[a] = "processing"
    /\ status' = [a \in Attempts |-> IF a \in S THEN "pending" ELSE status[a]]
    /\ UNCHANGED <<number, due>>

Write(a, s, n, d) ==
    /\ status' = [status EXCEPT ![a] = s]
    /\ number' = [number EXCEPT ![a] = n]
    /\ due' = [due EXCEPT ![a] = d]

Delivered(a) == status[a] = "processing" /\ Write(a, "delivered", number[a], TRUE)
Rejected(a)  == status[a] = "processing" /\ Write(a, "failed", number[a], TRUE)

\* Only the last attempt the configuration grants may end in the dead-letter
\* queue, and only an earlier one may be rescheduled: it counts, and it waits.
Exhausted(a) ==
    /\ status[a] = "processing"
    /\ number[a] >= MaxRetries
    /\ Write(a, "dead_letter", number[a], TRUE)

Reschedule(a) ==
    /\ status[a] = "processing"
    /\ number[a] < MaxRetries
    /\ Write(a, "pending", number[a] + 1, FALSE)

BackoffElapses(a) ==
    /\ status[a] = "pending"
    /\ due' = [due EXCEPT ![a] = TRUE]
    /\ UNCHANGED <<status, number>>

ManualRetry(a) ==
    /\ status[a] \in {"failed", "dead_letter"}
    /\ Write(a, "pending", 1, TRUE)

Next ==
    \/ \E S \in SUBSET Attempts : Claim(S) \/ HandBack(S)
    \/ \E a \in Attempts :
         \/ Delivered(a) \/ Rejected(a) \/ Exhausted(a) \/ Reschedule(a)
         \/ BackoffElapses(a) \/ ManualRetry(a)

Spec == Init /\ [][Next]_vars
=============================================================================
