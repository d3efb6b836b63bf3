\* Every environment, answer and jitter.
CONSTANTS
    Environments <- SmallEnvironments
    Unset = Unset
    Malformed = Malformed
    Fallback <- SmallFallback
    Codes <- SampleCodes
    MaxDuration = 700
SPECIFICATION Spec
INVARIANTS
    DelayWithinBounds BackoffGrows DeadLetterAfterAll
CHECK_DEADLOCK FALSE
