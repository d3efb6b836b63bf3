\* The default form of a replay of one event answers 500, with no fault at all.
SPECIFICATION Spec
CONSTANTS
    a1 = a1
    a2 = a2
    v1 = v1
    v2 = v2
    order = order
    alice = alice
    Everyone = Everyone
    AnyStatus = AnyStatus
    AnyEndpoint = AnyEndpoint
    Apps = {a1, a2}
    Events = {v1, v2}
    Endpoints = {e1, e2}
    AppOf <- MCAppOf
    TypeOf <- MCTypeOf
    RecipientOf <- MCRecipientOf
    Filters <- MCFilters
    Outcomes = {"delivered", "failed"}
    Handlers = {r1, r2}
    MaxCalls = 3
    MaxChanges = 1
    MaxFaults = 0
SYMMETRY Interchangeable
INVARIANTS
    FailedReplayIsServed
CHECK_DEADLOCK FALSE
