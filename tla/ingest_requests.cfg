\* Handlers send events with and without a key while the catalogue changes.
SPECIFICATION Spec
CONSTANTS
    a1 = a1
    a2 = a2
    e1 = e1
    e2 = e2
    t1 = t1
    t2 = t2
    t3 = t3
    alice = alice
    order = order
    Everyone = Everyone
    NoKey = NoKey
    Apps = {a1, a2}
    Endpoints = {e1, e2}
    Types = {t1, t2, t3}
    Keys = {k1}
    Requests = {r1, r2}
    AppOf <- MCAppOf
    NameOf <- MCNameOf
    RecipientOf <- MCRecipientOf
    MaxCalls = 3
    MaxSwitches = 1
    MaxFaults = 1
SYMMETRY Interchangeable
INVARIANTS
    TypeOK SameKeySameEvent FanOut TenantIsolation OfItsOwnType
CHECK_DEADLOCK FALSE
