SPECIFICATION Spec
CONSTANTS
    a1 = a1  a2 = a2
    e1 = e1  e2 = e2
    v1 = v1  v2 = v2
    x1 = x1  x2 = x2  x3 = x3
    NoKey = NoKey
    NoApp = NoApp
    Apps = {a1, a2}
    Keys = {k1, k2}
    Events = {v1, v2}
    Endpoints = {e1, e2}
    Attempts = {x1, x2, x3}
    AppOf <- MCAppOf
    Owner <- MCOwner
    EventOf <- MCEventOf
    EndpointOf <- MCEndpointOf
    Filters <- MCFilters
    Sizes = {0, 3}
    DefaultPerPage = 1
    MaxPerPage = 2
    MaxTime = 3
    WeekStart = 2
    DayStart = 3
    MaxWrites = 5
SYMMETRY KeySymmetry
INVARIANTS
    TypeOK
    NothingSkipped
    NothingRepeated
    OwnRowsOnly
    StatsAddUp
