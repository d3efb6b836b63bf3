\* A body that names no status undoes a trip.
CONSTANTS
    Endpoints = {e1}
    Apps = {app1, app2}
    Owner <- OneOwner
    Requests = {r1, r2}
    Limits = {1, 2}
    DefaultLimit = 1
    Patches <- AllPatches
    MaxFailures = 2
    MaxResults = 3
    MaxCalls = 2
SPECIFICATION Spec
INVARIANT
    TrippedStaysOff
CHECK_DEADLOCK FALSE
