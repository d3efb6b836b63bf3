\* Two handlers and the workers write one row, any body.
CONSTANTS
    Endpoints = {e1}
    Apps = {app1, app2}
    Owner <- OneOwner
    Requests = {r1, r2}
    Limits = {1, 2}
    DefaultLimit = 1
    Patches <- AllPatches
    MaxFailures = 2
    MaxResults = 5
    MaxCalls = 4
SPECIFICATION Spec
INVARIANTS
    TypeOK RowsConsistent OnlyLostUpdatesUndoATrip CountsConsecutive
CHECK_DEADLOCK FALSE
