\* Two instances share one attempt, which may outlive the five minutes once.
CONSTANTS
    NAttempts = 1
    Instances = {i1, i2}
    Workers = {w1}
    Endpoints = {e1}
    EndpointOf <- OneEndpoint
    QueueSize = 1
    BatchSize = 1
    MaxRetries = 2
    MaxFailures = 2
    MaxStops = 0
    MaxFaults = 1
    MaxOperator = 1
    MaxLost = 2
    MaxOverruns = 1
SPECIFICATION Spec
INVARIANTS
    TypeOK CopiesBounded DuplicatesPaidFor DeliveredWasAccepted DeletedIsSentOnce
