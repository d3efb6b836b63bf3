\* A task outlives the five minutes and is claimed twice.
CONSTANTS
    NAttempts = 1
    Instances = {i1, i2}
    Workers = {w1}
    Endpoints = {e1}
    EndpointOf <- OneEndpoint
    QueueSize = 1
    BatchSize = 1
    MaxRetries = 2
    MaxFailures = 2
    MaxStops = 0
    MaxFaults = 0
    MaxOperator = 0
    MaxLost = 0
    MaxOverruns = 1
SPECIFICATION Spec
INVARIANT
    HeldOnce
