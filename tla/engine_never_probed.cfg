\* The breaker trips, and nobody ever probes the endpoint.
CONSTANTS
    NAttempts = 1
    Instances = {i1}
    Workers = {w1}
    Endpoints = {e1}
    EndpointOf <- OneEndpoint
    QueueSize = 1
    BatchSize = 1
    MaxRetries = 2
    MaxFailures = 1
    MaxStops = 0
    MaxFaults = 0
    MaxOperator = 0
    MaxLost = 0
    MaxOverruns = 0
SPECIFICATION FairSpec
PROPERTY
    DisabledIsProbed
