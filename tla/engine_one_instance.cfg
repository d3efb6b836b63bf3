\* One instance: a batch larger than the channel, a shutdown, a fault, an operator.
CONSTANTS
    NAttempts = 2
    Instances = {i1}
    Workers = {w1}
    Endpoints = {e1}
    EndpointOf <- OneEndpoint
    QueueSize = 1
    BatchSize = 2
    MaxRetries = 2
    MaxFailures = 3
    MaxStops = 1
    MaxFaults = 1
    MaxOperator = 1
    MaxLost = 0
    MaxOverruns = 0
SPECIFICATION FairSpec
INVARIANTS
    HeldOnce HeldIsProcessing NothingStranded NoSendOnClosedPool
    StreakIsRecorded StreakIsComplete
PROPERTIES
    EventuallySettled SettledIsFinal ImplementsLifecycle
