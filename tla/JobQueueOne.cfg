\* One worker at a time: KEDA's maxReplicaCount is 1.
SPECIFICATION FairSpec
CONSTANTS
    Jobs = {j1, j2}
    Workers = {w1}
    Concurrency = 2
    MaxRetries = 1
    MaxLive = 1
    MaxFaults = 2
INVARIANTS TypeOK JobAccounted Recoverable OnePlace RunsBounded
PROPERTIES EveryJobSettles StopsWhenAsked KeepsPromise
CHECK_DEADLOCK FALSE
