SPECIFICATION Spec
CONSTANTS
    e1 = e1
    e2 = e2
    e3 = e3
    e4 = e4
    w1 = w1
    w2 = w2
    Listeners = {"orders"}
    ListenerOf <- MCListenerOf
    NoWorker = NoWorker
    Partitions <- MCPartitions
    Configured = {"orders"}
    Order <- MCOrder
    Cap <- MCCap
    MaxAttempts <- MCMaxAttempts
    Oversize = {}
    Unbuildable = {}
    RetryLimit = 1
    Events = {e1}
    Workers = {w1, w2}
    BatchSize = 1
    MaxClaims = 3
    MaxResets = 1
    GlobalCap = 1
    Answers = {200, 503}
    MaxFaults = 1
    MaxStops = 0
SYMMETRY MCWorkerSymmetry
INVARIANTS
    DeadHasReason
    DeliveredIsRecorded
    DroppedWasTried
    AttemptsAreClaims
    RemovedOnlyAfterSuccess
    OneRequestAtATime
PROPERTIES
    KeepsPromise
CHECK_DEADLOCK FALSE
