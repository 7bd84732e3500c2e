SPECIFICATION Spec
CONSTANTS
    e1 = e1
    e2 = e2
    e3 = e3
    e4 = e4
    w1 = w1
    w2 = w2
    Listeners = {"orders", "gone"}
    ListenerOf <- MCListenerOf
    NoWorker = NoWorker
    Partitions <- MCPartitions
    Configured = {"orders"}
    Order <- MCOrder
    Cap <- MCCap
    MaxAttempts <- MCMaxAttempts
    Oversize = {}
    Unbuildable = {}
    RetryLimit = 1
    Events = {e1}
    Workers = {w1}
    BatchSize = 1
    MaxClaims = 2
    MaxResets = 0
    GlobalCap = 2
    Answers = {503}
    MaxFaults = 1
    MaxStops = 0
PROPERTIES
    SettleOnlyOwnClaim
CHECK_DEADLOCK FALSE
