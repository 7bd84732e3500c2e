SPECIFICATION FairSpec
CONSTANTS
    e1 = e1
    e2 = e2
    e3 = e3
    e4 = e4
    w1 = w1
    w2 = w2
    Listeners = {"orders"}
    ListenerOf <- MCListenerOf
    NoWorker = NoWorker
    Partitions = {}
    Configured = {"orders"}
    Order <- MCOrder
    Cap <- MCCap
    MaxAttempts <- MCMaxAttempts
    Oversize = {}
    Unbuildable = {e2}
    RetryLimit = 1
    Events = {e1, e2}
    Workers = {w1}
    BatchSize = 2
    MaxClaims = 4
    MaxResets = 0
    GlobalCap = 1
    Answers = {0, 200}
    MaxFaults = 1
    MaxStops = 1
PROPERTIES
    ShutdownCompletes
    EventuallySettled
CHECK_DEADLOCK FALSE
