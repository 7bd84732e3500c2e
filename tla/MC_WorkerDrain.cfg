SPECIFICATION Spec
CONSTANTS
    e1 = e1
    e2 = e2
    e3 = e3
    e4 = e4
    w1 = w1
    w2 = w2
    Listeners = {"orders", "gone"}
    ListenerOf <- MCListenerOf
    NoWorker = NoWorker
    Partitions = {}
    Configured = {"orders"}
    Order <- MCOrder
    Cap <- MCCap
    MaxAttempts <- MCMaxAttempts
    Oversize = {e4}
    Unbuildable = {e2}
    RetryLimit = 1
    Events = {e1, e2, e3, e4}
    Workers = {w1}
    BatchSize = 2
    MaxClaims = 1
    MaxResets = 0
    GlobalCap = 2
    Answers = {404}
    MaxFaults = 1
    MaxStops = 1
CONSTRAINT MCInOrder
INVARIANTS
    DeadHasCause
    SlotsAccounted
    NoForgottenLease
    NoRequestCutOff
CHECK_DEADLOCK FALSE
