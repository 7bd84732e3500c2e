SPECIFICATION WFairSpec
CONSTANTS
    e1 = e1
    e2 = e2
    c1 = c1
    c2 = c2
    Events = {e1, e2}
    Closers = {c1, c2}
    MaxSession = 2
    MaxFaults = 2
INVARIANTS
    NoWakeupLost
    NeverPanics
PROPERTIES
    CloseReturns
    EventuallyPolled
CHECK_DEADLOCK FALSE
