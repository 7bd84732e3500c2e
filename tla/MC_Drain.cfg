SPECIFICATION Spec
CONSTANTS
    r1 = r1
    r2 = r2
    e1 = e1
    e2 = e2
    Replicas = {}
    Events = {e1, e2}
    Interval = 2
    Precreate = 1
    Keep = 1
    Worlds <- NoParts
    MaxTime = 1
    MaxHand = 0
PROPERTIES
    DrainKeepsLiveRows
CHECK_DEADLOCK FALSE
