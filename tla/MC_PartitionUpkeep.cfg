SPECIFICATION Spec
CONSTANTS
    r1 = r1
    r2 = r2
    e1 = e1
    e2 = e2
    Replicas = {r1, r2}
    Events = {e1}
    Interval = 2
    Precreate = 1
    Keep = 1
    Worlds <- MCWorlds
    MaxTime = 3
    MaxHand = 1
SYMMETRY MCSymmetry
INVARIANTS
    SettledPassIsCovered
    ShortfallIsExact
    HorizonCountIsTight
PROPERTIES
    OnlyExpiredDataGoes
CHECK_DEADLOCK FALSE
