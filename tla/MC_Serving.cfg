SPECIFICATION Spec
CONSTANTS
    Probes = {p1}
    Scrapers = {s1, s2}
    p1 = p1
    s1 = s1
    s2 = s2
    Expected = 2
    Newest = 3
    MaxMoves = 1
CHECK_DEADLOCK FALSE
INVARIANT ReadyIsEarned
PROPERTIES GaugesMoveForward SnapshotReopens ProcessEnds
