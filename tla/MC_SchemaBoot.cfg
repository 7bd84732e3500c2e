SPECIFICATION FairSpec
CONSTANTS
    r1 = r1
    r2 = r2
    a = a
    b = b
    Nobody = Nobody
    Replicas = {r1, r2}
    Instances = {a, b}
    Configs <- MCConfigs
    Markers = {"absent", "unreadable", b}
    Ledgers <- MCLedgers
    Versions = {1, 2}
    Checksums = {"x", "y", "z"}
    MaxStarts = 3
INVARIANTS
    ReadingStillHolds
    ReadyOnOwnCorpus
PROPERTIES
    AppliedInOrder
    ForeignSchemaUntouched
    WaitingBootEnds
CHECK_DEADLOCK FALSE
