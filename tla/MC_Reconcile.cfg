SPECIFICATION FairSpec
CONSTANTS
    r1 = r1
    r2 = r2
    l1 = l1
    Nobody = Nobody
    Runners = {r1, r2}
    Listeners = {l1}
    Ops = {"ins", "upd"}
    Names = {"n", "m"}
    Specs = {"s", "t"}
    Configs <- MCConfigs
    Approvals <- MCApprovals
    MaxOid = 2
    MaxHand = 2
INVARIANT RunsExclusive
PROPERTIES
    NothingLeftPending
    AppliedIsInstalled
    UnownedUntouched
    RemovalIsPermitted
    LockComesFree
CHECK_DEADLOCK FALSE
