SPECIFICATION Spec
CONSTANTS
    r1 = r1
    r2 = r2
    l1 = l1
    Nobody = Nobody
    Runners = {r1}
    Listeners = {l1}
    Ops = {"ins", "upd"}
    Names = {"n", "m"}
    Specs = {"s", "t"}
    Configs <- MoveConfigs
    Approvals <- MCApprovals
    MaxOid = 2
    MaxHand = 2
PROPERTIES
    ApplyReconciles
CHECK_DEADLOCK FALSE
