---------------------------- MODULE MC_Reconcile ----------------------------
EXTENDS Reconcile, TLC
CONSTANTS r1, r2, l1

want(n, e, f) == l1 :> [table |-> n, enabled |-> e, ops |-> f]
MCConfigs ==
    {<<>>,
     want("n", TRUE, "ins" :> "s"),
     want("n", TRUE, ("ins" :> "t" @@ "upd" :> "s")),
     want("n", FALSE, "ins" :> "s"),
     want("m", TRUE, "ins" :> "s")}
MCApprovals ==
    {[permit |-> TRUE, approved |-> TRUE], [permit |-> FALSE, approved |-> TRUE]}
MoveConfigs ==
    {want("n", TRUE, "ins" :> "s"), want("m", TRUE, "ins" :> "t")}
=============================================================================
