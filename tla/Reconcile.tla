----------------------------- MODULE Reconcile -----------------------------
(***************************************************************************)
(* Trigger reconciliation (src/internal/reconcile): the plan computed from *)
(* three sources (configuration, registry, catalog), the apply that runs   *)
(* it in one transaction under the instance's run lock, and `destroy`      *)
(* (src/internal/cli/destroy.go), while a database administrator renames,  *)
(* drops and recreates tables and edits triggers by hand and an operator   *)
(* edits the configuration.                                                *)
(*                                                                         *)
(* The database is one record db:                                          *)
(*   at    the table (OID) a qualified name resolves to, 0 for none        *)
(*   trig  the trigger of a pair <<listener, operation>> on a table        *)
(*   fn    the function of a pair in the service schema                    *)
(*   reg   the registry row of a listener with its listener_triggers rows  *)
(* Object names are injective in the pair, so a pair stands for its names. *)
(* The apply transaction is two steps: the reading of the plan, and the    *)
(* statements with the registry write and the commit. Its first statement  *)
(* on a table locks that table until the commit, so nothing gets between   *)
(* the statements and the readback; what happens between the plan and the  *)
(* first statement does.                                                   *)
(***************************************************************************)
EXTENDS Naturals, FiniteSets, Functions

CONSTANTS
    Runners,    \* processes that may run apply or destroy
    Listeners, Ops, Names, Specs,
    Configs,    \* configurations an operator may write
    Approvals,  \* [permit, approved]: the answers a command may carry
    MaxOid,     \* bound on tables ever created
    MaxHand,    \* bound on steps of the administrator and the operator
    Nobody

ASSUME HoldersAssumption == Nobody \notin Runners /\ "lingering" \notin Runners
ASSUME OidAssumption == MaxOid \in Nat \ {0}
ASSUME OpsAssumption == "" \notin Ops

VARIABLES
    db,         \* the database, as above
    config,     \* the configuration file
    lock,       \* whose session holds the run lock: a runner's, one no process
                \* speaks to any more ("lingering"), or Nobody
    run,        \* one record per runner
    hand        \* steps taken by the administrator and the operator
vars == <<db, config, lock, run, hand>>

Oids == 1..MaxOid
Pairs == Listeners \X Ops
NoTrigger == [mark |-> "none"]
NoFunction == [mark |-> "none"]
NoRow == [oid |-> 0]
Kinds == {"create", "replace", "drop", "rename", "disable"}

\* A configured listener: its table, whether it is enabled, and the
\* specification of each of its operations.
Listener == [table: Names, enabled: BOOLEAN,
             ops: UNION {[D -> Specs] : D \in SUBSET Ops}]
IsConfig(c) == DOMAIN c \subseteq Listeners /\ \A l \in DOMAIN c : c[l] \in Listener

ASSUME ConfigsAssumption == \A c \in Configs : IsConfig(c)

NameOf(d, o) == CHOOSE n \in Names : d.at[n] = o
Live(d, o) == \E n \in Names : d.at[n] = o

\* Faulty variant: the instance in the marker is not compared.
DetermineOwnershipOfAny(recorded, mark) == recorded /\ mark \in {"ours", "foreign"}

\* The three-part ownership proof: a registry row for the pair, a marker that
\* parses, and the marker of this instance and this very pair. "ours" is that
\* marker; "absent", "foreign" and "other" are the three ways to differ.
DetermineOwnership(recorded, mark) == recorded /\ mark = "ours"

\* The function a trigger executes: the pair's own, or one made by hand.
FunctionOf(d, o, p) ==
    IF d.trig[o][p].own THEN d.fn[p] ELSE [mark |-> "absent", spec |-> "hand"]

\* The readbacks of trigger and function; pg_get_triggerdef spells the table
\* by its present name, the function body holds the name it was compiled with.
fingerprint(d, o, p) == <<d.trig[o][p].spec, NameOf(d, o), FunctionOf(d, o, p)>>

-----------------------------------------------------------------------------
(* Which table a listener stands for.                                      *)

\* classifyTarget over the two identity signals, the recorded OID and the
\* recorded name, after the refusal of a listener configured elsewhere.
resolveListenerTarget(d, c, l) ==
    LET rec == d.reg[l]
        name == IF l \in DOMAIN c THEN c[l].table ELSE rec.table
        oidFound == rec # NoRow /\ Live(d, rec.oid)
        same == d.at[name] \in {0, rec.oid}
    IN  CASE rec = NoRow /\ d.at[name] # 0 -> [outcome |-> "new", oid |-> d.at[name]]
          [] oidFound /\ same /\ d.at[rec.table] = rec.oid ->
                [outcome |-> "healthy", oid |-> rec.oid]
          [] oidFound /\ same /\ d.at[rec.table] # rec.oid ->
                [outcome |-> "renamed", oid |-> rec.oid]
          [] rec # NoRow /\ ~oidFound /\ d.at[rec.table] # 0 ->
                [outcome |-> "recreated", oid |-> d.at[rec.table]]
          [] OTHER -> [outcome |-> "refused", oid |-> 0]

-----------------------------------------------------------------------------
(* The plan.                                                               *)

\* Faulty variant: only the shared fields are compared.
changedSharedOnly(rec, want) ==
    {op \in DOMAIN want.ops : rec.cname # want.table \/ op \notin DOMAIN rec.ops}

\* The operations of a listener whose specification differs from the stored
\* one: all of them when a shared field (the table's spelling) differs.
changedTriggerOperations(rec, want) ==
    {op \in DOMAIN want.ops :
        \/ rec.cname # want.table
        \/ op \notin DOMAIN rec.ops
        \/ op \in DOMAIN rec.ops /\ rec.ops[op] # want.ops[op]}

recordedOps(d, l) == IF d.reg[l] = NoRow THEN {} ELSE DOMAIN d.reg[l].hash

\* What the catalog holds for the pair on the resolved table.
observed(d, c, p) ==
    LET t == resolveListenerTarget(d, c, p[1])
    IN  IF t.oid = 0 \/ p[2] \notin Ops THEN NoTrigger ELSE d.trig[t.oid][p]

observedOwnershipRefusal(d, c, p) ==
    LET t == resolveListenerTarget(d, c, p[1])
        row == p[2] \in recordedOps(d, p[1])
    IN  /\ observed(d, c, p) # NoTrigger
        /\ \/ ~DetermineOwnership(row, d.trig[t.oid][p].mark)
           \/ ~DetermineOwnership(row, FunctionOf(d, t.oid, p).mark)

\* The pairs of an enabled listener that the configuration asks for.
classifyManagedPair(d, c, p) ==
    LET t == resolveListenerTarget(d, c, p[1])
        rec == d.reg[p[1]]
    IN  CASE t.outcome = "recreated" -> "replace"
          [] t.outcome # "recreated" /\ (\/ p[2] \notin recordedOps(d, p[1])
                                         \/ observed(d, c, p) = NoTrigger) -> "create"
          [] OTHER ->
                IF t.outcome = "renamed" THEN "rename"
                ELSE IF \/ p[2] \in changedTriggerOperations(rec, c[p[1]])
                        \/ fingerprint(d, t.oid, p) # rec.hash[p[2]]
                THEN "replace" ELSE "none"

\* The classification of one pair, in the precedence of the code: target and
\* ownership refusals first, then removal, disabling and the managed pairs.
\* The pair with operation "" stands for a listener recorded without rows.
classifyPair(d, c, p) ==
    LET l == p[1]
        any == p[2] \in recordedOps(d, l) \/ observed(d, c, p) # NoTrigger
    IN  CASE resolveListenerTarget(d, c, l).outcome = "refused" -> "refuse"
          [] OTHER ->
                IF observedOwnershipRefusal(d, c, p) THEN "refuse"
                ELSE IF l \notin DOMAIN c THEN "drop"
                ELSE IF p[2] \notin DOMAIN c[l].ops THEN (IF any THEN "drop" ELSE "none")
                ELSE IF ~c[l].enabled THEN (IF any THEN "disable" ELSE "none")
                ELSE classifyManagedPair(d, c, p)

\* Every pair named by the configuration or the registry.
examined(d, c) ==
    {p \in Pairs : p[1] \in DOMAIN c /\ p[2] \in DOMAIN c[p[1]].ops}
    \cup {p \in Pairs : p[2] \in recordedOps(d, p[1])}
    \cup {<<l, "">> : l \in {m \in Listeners : d.reg[m] # NoRow /\ recordedOps(d, m) = {}}}

\* The deferred checks that need the catalog: each configured table exists.
validateInTransaction(d, c) == \A l \in DOMAIN c : d.at[c[l].table] # 0

\* One refusal empties the plan; no action is a clean plan.
diff(d, c) ==
    LET kind == [p \in examined(d, c) |-> classifyPair(d, c, p)]
        acting == {p \in examined(d, c) : kind[p] \in Kinds}
    IN  IF "refuse" \in Range(kind)
        THEN [verdict |-> "error", acts |-> <<>>]
        ELSE [verdict |-> IF acting = {} THEN "clean" ELSE "changes_pending",
              acts |-> [p \in acting |-> kind[p]]]

planInTransaction(d, c) ==
    IF validateInTransaction(d, c) THEN diff(d, c)
                                   ELSE [verdict |-> "error", acts |-> <<>>]

\* Faulty variant: only a drop counts as destructive.
DestructiveDropOnly(acts) == \E p \in DOMAIN acts : acts[p] = "drop"

\* Destructive, Decide: a drop or a disable needs permission, any change
\* needs approval.
Destructive(acts) == \E p \in DOMAIN acts : acts[p] \in {"drop", "disable"}
Decide(acts, permit, approved) == (Destructive(acts) => permit) /\ approved

-----------------------------------------------------------------------------
(* Applying a plan.                                                        *)

\* The actions that make statements: a rename makes none, nor does the drop
\* of a removed listener that has no rows.
objectsForPlan(d, c, acts) ==
    {p \in DOMAIN acts :
        /\ acts[p] # "rename"
        /\ ~(acts[p] = "drop" /\ p[1] \notin DOMAIN c /\ recordedOps(d, p[1]) = {})}

\* The drop side, cleared when the catalog no longer holds the trigger.
withDropOfWhatTheCatalogHolds(d, c, acts, p) ==
    /\ acts[p] \in {"drop", "disable", "replace"}
    /\ observed(d, c, p) # NoTrigger

\* The statements succeed: the target still resolves, a dropped function is
\* there and no other table's trigger needs it, a created trigger is not
\* there yet. Both drops are rendered without IF EXISTS.
statementsSucceed(d, c, acts) ==
    \A p \in objectsForPlan(d, c, acts) :
        LET t == resolveListenerTarget(d, c, p[1])
        IN  /\ t.outcome # "refused"
            /\ withDropOfWhatTheCatalogHolds(d, c, acts, p) =>
                  /\ d.fn[p] # NoFunction
                  /\ \A o \in Oids \ {t.oid} :
                        d.trig[o][p] # NoTrigger => ~d.trig[o][p].own
            /\ acts[p] = "create" => observed(d, c, p) = NoTrigger

\* The objects a plan makes, and the ones it drops for good.
made(d, c, acts) == {p \in objectsForPlan(d, c, acts) : acts[p] \in {"create", "replace"}}
gone(d, c, acts) == {p \in objectsForPlan(d, c, acts) :
                        withDropOfWhatTheCatalogHolds(d, c, acts, p)} \ made(d, c, acts)

\* The table a pair's trigger belongs on.
on(d, c, p) == resolveListenerTarget(d, c, p[1]).oid

triggersAfter(d, c, acts) ==
    [o \in Oids |-> [p \in Pairs |->
        IF p \in made(d, c, acts) /\ o = on(d, c, p)
        THEN [mark |-> "ours", spec |-> c[p[1]].ops[p[2]], own |-> TRUE]
        ELSE IF p \in gone(d, c, acts) /\ o = on(d, c, p) THEN NoTrigger ELSE d.trig[o][p]]]

functionsAfter(d, c, acts) ==
    [p \in Pairs |->
        IF p \in made(d, c, acts)
        THEN [mark |-> "ours", spec |-> c[p[1]].ops[p[2]], table |-> NameOf(d, on(d, c, p))]
        ELSE IF p \in gone(d, c, acts) THEN NoFunction ELSE d.fn[p]]

\* The catalog after the drops and then the creates of every object.
applyObjects(d, c, acts) ==
    [d EXCEPT !.trig = triggersAfter(d, c, acts), !.fn = functionsAfter(d, c, acts)]

\* The rows read back for an enabled listener. One trigger not found ends the
\* reading with no row at all.
registryTriggers(d, want, o, l) ==
    IF want.enabled /\ \A op \in DOMAIN want.ops : d.trig[o][<<l, op>>] # NoTrigger
    THEN [op \in DOMAIN want.ops |-> fingerprint(d, o, <<l, op>>)]
    ELSE <<>>

\* Faulty variant: rows of operations that went are kept.
writeRegistryKeepsRows(d, c, l) ==
    LET o == resolveListenerTarget(d, c, l).oid
        new == registryTriggers(d, c[l], o, l)
    IN  [oid |-> o, table |-> NameOf(d, o), cname |-> c[l].table,
         enabled |-> c[l].enabled, ops |-> c[l].ops,
         hash |-> [op \in DOMAIN new \cup recordedOps(d, l) |->
                     IF op \in DOMAIN new THEN new[op] ELSE d.reg[l].hash[op]]]

\* The upsert of a listener and its rows; rows of other operations go.
writeRegistry(d, c, l) ==
    LET o == resolveListenerTarget(d, c, l).oid
    IN  [oid |-> o, table |-> NameOf(d, o), cname |-> c[l].table,
         enabled |-> c[l].enabled, ops |-> c[l].ops,
         hash |-> registryTriggers(d, c[l], o, l)]

\* Listeners with an action are written, removed ones deleted.
syncRegistry(d, c, acts) ==
    LET touched == {p[1] : p \in DOMAIN acts}
    IN  [d EXCEPT !.reg = [l \in Listeners |->
            IF l \notin touched THEN d.reg[l]
            ELSE IF l \in DOMAIN c THEN writeRegistry(d, c, l) ELSE NoRow]]

\* The registry write needs every touched configured listener to resolve.
syncSucceeds(d, c, acts) ==
    \A p \in DOMAIN acts :
        p[1] \in DOMAIN c => resolveListenerTarget(d, c, p[1]).outcome # "refused"

applied(d, c, acts) == syncRegistry(applyObjects(d, c, acts), c, acts)

-----------------------------------------------------------------------------
(* `destroy`: the ownership proof over every candidate, before the lock.   *)

\* Recorded pairs on the recorded table, then the configured pairs that were
\* not recorded: those have no row, so any of them refuses.
OwnedCandidates(d, c) ==
    /\ \A p \in Pairs : p[2] \in recordedOps(d, p[1]) =>
          LET o == d.reg[p[1]].oid
          IN  /\ d.trig[o][p] # NoTrigger
              /\ DetermineOwnership(TRUE, d.trig[o][p].mark)
              /\ DetermineOwnership(TRUE, FunctionOf(d, o, p).mark)
    /\ \A l \in DOMAIN c : d.at[c[l].table] # 0 => DOMAIN c[l].ops \subseteq recordedOps(d, l)

-----------------------------------------------------------------------------
(* The runs.                                                               *)

Idle == [pc |-> "idle"]

Init ==
    /\ \E at \in [Names -> 0..1] :
          /\ Cardinality({n \in Names : at[n] = 1}) = 1
          /\ db = [at |-> at,
                   trig |-> [o \in Oids |-> [p \in Pairs |-> NoTrigger]],
                   fn |-> [p \in Pairs |-> NoFunction],
                   reg |-> [l \in Listeners |-> NoRow]]
    /\ config \in Configs
    /\ lock = Nobody
    /\ run = [r \in Runners |-> Idle]
    /\ hand = 0

\* A command starts waiting for the run lock with the configuration it loaded.
Start(r) ==
    /\ run[r].pc = "idle"
    /\ \E a \in Approvals :
          run' = [run EXCEPT ![r] = [pc |-> "waiting", cfg |-> config,
                                     permit |-> a.permit, approved |-> a.approved]]
    /\ UNCHANGED <<db, config, lock, hand>>

\* `destroy --confirm`: apply with no listener, permitted and approved.
Destroy(r) ==
    /\ run[r].pc = "idle"
    /\ OwnedCandidates(db, config)
    /\ run' = [run EXCEPT ![r] = [pc |-> "waiting", cfg |-> <<>>,
                                  permit |-> TRUE, approved |-> TRUE]]
    /\ UNCHANGED <<db, config, lock, hand>>

\* pg_try_advisory_lock succeeded while the wait was still running.
Acquire(r) ==
    /\ run[r].pc = "waiting" /\ lock = Nobody
    /\ lock' = r
    /\ run' = [run EXCEPT ![r].pc = "held"]
    /\ UNCHANGED <<db, config, hand>>

\* Faulty variant: the refusal is returned and the lock stays with the session.
AcquireLateKeeps(r) ==
    /\ run[r].pc = "waiting" /\ lock = Nobody
    /\ lock' = r
    /\ run' = [run EXCEPT ![r] = Idle]
    /\ UNCHANGED <<db, config, hand>>

\* The wait ran out in the moment the lock was taken: it is given back before
\* the refusal is returned.
AcquireLate(r) ==
    /\ run[r].pc = "waiting" /\ lock = Nobody
    /\ lock' = r
    /\ run' = [run EXCEPT ![r] = [pc |-> "releasing"]]
    /\ UNCHANGED <<db, config, hand>>

\* The wait ran out, or its context ended, between two tries or in one the
\* server did not grant.
WaitExpires(r) ==
    /\ run[r].pc = "waiting"
    /\ run' = [run EXCEPT ![r] = Idle]
    /\ UNCHANGED <<db, config, lock, hand>>

\* The server granted a try whose answer the deadline or a cancellation cut
\* off: the connection is closed and its session is left with the key.
TryCutOff(r) ==
    /\ run[r].pc = "waiting" /\ lock = Nobody
    /\ lock' = "lingering"
    /\ run' = [run EXCEPT ![r] = Idle]
    /\ UNCHANGED <<db, config, hand>>

\* The transaction reads its plan. Refusals, diagnostics, an empty plan and a
\* decision not to proceed end it; otherwise the statements follow.
Plan(r) ==
    /\ run[r].pc = "held"
    /\ LET plan == planInTransaction(db, run[r].cfg)
       IN  run' = [run EXCEPT ![r] =
              IF /\ plan.verdict = "changes_pending"
                 /\ Decide(plan.acts, @.permit, @.approved)
              THEN [pc |-> "planned", cfg |-> @.cfg, permit |-> @.permit,
                    acts |-> plan.acts, calm |-> TRUE]
              ELSE [pc |-> "releasing"]]
    /\ UNCHANGED <<db, config, lock, hand>>

\* The statements, the readback, the registry write and the commit, whose
\* answer a cancellation may cut off.
Commit(r) ==
    /\ run[r].pc = "planned"
    /\ statementsSucceed(db, run[r].cfg, run[r].acts)
    /\ syncSucceeds(db, run[r].cfg, run[r].acts)
    /\ db' = applied(db, run[r].cfg, run[r].acts)
    /\ \E pc \in {"releasing", "ending"} : run' = [run EXCEPT ![r] = [pc |-> pc]]
    /\ UNCHANGED <<config, lock, hand>>

\* A statement failed, or a table lock timed out: the transaction rolls back.
Rollback(r) ==
    /\ run[r].pc \in {"held", "planned"}
    /\ run' = [run EXCEPT ![r] = [pc |-> "releasing"]]
    /\ UNCHANGED <<db, config, lock, hand>>

\* A cancellation in the middle of a statement, or a broken connection: the
\* pinned connection is closed while the server's session holds the key.
CancelMidStatement(r) ==
    /\ run[r].pc \in {"held", "planned"}
    /\ run' = [run EXCEPT ![r] = [pc |-> "ending"]]
    /\ UNCHANGED <<db, config, lock, hand>>

\* release on the connection that took the lock.
Release(r) ==
    /\ run[r].pc = "releasing"
    /\ lock' = Nobody
    /\ run' = [run EXCEPT ![r] = Idle]
    /\ UNCHANGED <<db, config, hand>>

\* The unlock failed. A connection that is still healthy, its context having
\* ended before the query was sent, goes back into the pool with the key; one
\* that broke in the query leaves the key to a session nobody speaks to.
ReleaseFails(r) ==
    /\ run[r].pc = "releasing"
    /\ \/ run' = [run EXCEPT ![r] = [pc |-> "returning"]] /\ UNCHANGED lock
       \/ run' = [run EXCEPT ![r] = Idle] /\ lock' = "lingering"
    /\ UNCHANGED <<db, config, hand>>

\* Every command gives up on a failed release and closes its pool as it
\* returns; the server then ends the pooled session.
ClosePool(r) ==
    /\ run[r].pc = "returning"
    /\ lock' = "lingering"
    /\ run' = [run EXCEPT ![r] = Idle]
    /\ UNCHANGED <<db, config, hand>>

\* Faulty variant: the session that holds the key is ended, whoever's it is.
endTheSessionHoldingTheKey(r) ==
    /\ run[r].pc = "ending"
    /\ lock' \in {Nobody, "lingering"}
    /\ run' = [run EXCEPT ![r] = Idle]
    /\ UNCHANGED <<db, config, hand>>

\* release after the connection closed: another connection terminates this
\* run's own backend within a bound, or reports that it could not. The session
\* may have ended before, and the key may be another run's by now.
endTheSessionStillHoldingTheKey(r) ==
    /\ run[r].pc = "ending"
    /\ lock' \in IF lock = r THEN {Nobody, "lingering"} ELSE {lock}
    /\ run' = [run EXCEPT ![r] = Idle]
    /\ UNCHANGED <<db, config, hand>>

\* The process dies: its session, if it holds the key, is left to the server.
Crash(r) ==
    /\ run[r].pc # "idle"
    /\ lock' = IF lock = r THEN "lingering" ELSE lock
    /\ run' = [run EXCEPT ![r] = Idle]
    /\ UNCHANGED <<db, config, hand>>

\* The server notices that the client of the session with the key is gone: a
\* process that ended, or a run whose connection was closed under it.
SessionEnds ==
    /\ lock = "lingering" \/ \E r \in Runners : lock = r /\ run[r].pc = "ending"
    /\ lock' = Nobody
    /\ UNCHANGED <<db, config, run, hand>>

-----------------------------------------------------------------------------
(* The administrator and the operator.                                     *)

\* A step of either, noticed by every run that has read its plan.
Interference(d) ==
    /\ hand < MaxHand
    /\ hand' = hand + 1
    /\ db' = d
    /\ run' = [r \in Runners |-> IF run[r].pc = "planned"
                                 THEN [run[r] EXCEPT !.calm = FALSE] ELSE run[r]]
    /\ UNCHANGED lock

RenameTable ==
    \E n, m \in Names :
        /\ db.at[n] # 0 /\ db.at[m] = 0
        /\ Interference([db EXCEPT !.at[n] = 0, !.at[m] = db.at[n]])
        /\ UNCHANGED config

\* A dropped table takes its triggers with it, and leaves their functions.
DropTable ==
    \E n \in Names :
        /\ db.at[n] # 0
        /\ Interference([db EXCEPT !.at[n] = 0,
                                   !.trig[db.at[n]] = [p \in Pairs |-> NoTrigger]])
        /\ UNCHANGED config

\* OIDs are not reused while a registry row or a run may still name them.
CreateTable ==
    \E n \in Names, o \in Oids :
        /\ db.at[n] = 0 /\ ~Live(db, o)
        /\ \A l \in Listeners : db.reg[l].oid # o
        /\ Interference([db EXCEPT !.at[n] = o])
        /\ UNCHANGED config

DropTrigger ==
    \E o \in Oids, p \in Pairs :
        /\ db.trig[o][p] # NoTrigger
        /\ Interference([db EXCEPT !.trig[o][p] = NoTrigger])
        /\ UNCHANGED config

\* A trigger made by hand under the name of a pair, with a function of its own.
HandTrigger ==
    \E o \in Oids, p \in Pairs :
        /\ Live(db, o) /\ db.trig[o][p] = NoTrigger
        /\ Interference([db EXCEPT !.trig[o][p] =
                            [mark |-> "absent", spec |-> "hand", own |-> FALSE]])
        /\ UNCHANGED config

\* COMMENT ON TRIGGER: the marker of another instance, or of another pair.
Remark ==
    \E o \in Oids, p \in Pairs, m \in {"foreign", "other"} :
        /\ db.trig[o][p] # NoTrigger
        /\ Interference([db EXCEPT !.trig[o][p].mark = m])
        /\ UNCHANGED config

\* CREATE OR REPLACE FUNCTION by hand: the body changes, the marker stays.
EditFunction ==
    \E p \in Pairs :
        /\ db.fn[p] # NoFunction
        /\ Interference([db EXCEPT !.fn[p].spec = "hand"])
        /\ UNCHANGED config

EditConfig ==
    \E c \in Configs \ {config} :
        /\ config' = c
        /\ Interference(db)

Administrator ==
    \/ RenameTable \/ DropTable \/ CreateTable
    \/ DropTrigger \/ HandTrigger \/ Remark \/ EditFunction

RunStep(r) ==
    \/ Acquire(r) \/ AcquireLate(r) \/ WaitExpires(r) \/ TryCutOff(r)
    \/ Plan(r) \/ Commit(r) \/ Rollback(r) \/ CancelMidStatement(r)
    \/ Release(r) \/ ReleaseFails(r) \/ ClosePool(r) \/ endTheSessionStillHoldingTheKey(r)

Next ==
    \/ \E r \in Runners : Start(r) \/ Destroy(r) \/ RunStep(r) \/ Crash(r)
    \/ SessionEnds
    \/ Administrator \/ EditConfig

Spec == Init /\ [][Next]_vars

\* A command that started takes its steps, and the server ends the session of
\* a client that is gone.
FairSpec ==
    /\ Spec
    /\ \A r \in Runners : WF_vars(RunStep(r))
    /\ WF_vars(SessionEnds)

-----------------------------------------------------------------------------
(* Properties.                                                             *)

TypeOK ==
    /\ db.at \in [Names -> 0..MaxOid]
    /\ config \in Configs
    /\ lock \in Runners \cup {"lingering", Nobody}
    /\ \A r \in Runners : run[r].pc \in
          {"idle", "waiting", "held", "planned", "releasing", "ending", "returning"}
    /\ hand \in 0..MaxHand

\* Between a run's acquisition and the moment it has no session of its own
\* any more: it plans, writes, or has yet to give the key back.
AtWork(r) == run[r].pc \in {"held", "planned", "releasing", "returning"}

\* No two runs work under the run lock at once: the server counts a run that
\* plans, writes or has yet to give the key back as the only holder, although
\* tries are cut off, releases fail, closed sessions end on their own and a run
\* that lost its session ends one afterwards (runlock.go).
RunsExclusive == \A r, s \in Runners : AtWork(r) /\ AtWork(s) => r = s

\* A listener whose table was dropped and made again under the recorded name
\* while the configuration names another table that exists: the target is the
\* recorded name's (targetresolve.go asks about a move only if the OID lives).
Strayed(d, c, l) ==
    /\ resolveListenerTarget(d, c, l).outcome = "recreated"
    /\ d.at[c[l].table] # d.at[d.reg[l].table]

\* An apply that commits with nobody interfering since its plan leaves no
\* change pending: planning again from the database it wrote, with the same
\* configuration, yields no action, and is clean rather than refused unless a
\* strayed listener was applied to the table of its recorded name (classify.go
\* against apply.go's readback and registry write).
NothingLeftPending ==
    [][\A r \in Runners : (Commit(r) /\ run[r].calm) =>
          LET again == planInTransaction(db', run[r].cfg)
          IN  /\ again.acts = <<>>
              /\ \/ again.verdict = "clean"
                 \/ \E l \in DOMAIN run[r].cfg : Strayed(db, run[r].cfg, l)]_vars

\* The registry row of a listener stores readbacks of objects compiled from
\* the specifications it stores. A rename, and an edit between a plan and its
\* commit, store readbacks of what an administrator left there.
Truthful(d, l) ==
    \A op \in recordedOps(d, l) :
        LET read == d.reg[l].hash[op]
        IN  read[1] = d.reg[l].ops[op] /\ read[3].spec = d.reg[l].ops[op]

\* An undisturbed apply installs what is configured: each pair of an enabled
\* listener, if the listener is new or is recorded under the table it is
\* configured with and its row was true before, runs a trigger and a function
\* compiled from the configured specification on the configured table
\* (classify.go, spechash.go, objectapply.go).
AppliedIsInstalled ==
    [][\A r \in Runners : (Commit(r) /\ run[r].calm) =>
          LET c == run[r].cfg
          IN  \A l \in DOMAIN c :
                (/\ c[l].enabled
                 /\ \/ db.reg[l] = NoRow
                    \/ db.reg[l].table = c[l].table /\ Truthful(db, l)) =>
                \A op \in DOMAIN c[l].ops :
                    /\ db'.trig[db.at[c[l].table]][<<l, op>>] =
                          [mark |-> "ours", own |-> TRUE, spec |-> c[l].ops[op]]
                    /\ db'.fn[<<l, op>>].spec = c[l].ops[op]]_vars

\* Nothing is taken over: a trigger whose marker or registry row does not
\* prove it ours when an undisturbed apply or destroy commits is still there,
\* unchanged, after the commit (ownership.go, doc.go "changes it only after
\* proving that an object is its own").
UnownedUntouched ==
    [][\A r \in Runners : (Commit(r) /\ run[r].calm) =>
          \A o \in Oids, p \in Pairs :
              (/\ db.trig[o][p] # NoTrigger
               /\ \/ db.trig[o][p].mark # "ours"
                  \/ ~db.trig[o][p].own
                  \/ p[2] \notin recordedOps(db, p[1]))
              => db'.trig[o][p] = db.trig[o][p]]_vars

\* A run without destruction permission removes no trigger, whatever the
\* administrator did between its plan and its statements: a trigger that was
\* there is there after the commit, unchanged or replaced (action.go
\* Destructive, decision.go).
RemovalIsPermitted ==
    [][\A r \in Runners : (Commit(r) /\ ~run[r].permit) =>
          \A o \in Oids, p \in Pairs :
              db.trig[o][p] # NoTrigger => db'.trig[o][p] # NoTrigger]_vars

\* The run lock always comes free again: after a commit, a refusal, a wait
\* that ran out as the lock was taken, a cancelled statement or a crash
\* (runlock.go release and acquiredRunLockResult).
LockComesFree == (lock # Nobody) ~> (lock = Nobody)

\* What README.md says of apply, "Reconcile the database to the
\* configuration": after an undisturbed apply every pair of an enabled
\* listener runs the configured specification on the configured table.
ApplyReconciles ==
    [][\A r \in Runners : (Commit(r) /\ run[r].calm) =>
          LET c == run[r].cfg
          IN  \A l \in DOMAIN c : c[l].enabled =>
                \A op \in DOMAIN c[l].ops :
                    LET o == db.at[c[l].table]
                    IN  /\ db'.trig[o][<<l, op>>] # NoTrigger
                        /\ db'.trig[o][<<l, op>>].spec = c[l].ops[op]]_vars
=============================================================================
