--------------------------- MODULE ReconcileProofs ---------------------------
(***************************************************************************)
(* Reconciliation for any number of runs, listeners, operations and tables *)
(* and any interference by hand: no two runs work under the run lock, a    *)
(* run without permission removes nothing, and a run that nobody disturbed *)
(* since its plan changes only objects the ownership proof covers,         *)
(* installs what is configured and leaves nothing pending.                 *)
(***************************************************************************)
EXTENDS Reconcile, TLAPS

\* A plan that is being applied was permitted.
PlanPermitted ==
    \A r \in Runners : run[r].pc = "planned" => (Destructive(run[r].acts) => run[r].permit)

\* A plan that is being applied and was not disturbed is still the plan of
\* the database as it stands.
PlanCurrent ==
    \A r \in Runners : run[r].pc = "planned" /\ run[r].calm =>
        /\ planInTransaction(db, run[r].cfg).verdict = "changes_pending"
        /\ planInTransaction(db, run[r].cfg).acts = run[r].acts

\* The database is a record of its four parts, a plan one of its five.
IsDb(d) == d = [x \in {"at", "trig", "fn", "reg"} |-> d[x]]

PlanShape ==
    \A r \in Runners : run[r].pc = "planned" =>
        run[r] = [pc |-> "planned", cfg |-> run[r].cfg, permit |-> run[r].permit,
                  acts |-> run[r].acts, calm |-> run[r].calm]

\* The inductive invariant.
RInv ==
    /\ run = [r \in Runners |-> run[r]]
    /\ IsDb(db)
    /\ \A r \in Runners : AtWork(r) => lock = r
    /\ PlanShape
    /\ PlanPermitted
    /\ PlanCurrent

\* Nothing runs at first.
LEMMA RInvInit == Init => RInv
  <1> SUFFICES ASSUME Init PROVE RInv
    OBVIOUS
  <1>1. run = [r \in Runners |-> run[r]] /\ \A r \in Runners : run[r].pc = "idle"
    BY DEF Init, Idle
  <1>2. IsDb(db)
    BY DEF Init, IsDb
  <1> QED
    BY <1>1, <1>2 DEF RInv, AtWork, PlanShape, PlanPermitted, PlanCurrent

\* A run that is not at work afterwards, or holds the lock, with the lock
\* still held by whoever else is at work, asks nothing of the others.
LEMMA OneRunMoves ==
  ASSUME RInv, NEW r \in Runners, NEW rec,
         run' = [run EXCEPT ![r] = rec], db' = db,
         rec.pc # "planned",
         rec.pc \in {"held", "releasing", "returning"} => lock' = r,
         \A s \in Runners \ {r} : AtWork(s) => lock' = s
  PROVE  RInv'
  <1>1. run' = [s \in Runners |-> run'[s]] /\ run'[r] = rec
        /\ \A s \in Runners \ {r} : run'[s] = run[s]
    BY DEF RInv
  <1>2. \A s \in Runners : AtWork(s)' => lock' = s
    BY <1>1 DEF AtWork
  <1>3. PlanPermitted' /\ PlanShape'
    BY <1>1 DEF RInv, PlanPermitted, PlanShape
  <1>4. PlanCurrent'
    <2>1. \A s \in Runners : run'[s].pc = "planned" => run'[s] = run[s] /\ s # r
      BY <1>1
    <2> QED
      BY <2>1 DEF RInv, PlanCurrent
  <1> QED
    BY <1>1, <1>2, <1>3, <1>4 DEF RInv

\* The plan is read and decided on under the lock.
LEMMA PlanStep ==
  ASSUME RInv, NEW r \in Runners, Plan(r)
  PROVE  RInv'
  <1> DEFINE plan == planInTransaction(db, run[r].cfg)
             go   == plan.verdict = "changes_pending"
                     /\ Decide(plan.acts, run[r].permit, run[r].approved)
             rec  == [pc |-> "planned", cfg |-> run[r].cfg, permit |-> run[r].permit,
                      acts |-> plan.acts, calm |-> TRUE]
  <1>0. run[r].pc = "held" /\ lock = r /\ lock' = lock /\ db' = db
        /\ \A s \in Runners \ {r} : ~AtWork(s)
    BY DEF Plan, RInv, AtWork
  <1>1. CASE ~go
    <2>1. run' = [run EXCEPT ![r] = [pc |-> "releasing"]]
      BY <1>1 DEF Plan
    <2> HIDE DEF go
    <2> DEFINE idle == [pc |-> "releasing"]
    <2>2. idle.pc = "releasing"
      OBVIOUS
    <2> HIDE DEF idle
    <2>3. run' = [run EXCEPT ![r] = idle]
      BY <2>1 DEF idle
    <2> QED
      BY <1>0, <2>2, <2>3, OneRunMoves
  <1>2. CASE go
    <2>1. run' = [run EXCEPT ![r] = rec]
      BY <1>2 DEF Plan
    <2>2. run' = [s \in Runners |-> run'[s]] /\ run'[r] = rec
          /\ \A s \in Runners \ {r} : run'[s] = run[s]
      BY <2>1 DEF RInv
    <2>0. rec = [pc |-> "planned", cfg |-> rec.cfg, permit |-> rec.permit,
                 acts |-> rec.acts, calm |-> rec.calm]
      OBVIOUS
    <2>3. rec.pc = "planned" /\ rec.cfg = run[r].cfg /\ rec.permit = run[r].permit
          /\ rec.acts = plan.acts
      OBVIOUS
    <2>4. plan.verdict = "changes_pending" /\ (Destructive(plan.acts) => run[r].permit)
      BY <1>2 DEF Decide
    <2> HIDE DEF rec, plan, go
    <2>5. \A s \in Runners : run'[s].pc = "planned" => s = r
      BY <1>0, <2>2 DEF AtWork
    <2>6. \A s \in Runners : AtWork(s)' => lock' = s
      BY <1>0, <2>2 DEF AtWork
    <2>7. PlanPermitted'
      BY <2>2, <2>3, <2>4, <2>5 DEF PlanPermitted
    <2>10. PlanShape'
      BY <2>0, <2>2, <2>3, <2>5 DEF PlanShape
    <2>8. PlanCurrent'
      BY <1>0, <2>2, <2>3, <2>4, <2>5 DEF PlanCurrent, plan
    <2>9. IsDb(db')
      BY <1>0 DEF RInv
    <2> QED
      BY <2>2, <2>6, <2>7, <2>8, <2>9, <2>10 DEF RInv
  <1> QED
    BY <1>1, <1>2

\* The database a commit writes, part by part.
LEMMA AppliedParts ==
  ASSUME NEW d, NEW c, NEW acts, IsDb(d)
  PROVE  IsDb(applied(d, c, acts)) /\ applied(d, c, acts).trig = triggersAfter(d, c, acts)
  <1> DEFINE a == applyObjects(d, c, acts)
  <1>1. IsDb(a) /\ a.trig = triggersAfter(d, c, acts)
    BY DEF applyObjects, IsDb
  <1> HIDE DEF a
  <1>2. IsDb(syncRegistry(a, c, acts)) /\ syncRegistry(a, c, acts).trig = a.trig
    BY <1>1 DEF syncRegistry, IsDb
  <1> QED
    BY <1>1, <1>2 DEF applied, a

\* A commit ends the only plan there is.
LEMMA CommitStep ==
  ASSUME RInv, NEW r \in Runners, Commit(r)
  PROVE  RInv'
  <1>0. run[r].pc = "planned" /\ lock = r /\ lock' = lock
        /\ \A s \in Runners \ {r} : ~AtWork(s)
    BY DEF Commit, RInv, AtWork
  <1>1. PICK pc \in {"releasing", "ending"} : run' = [run EXCEPT ![r] = [pc |-> pc]]
    BY DEF Commit
  <1>2. run' = [s \in Runners |-> run'[s]] /\ run'[r].pc \in {"releasing", "ending"}
        /\ \A s \in Runners \ {r} : run'[s] = run[s]
    BY <1>1 DEF RInv
  <1>3. \A s \in Runners : run'[s].pc # "planned"
    BY <1>0, <1>2 DEF AtWork
  <1>4. \A s \in Runners : AtWork(s)' => lock' = s
    BY <1>0, <1>2 DEF AtWork
  <1>5. IsDb(db')
    BY AppliedParts DEF Commit, RInv
  <1> QED
    BY <1>2, <1>3, <1>4, <1>5 DEF RInv, PlanShape, PlanPermitted, PlanCurrent

\* Interference marks every plan as disturbed.
LEMMA InterferenceStep ==
  ASSUME RInv, NEW d, Interference(d), IsDb(d)
  PROVE  RInv'
  <1>1. db' = d /\ lock' = lock
        /\ run' = [r \in Runners |-> IF run[r].pc = "planned"
                                     THEN [run[r] EXCEPT !.calm = FALSE] ELSE run[r]]
    BY DEF Interference
  <1>2. run' = [s \in Runners |-> run'[s]]
    BY <1>1
  <1>3. \A s \in Runners : run[s].pc # "planned" => run'[s] = run[s]
    BY <1>1
  <1>4. \A s \in Runners : run[s].pc = "planned" =>
          run'[s] = [pc |-> "planned", cfg |-> run[s].cfg, permit |-> run[s].permit,
                     acts |-> run[s].acts, calm |-> FALSE]
    <2> TAKE s \in Runners
    <2> HAVE run[s].pc = "planned"
    <2>1. run'[s] = [run[s] EXCEPT !.calm = FALSE]
      BY <1>1
    <2> QED
      BY <2>1 DEF RInv, PlanShape
  <1>5. \A s \in Runners : run'[s].pc = run[s].pc
    <2> TAKE s \in Runners
    <2>1. CASE run[s].pc = "planned"
      <3>1. run'[s] = [pc |-> "planned", cfg |-> run[s].cfg, permit |-> run[s].permit,
                       acts |-> run[s].acts, calm |-> FALSE]
        BY <1>4, <2>1
      <3> QED
        BY <2>1, <3>1
    <2>2. CASE run[s].pc # "planned"
      BY <1>3, <2>2
    <2> QED
      BY <2>1, <2>2
  <1>6. \A s \in Runners : run'[s].pc = "planned" =>
          /\ run'[s].acts = run[s].acts /\ run'[s].permit = run[s].permit /\ ~run'[s].calm
          /\ run'[s] = [pc |-> "planned", cfg |-> run'[s].cfg, permit |-> run'[s].permit,
                        acts |-> run'[s].acts, calm |-> run'[s].calm]
    <2> TAKE s \in Runners
    <2> HAVE run'[s].pc = "planned"
    <2>1. run'[s] = [pc |-> "planned", cfg |-> run[s].cfg, permit |-> run[s].permit,
                     acts |-> run[s].acts, calm |-> FALSE]
      BY <1>4, <1>5
    <2> QED
      BY <2>1
  <1>7. \A s \in Runners : AtWork(s)' => lock' = s
    BY <1>1, <1>5 DEF RInv, AtWork
  <1>8. PlanPermitted'
    BY <1>5, <1>6 DEF RInv, PlanPermitted
  <1>9. PlanShape' /\ PlanCurrent'
    BY <1>6 DEF PlanShape, PlanCurrent
  <1> QED
    BY <1>1, <1>2, <1>7, <1>8, <1>9 DEF RInv

\* What the administrator and the operator do keeps the parts of the database.
LEMMA HandStep ==
  ASSUME RInv, Administrator \/ EditConfig
  PROVE  RInv'
  <1>1. PICK d : Interference(d) /\ IsDb(d)
    <2>0. IsDb(db)
      BY DEF RInv
    <2>1. CASE RenameTable
      <3>1. PICK n, m \in Names : Interference([db EXCEPT !.at[n] = 0, !.at[m] = db.at[n]])
        BY <2>1 DEF RenameTable
      <3>2. IsDb([db EXCEPT !.at[n] = 0, !.at[m] = db.at[n]])
        BY <2>0 DEF IsDb
      <3> QED
        BY <3>1, <3>2
    <2>2. CASE DropTable
      <3>1. PICK n \in Names :
              Interference([db EXCEPT !.at[n] = 0,
                                      !.trig[db.at[n]] = [p \in Pairs |-> NoTrigger]])
        BY <2>2 DEF DropTable
      <3>2. IsDb([db EXCEPT !.at[n] = 0, !.trig[db.at[n]] = [p \in Pairs |-> NoTrigger]])
        BY <2>0 DEF IsDb
      <3> QED
        BY <3>1, <3>2
    <2>3. CASE CreateTable
      <3>1. PICK n \in Names, o \in Oids : Interference([db EXCEPT !.at[n] = o])
        BY <2>3 DEF CreateTable
      <3>2. IsDb([db EXCEPT !.at[n] = o])
        BY <2>0 DEF IsDb
      <3> QED
        BY <3>1, <3>2
    <2>4. CASE DropTrigger
      <3>1. PICK o \in Oids, p \in Pairs : Interference([db EXCEPT !.trig[o][p] = NoTrigger])
        BY <2>4 DEF DropTrigger
      <3>2. IsDb([db EXCEPT !.trig[o][p] = NoTrigger])
        BY <2>0 DEF IsDb
      <3> QED
        BY <3>1, <3>2
    <2>5. CASE HandTrigger
      <3>1. PICK o \in Oids, p \in Pairs :
              Interference([db EXCEPT !.trig[o][p] =
                              [mark |-> "absent", spec |-> "hand", own |-> FALSE]])
        BY <2>5 DEF HandTrigger
      <3>2. IsDb([db EXCEPT !.trig[o][p] =
                      [mark |-> "absent", spec |-> "hand", own |-> FALSE]])
        BY <2>0 DEF IsDb
      <3> QED
        BY <3>1, <3>2
    <2>6. CASE Remark
      <3>1. PICK o \in Oids, p \in Pairs, m \in {"foreign", "other"} :
              Interference([db EXCEPT !.trig[o][p].mark = m])
        BY <2>6 DEF Remark
      <3>2. IsDb([db EXCEPT !.trig[o][p].mark = m])
        BY <2>0 DEF IsDb
      <3> QED
        BY <3>1, <3>2
    <2>7. CASE EditFunction
      <3>1. PICK p \in Pairs : Interference([db EXCEPT !.fn[p].spec = "hand"])
        BY <2>7 DEF EditFunction
      <3>2. IsDb([db EXCEPT !.fn[p].spec = "hand"])
        BY <2>0 DEF IsDb
      <3> QED
        BY <3>1, <3>2
    <2>8. CASE EditConfig
      BY <2>0, <2>8 DEF EditConfig
    <2> QED
      BY <2>1, <2>2, <2>3, <2>4, <2>5, <2>6, <2>7, <2>8 DEF Administrator
  <1> QED
    BY <1>1, InterferenceStep

\* A run's other steps.
LEMMA RunnerStep ==
  ASSUME RInv, NEW r \in Runners,
         \/ Start(r) \/ Destroy(r) \/ Acquire(r) \/ AcquireLate(r) \/ WaitExpires(r)
         \/ TryCutOff(r) \/ Rollback(r) \/ CancelMidStatement(r) \/ Release(r)
         \/ ReleaseFails(r) \/ ClosePool(r)
         \/ endTheSessionStillHoldingTheKey(r) \/ Crash(r)
  PROVE  RInv'
  <1>0. db' = db
    BY DEF Start, Destroy, Acquire, AcquireLate, WaitExpires, TryCutOff, Rollback,
           CancelMidStatement, Release, ReleaseFails, ClosePool,
           endTheSessionStillHoldingTheKey, Crash
  <1>1. PICK rec : /\ run' = [run EXCEPT ![r] = rec] /\ rec.pc # "planned"
                   /\ rec.pc \in {"held", "releasing", "returning"} => lock' = r
    <2>1. CASE Start(r)
      <3>1. PICK a \in Approvals :
              run' = [run EXCEPT ![r] = [pc |-> "waiting", cfg |-> config,
                                         permit |-> a.permit, approved |-> a.approved]]
        BY <2>1 DEF Start
      <3> DEFINE rec == [pc |-> "waiting", cfg |-> config,
                         permit |-> a.permit, approved |-> a.approved]
      <3>2. rec.pc = "waiting"
        OBVIOUS
      <3> QED
        BY <3>1, <3>2
    <2>2. CASE Destroy(r)
      <3> DEFINE rec == [pc |-> "waiting", cfg |-> <<>>, permit |-> TRUE, approved |-> TRUE]
      <3>1. rec.pc = "waiting" /\ run' = [run EXCEPT ![r] = rec]
        BY <2>2 DEF Destroy
      <3> QED
        BY <3>1
    <2>3. CASE Acquire(r)
      <3> DEFINE rec == [run[r] EXCEPT !.pc = "held"]
      <3>1. run' = [run EXCEPT ![r] = rec] /\ lock' = r
        BY <2>3 DEF Acquire
      <3>2. rec.pc # "planned"
        BY <2>3 DEF Acquire
      <3> QED
        BY <3>1, <3>2
    <2>4. CASE AcquireLate(r)
      <3> DEFINE rec == [pc |-> "releasing"]
      <3>1. rec.pc = "releasing" /\ run' = [run EXCEPT ![r] = rec] /\ lock' = r
        BY <2>4 DEF AcquireLate
      <3> QED
        BY <3>1
    <2>5. CASE Rollback(r)
      <3> DEFINE rec == [pc |-> "releasing"]
      <3>1. rec.pc = "releasing" /\ run' = [run EXCEPT ![r] = rec] /\ lock' = r
        BY <2>5 DEF Rollback, RInv, AtWork
      <3> QED
        BY <3>1
    <2>6. CASE CancelMidStatement(r)
      <3> DEFINE rec == [pc |-> "ending"]
      <3>1. rec.pc = "ending" /\ run' = [run EXCEPT ![r] = rec]
        BY <2>6 DEF CancelMidStatement
      <3> QED
        BY <3>1
    <2>7. CASE run' = [run EXCEPT ![r] = Idle]
      <3>1. Idle.pc = "idle"
        BY DEF Idle
      <3> QED
        BY <2>7, <3>1
    <2>8. CASE ReleaseFails(r) /\ run' # [run EXCEPT ![r] = Idle]
      <3> DEFINE rec == [pc |-> "returning"]
      <3>1. rec.pc = "returning" /\ run' = [run EXCEPT ![r] = rec] /\ lock' = r
        BY <2>8 DEF ReleaseFails, RInv, AtWork
      <3> QED
        BY <3>1
    <2>9. \/ WaitExpires(r) \/ TryCutOff(r) \/ Release(r) \/ ClosePool(r)
          \/ endTheSessionStillHoldingTheKey(r) \/ Crash(r)
          => run' = [run EXCEPT ![r] = Idle]
      BY DEF WaitExpires, TryCutOff, Release, ClosePool, endTheSessionStillHoldingTheKey, Crash
    <2> QED
      BY <2>1, <2>2, <2>3, <2>4, <2>5, <2>6, <2>7, <2>8, <2>9
  <1>2. \A s \in Runners \ {r} : AtWork(s) => lock' = s
    <2> SUFFICES ASSUME NEW s \in Runners \ {r}, AtWork(s) PROVE lock' = s
      OBVIOUS
    <2>1. lock = s /\ lock # r /\ lock # Nobody
      BY HoldersAssumption DEF RInv
    <2>2. ~AtWork(r)
      BY <2>1 DEF RInv
    <2>3. lock' = lock
      BY <2>1, <2>2 DEF Start, Destroy, Acquire, AcquireLate, WaitExpires, TryCutOff, Rollback,
         CancelMidStatement, Release, ReleaseFails, ClosePool,
         endTheSessionStillHoldingTheKey, Crash, AtWork
    <2> QED
      BY <2>1, <2>3
  <1> QED
    BY <1>0, <1>1, <1>2, OneRunMoves

\* Every step preserves the invariant.
LEMMA RInvStep == RInv /\ [Next]_vars => RInv'
  <1> SUFFICES ASSUME RInv, [Next]_vars PROVE RInv'
    OBVIOUS
  <1>1. CASE SessionEnds
    <2>1. UNCHANGED <<db, run>> /\ \A r \in Runners : ~AtWork(r)
      BY <1>1, HoldersAssumption DEF SessionEnds, RInv, AtWork
    <2> QED
      BY <2>1 DEF RInv, AtWork, PlanShape, PlanPermitted, PlanCurrent
  <1>2. CASE UNCHANGED vars
    BY <1>2 DEF vars, RInv, AtWork, PlanShape, PlanPermitted, PlanCurrent
  <1> QED
    BY <1>1, <1>2, RunnerStep, PlanStep, CommitStep, HandStep DEF Next, RunStep

\* No two runs plan, write or have the key to give back at once, whatever
\* waits expire, tries and statements are cut off, releases fail, sessions end
\* on their own and processes die (runlock.go). A run whose session was closed
\* under it is not among them: its key may already be another run's, and the
\* step that ends the session leaves that run alone.
THEOREM RunLockExcludes == Spec => []RunsExclusive
  <1>1. RInv => RunsExclusive
    BY DEF RInv, RunsExclusive
  <1> QED
    BY <1>1, RInvInit, RInvStep, PTL DEF Spec

----------------------------------------------------------------------------
(* What a commit leaves alone.                                             *)

\* A trigger that a commit changes is one the plan makes or drops, on the
\* table its listener resolves to.
LEMMA CommitTouches ==
  ASSUME RInv, NEW r \in Runners, Commit(r), NEW o \in Oids, NEW p \in Pairs
  PROVE  LET c == run[r].cfg acts == run[r].acts IN
         /\ db'.trig[o][p] # db.trig[o][p] =>
              p \in made(db, c, acts) \cup gone(db, c, acts) /\ o = on(db, c, p)
         /\ db'.trig[o][p] = NoTrigger =>
              db.trig[o][p] = NoTrigger \/ p \in gone(db, c, acts)
  <1> DEFINE c == run[r].cfg
             acts == run[r].acts
  <1>1. db'.trig = triggersAfter(db, c, acts)
    BY AppliedParts DEF Commit, RInv
  <1>2. db'.trig[o][p] =
          IF p \in made(db, c, acts) /\ o = on(db, c, p)
          THEN [mark |-> "ours", spec |-> c[p[1]].ops[p[2]], own |-> TRUE]
          ELSE IF p \in gone(db, c, acts) /\ o = on(db, c, p) THEN NoTrigger ELSE db.trig[o][p]
    BY <1>1 DEF triggersAfter
  <1>3. [mark |-> "ours", spec |-> c[p[1]].ops[p[2]], own |-> TRUE] # NoTrigger
    BY DEF NoTrigger
  <1> HIDE DEF c, acts
  <1>4. /\ db'.trig[o][p] # db.trig[o][p] =>
              p \in made(db, c, acts) \cup gone(db, c, acts) /\ o = on(db, c, p)
        /\ db'.trig[o][p] = NoTrigger =>
              db.trig[o][p] = NoTrigger \/ p \in gone(db, c, acts)
    BY <1>2, <1>3
  <1> QED
    BY <1>4 DEF c, acts

\* A run without destruction permission removes no trigger, whatever was
\* done by hand between its plan and its statements (action.go Destructive,
\* decision.go).
THEOREM RemovalNeedsPermission == Spec => RemovalIsPermitted
  <1>1. ASSUME RInv, NEW r \in Runners, Commit(r), ~run[r].permit,
               NEW o \in Oids, NEW p \in Pairs, db.trig[o][p] # NoTrigger
        PROVE  db'.trig[o][p] # NoTrigger
    <2> DEFINE c == run[r].cfg
               acts == run[r].acts
    <2>1. ~Destructive(acts)
      BY <1>1 DEF RInv, PlanPermitted, Commit
    <2>2. p \notin gone(db, c, acts)
      BY <2>1 DEF gone, made, withDropOfWhatTheCatalogHolds, objectsForPlan, Destructive
    <2> QED
      BY <1>1, <2>2, CommitTouches
  <1>2. RInv /\ [Next]_vars =>
          [\A r \in Runners : (Commit(r) /\ ~run[r].permit) =>
             \A o \in Oids, p \in Pairs :
                 db.trig[o][p] # NoTrigger => db'.trig[o][p] # NoTrigger]_vars
    BY <1>1
  <1> QED
    BY <1>2, RInvInit, RInvStep, PTL DEF Spec, RemovalIsPermitted

\* A plan with actions refuses no examined pair, so each trigger it found is
\* proved by a registry row, its own marker and its function's.
LEMMA PlanProvesOwnership ==
  ASSUME NEW d, NEW c, planInTransaction(d, c).verdict = "changes_pending",
         NEW p \in Pairs, p \in DOMAIN planInTransaction(d, c).acts,
         d.trig[on(d, c, p)][p] # NoTrigger, on(d, c, p) \in Oids
  PROVE  /\ d.trig[on(d, c, p)][p].mark = "ours" /\ d.trig[on(d, c, p)][p].own
         /\ p[2] \in recordedOps(d, p[1])
  <1> DEFINE kind == [q \in examined(d, c) |-> classifyPair(d, c, q)]
             acting == {q \in examined(d, c) : kind[q] \in Kinds}
  <1>1. planInTransaction(d, c) = diff(d, c) /\ "refuse" \notin Range(kind)
    BY DEF planInTransaction, diff
  <1>2. p \in examined(d, c)
    BY <1>1 DEF diff
  <1>3. classifyPair(d, c, p) # "refuse"
    BY <1>1, <1>2 DEF Range
  <1>4. ~observedOwnershipRefusal(d, c, p)
    BY <1>3 DEF classifyPair
  <1>5. observed(d, c, p) = d.trig[on(d, c, p)][p]
    BY DEF observed, on, Oids, Pairs
  <1>6. /\ DetermineOwnership(p[2] \in recordedOps(d, p[1]), d.trig[on(d, c, p)][p].mark)
        /\ DetermineOwnership(p[2] \in recordedOps(d, p[1]), FunctionOf(d, on(d, c, p), p).mark)
    BY <1>4, <1>5 DEF observedOwnershipRefusal, on
  <1> QED
    BY <1>6 DEF DetermineOwnership, FunctionOf

\* An apply or a destroy that nobody disturbed since its plan leaves every
\* trigger alone that registry, marker and function do not prove its own
\* (ownership.go).  That the plan is still true when it is applied rests on
\* the run lock: no other run commits in between.
THEOREM NothingTakenOver == Spec => UnownedUntouched
  <1>1. ASSUME RInv, NEW r \in Runners, Commit(r), run[r].calm,
               NEW o \in Oids, NEW p \in Pairs, db.trig[o][p] # NoTrigger,
               \/ db.trig[o][p].mark # "ours"
               \/ ~db.trig[o][p].own
               \/ p[2] \notin recordedOps(db, p[1])
        PROVE  db'.trig[o][p] = db.trig[o][p]
    <2> DEFINE c == run[r].cfg
               acts == run[r].acts
    <2>1. planInTransaction(db, c).verdict = "changes_pending"
          /\ planInTransaction(db, c).acts = acts
      BY <1>1 DEF RInv, PlanCurrent, Commit
    <2>2. SUFFICES ASSUME p \in made(db, c, acts) \cup gone(db, c, acts), o = on(db, c, p)
                   PROVE FALSE
      BY <1>1, CommitTouches
    <2>3. p \in DOMAIN acts
      BY <2>2 DEF made, gone, objectsForPlan
    <2> QED
      BY <1>1, <2>1, <2>2, <2>3, PlanProvesOwnership
  <1>2. RInv /\ [Next]_vars =>
          [\A r \in Runners : (Commit(r) /\ run[r].calm) =>
             \A o \in Oids, p \in Pairs :
                 (/\ db.trig[o][p] # NoTrigger
                  /\ \/ db.trig[o][p].mark # "ours"
                     \/ ~db.trig[o][p].own
                     \/ p[2] \notin recordedOps(db, p[1]))
                 => db'.trig[o][p] = db.trig[o][p]]_vars
    BY <1>1
  <1> QED
    BY <1>2, RInvInit, RInvStep, PTL DEF Spec, UnownedUntouched

----------------------------------------------------------------------------
(* What the plan and the commit rely on in the database and in the runs.   *)

\* A trigger, ours or made by hand, or none.
IsTrigger(t) ==
    \/ t = NoTrigger
    \/ t = [mark |-> t.mark, spec |-> t.spec, own |-> t.own] /\ t.own \in BOOLEAN

\* Names resolve to tables, triggers are on tables, and a registry row
\* records a table and its name.
DbTyped(d) ==
    /\ d.at \in [Names -> 0..MaxOid]
    /\ d.trig = [o \in Oids |-> d.trig[o]]
    /\ \A o \in Oids : d.trig[o] = [p \in Pairs |-> d.trig[o][p]]
    /\ \A o \in Oids, p \in Pairs : IsTrigger(d.trig[o][p])
    /\ \A l \in Listeners : d.reg[l] # NoRow =>
          d.reg[l].oid \in Oids /\ d.reg[l].table \in Names

\* A run that has not read its plan yet is a record of its four parts, and
\* a run carries a configuration until its commit.
RunTyped(rec) ==
    /\ rec.pc \in {"waiting", "held"} =>
         rec = [pc |-> rec.pc, cfg |-> rec.cfg, permit |-> rec.permit,
                approved |-> rec.approved]
    /\ rec.pc \in {"waiting", "held", "planned"} => IsConfig(rec.cfg)

\* The typing invariant.
TInv ==
    /\ config \in Configs
    /\ DbTyped(db)
    /\ \A r \in Runners : RunTyped(run[r])

\* `destroy` runs with no listener at all.
LEMMA EmptyConfig == IsConfig(<<>>)
  BY DEF IsConfig

\* Nothing runs at first, on one table and an empty registry.
LEMMA TInvInit == Init => TInv
  <1> SUFFICES ASSUME Init PROVE TInv
    OBVIOUS
  <1>1. PICK at \in [Names -> 0..1] :
          db = [at |-> at,
                trig |-> [o \in Oids |-> [p \in Pairs |-> NoTrigger]],
                fn |-> [p \in Pairs |-> NoFunction],
                reg |-> [l \in Listeners |-> NoRow]]
    BY DEF Init
  <1>2. db.at \in [Names -> 0..MaxOid]
    BY <1>1, OidAssumption
  <1>3. /\ db.trig = [o \in Oids |-> db.trig[o]]
        /\ \A o \in Oids : db.trig[o] = [p \in Pairs |-> db.trig[o][p]]
        /\ \A o \in Oids, p \in Pairs : db.trig[o][p] = NoTrigger
    BY <1>1
  <1>4. \A l \in Listeners : db.reg[l] = NoRow
    BY <1>1
  <1>5. \A r \in Runners : run[r].pc = "idle"
    BY DEF Init, Idle
  <1>6. \A r \in Runners : RunTyped(run[r])
    BY <1>5 DEF RunTyped
  <1> QED
    BY <1>2, <1>3, <1>4, <1>6 DEF TInv, DbTyped, IsTrigger, Init

\* A listener that is not refused stands for a table that has a name.
LEMMA Resolves ==
  ASSUME NEW d, NEW c, NEW l \in Listeners, DbTyped(d), IsConfig(c),
         l \in DOMAIN c \/ d.reg[l] # NoRow,
         resolveListenerTarget(d, c, l).outcome # "refused"
  PROVE  LET o == resolveListenerTarget(d, c, l).oid
         IN  o \in Oids /\ NameOf(d, o) \in Names /\ d.at[NameOf(d, o)] = o
  <1> DEFINE t == resolveListenerTarget(d, c, l)
             rec == d.reg[l]
             name == IF l \in DOMAIN c THEN c[l].table ELSE rec.table
  <1>1. name \in Names /\ (rec # NoRow => rec.table \in Names /\ rec.oid # 0)
    BY DEF DbTyped, IsConfig, Listener, Oids
  <1>2. t.oid # 0 /\ \E n \in Names : d.at[n] = t.oid
    <2> HIDE DEF name
    <2>1. \/ t.oid = d.at[name] /\ d.at[name] # 0
          \/ t.oid = rec.oid /\ Live(d, rec.oid) /\ rec # NoRow
             /\ (d.at[rec.table] = rec.oid \/ d.at[rec.table] # rec.oid)
          \/ t.oid = d.at[rec.table] /\ d.at[rec.table] # 0 /\ rec # NoRow
      BY DEF resolveListenerTarget, name
    <2> QED
      BY <1>1, <2>1 DEF Live
  <1> QED
    BY <1>2 DEF DbTyped, Oids, NameOf

\* Which table a listener stands for depends on the names and its own row.
LEMMA SameTarget ==
  ASSUME NEW d, NEW e, NEW c, NEW l, e.at = d.at, e.reg[l] = d.reg[l]
  PROVE  resolveListenerTarget(e, c, l) = resolveListenerTarget(d, c, l)
  BY DEF resolveListenerTarget, Live

\* What a table is called depends on the names alone.
LEMMA SameName ==
  ASSUME NEW d, NEW e, NEW o, e.at = d.at
  PROVE  NameOf(e, o) = NameOf(d, o)
  <1> DEFINE named(at) == CHOOSE n \in Names : at[n] = o
  <1>1. NameOf(e, o) = named(e.at) /\ NameOf(d, o) = named(d.at)
    BY DEF NameOf
  <1> HIDE DEF named
  <1> QED
    BY <1>1

\* The database after the statements, and after the registry write.
LEMMA AppliedFields ==
  ASSUME NEW d, NEW c, NEW acts, IsDb(d)
  PROVE  /\ applyObjects(d, c, acts).at = d.at
         /\ applyObjects(d, c, acts).reg = d.reg
         /\ applyObjects(d, c, acts).trig = triggersAfter(d, c, acts)
         /\ applyObjects(d, c, acts).fn = functionsAfter(d, c, acts)
         /\ applied(d, c, acts).at = d.at
         /\ applied(d, c, acts).trig = triggersAfter(d, c, acts)
         /\ applied(d, c, acts).fn = functionsAfter(d, c, acts)
  <1> DEFINE a == applyObjects(d, c, acts)
  <1>1. IsDb(a) /\ a.trig = triggersAfter(d, c, acts) /\ a.fn = functionsAfter(d, c, acts)
        /\ a.at = d.at /\ a.reg = d.reg
    BY DEF applyObjects, IsDb
  <1> HIDE DEF a
  <1> DEFINE e == syncRegistry(a, c, acts)
  <1>2. e.at = a.at /\ e.trig = a.trig /\ e.fn = a.fn
    BY <1>1 DEF syncRegistry, IsDb
  <1> QED
    BY <1>1, <1>2 DEF applied, a

\* A listener the plan acts on.
Touched(acts, l) == \E p \in DOMAIN acts : p[1] = l

\* The registry after the commit.
LEMMA AppliedRows ==
  ASSUME NEW d, NEW c, NEW acts, IsDb(d), NEW l \in Listeners
  PROVE  applied(d, c, acts).reg[l] =
           IF ~Touched(acts, l) THEN d.reg[l]
           ELSE IF l \in DOMAIN c THEN writeRegistry(applyObjects(d, c, acts), c, l) ELSE NoRow
  <1> DEFINE a == applyObjects(d, c, acts)
  <1>1. IsDb(a) /\ a.reg = d.reg
    BY DEF applyObjects, IsDb
  <1> HIDE DEF a
  <1>2. l \in {p[1] : p \in DOMAIN acts} <=> Touched(acts, l)
    BY DEF Touched
  <1>3. syncRegistry(a, c, acts).reg[l] =
          IF l \notin {p[1] : p \in DOMAIN acts} THEN a.reg[l]
          ELSE IF l \in DOMAIN c THEN writeRegistry(a, c, l) ELSE NoRow
    BY <1>1 DEF syncRegistry, IsDb
  <1> QED
    BY <1>1, <1>2, <1>3 DEF applied, a

\* The row a commit writes for a listener names the table the listener
\* stood for when the statements ran.
LEMMA WrittenRow ==
  ASSUME NEW d, NEW c, NEW acts, IsDb(d), DbTyped(d), IsConfig(c), NEW l \in DOMAIN c,
         resolveListenerTarget(d, c, l).outcome # "refused"
  PROVE  LET a == applyObjects(d, c, acts)
             o == resolveListenerTarget(d, c, l).oid
             row == writeRegistry(a, c, l)
         IN  /\ row # NoRow /\ row.oid = o /\ row.table = NameOf(d, o)
             /\ o \in Oids /\ row.table \in Names /\ d.at[row.table] = o
             /\ row.cname = c[l].table /\ row.ops = c[l].ops
             /\ row.hash = registryTriggers(a, c[l], o, l)
  <1> DEFINE a == applyObjects(d, c, acts)
             t == resolveListenerTarget(d, c, l)
             row == writeRegistry(a, c, l)
  <1>1. a.at = d.at /\ a.reg = d.reg
    BY AppliedFields
  <1>2. resolveListenerTarget(a, c, l) = t /\ NameOf(a, t.oid) = NameOf(d, t.oid)
    BY <1>1, SameTarget, SameName
  <1>3. t.oid \in Oids /\ NameOf(d, t.oid) \in Names /\ d.at[NameOf(d, t.oid)] = t.oid
    BY Resolves DEF IsConfig
  <1> HIDE DEF a, t
  <1>4. row = [oid |-> t.oid, table |-> NameOf(d, t.oid), cname |-> c[l].table,
               enabled |-> c[l].enabled, ops |-> c[l].ops,
               hash |-> registryTriggers(a, c[l], t.oid, l)]
    BY <1>2 DEF writeRegistry
  <1> HIDE DEF row
  <1>5. row.oid = t.oid /\ row.table = NameOf(d, t.oid)
        /\ row.cname = c[l].table /\ row.ops = c[l].ops
        /\ row.hash = registryTriggers(a, c[l], t.oid, l)
    BY <1>4
  <1>6. row # NoRow
    <2>1. t.oid # 0
      BY <1>3 DEF Oids
    <2> QED
      BY <1>5, <2>1 DEF NoRow
  <1> QED
    BY <1>3, <1>5, <1>6 DEF a, t, row

\* A commit keeps the database well formed.
LEMMA AppliedTyped ==
  ASSUME NEW d, NEW c, NEW acts, IsDb(d), DbTyped(d), IsConfig(c), syncSucceeds(d, c, acts)
  PROVE  DbTyped(applied(d, c, acts))
  <1> DEFINE a == applyObjects(d, c, acts)
             e == applied(d, c, acts)
  <1>1. e.at \in [Names -> 0..MaxOid]
    BY AppliedFields DEF DbTyped
  <1>2. e.trig = triggersAfter(d, c, acts)
    BY AppliedFields
  <1>3. \A o \in Oids, p \in Pairs :
          e.trig[o][p] \in {d.trig[o][p], NoTrigger,
                            [mark |-> "ours", spec |-> c[p[1]].ops[p[2]], own |-> TRUE]}
    BY <1>2 DEF triggersAfter
  <1>4. \A o \in Oids, p \in Pairs : IsTrigger(e.trig[o][p])
    <2> TAKE o \in Oids, p \in Pairs
    <2> DEFINE t == [mark |-> "ours", spec |-> c[p[1]].ops[p[2]], own |-> TRUE]
    <2>1. IsTrigger(t)
      BY DEF IsTrigger
    <2>2. IsTrigger(NoTrigger) /\ IsTrigger(d.trig[o][p])
      BY DEF IsTrigger, DbTyped
    <2>3. e.trig[o][p] \in {d.trig[o][p], NoTrigger, t}
      BY <1>3
    <2> HIDE DEF t, e
    <2> QED
      BY <2>1, <2>2, <2>3
  <1>5. /\ e.trig = [o \in Oids |-> e.trig[o]]
        /\ \A o \in Oids : e.trig[o] = [p \in Pairs |-> e.trig[o][p]]
    BY <1>2 DEF triggersAfter
  <1>6. ASSUME NEW l \in Listeners, e.reg[l] # NoRow
        PROVE  e.reg[l].oid \in Oids /\ e.reg[l].table \in Names
    <2>1. e.reg[l] = IF ~Touched(acts, l) THEN d.reg[l]
                     ELSE IF l \in DOMAIN c THEN writeRegistry(a, c, l) ELSE NoRow
      BY AppliedRows
    <2>2. CASE ~Touched(acts, l)
      BY <1>6, <2>1, <2>2 DEF DbTyped
    <2>3. CASE Touched(acts, l)
      <3>1. l \in DOMAIN c /\ e.reg[l] = writeRegistry(a, c, l)
        BY <1>6, <2>1, <2>3
      <3>2. resolveListenerTarget(d, c, l).outcome # "refused"
        BY <2>3, <3>1 DEF syncSucceeds, Touched
      <3> QED
        BY <3>1, <3>2, WrittenRow
    <2> QED
      BY <2>2, <2>3
  <1> QED
    BY <1>1, <1>4, <1>5, <1>6 DEF DbTyped

\* One trigger made, changed or dropped.
LEMMA OneTriggerTyped ==
  ASSUME DbTyped(db), NEW d, d.at = db.at, d.reg = db.reg,
         NEW o \in Oids, NEW p \in Pairs, NEW t, IsTrigger(t),
         d.trig = [db.trig EXCEPT ![o][p] = t]
  PROVE  DbTyped(d)
  <1>1. d.trig = [u \in Oids |-> d.trig[u]]
        /\ d.trig[o] = [db.trig[o] EXCEPT ![p] = t]
        /\ \A u \in Oids \ {o} : d.trig[u] = db.trig[u]
    BY DEF DbTyped
  <1>2. \A u \in Oids : d.trig[u] = [q \in Pairs |-> d.trig[u][q]]
    <2>1. db.trig[o] = [q \in Pairs |-> db.trig[o][q]]
          /\ \A u \in Oids \ {o} : d.trig[u] = [q \in Pairs |-> d.trig[u][q]]
      BY <1>1 DEF DbTyped
    <2> DEFINE f == db.trig[o]
               g == d.trig[o]
    <2>2. f = [q \in Pairs |-> f[q]] /\ g = [f EXCEPT ![p] = t]
      BY <1>1, <2>1
    <2> HIDE DEF f, g
    <2>3. g = [q \in Pairs |-> g[q]]
      BY <2>2
    <2> QED
      BY <2>1, <2>3 DEF g
  <1>3. \A u \in Oids, q \in Pairs : d.trig[u][q] \in {t, db.trig[u][q]}
    BY <1>1 DEF DbTyped
  <1>4. \A u \in Oids, q \in Pairs : IsTrigger(d.trig[u][q])
    BY <1>3 DEF DbTyped
  <1> QED
    BY <1>1, <1>2, <1>4 DEF DbTyped

\* What the administrator does keeps the database well formed.
LEMMA HandTyped ==
  ASSUME RInv, TInv, Administrator \/ EditConfig
  PROVE  \E d : Interference(d) /\ DbTyped(d)
  <1>0. IsDb(db) /\ DbTyped(db)
    BY DEF RInv, TInv
  <1>1. CASE RenameTable
    <2>1. PICK n, m \in Names : Interference([db EXCEPT !.at[n] = 0, !.at[m] = db.at[n]])
      BY <1>1 DEF RenameTable
    <2> DEFINE d == [db EXCEPT !.at[n] = 0, !.at[m] = db.at[n]]
    <2>2. d.at = [[db.at EXCEPT ![n] = 0] EXCEPT ![m] = db.at[n]]
          /\ d.trig = db.trig /\ d.reg = db.reg
      BY <1>0 DEF IsDb
    <2> HIDE DEF d
    <2>3. d.at \in [Names -> 0..MaxOid]
      BY <1>0, <2>2, OidAssumption DEF DbTyped
    <2>4. DbTyped(d)
      BY <1>0, <2>2, <2>3 DEF DbTyped
    <2> QED
      BY <2>1, <2>4 DEF d
  <1>2. CASE DropTable
    <2>1. PICK n \in Names : /\ db.at[n] # 0
                             /\ Interference([db EXCEPT !.at[n] = 0,
                                   !.trig[db.at[n]] = [p \in Pairs |-> NoTrigger]])
      BY <1>2 DEF DropTable
    <2> DEFINE d == [db EXCEPT !.at[n] = 0, !.trig[db.at[n]] = [p \in Pairs |-> NoTrigger]]
    <2>2. d.at = [db.at EXCEPT ![n] = 0] /\ d.reg = db.reg
          /\ d.trig = [db.trig EXCEPT ![db.at[n]] = [p \in Pairs |-> NoTrigger]]
      BY <1>0 DEF IsDb
    <2> HIDE DEF d
    <2>3. d.at \in [Names -> 0..MaxOid]
      BY <1>0, <2>2, OidAssumption DEF DbTyped
    <2>5. d.trig = [o \in Oids |-> d.trig[o]]
          /\ \A o \in Oids : d.trig[o] \in {[p \in Pairs |-> NoTrigger], db.trig[o]}
      BY <1>0, <2>2 DEF DbTyped
    <2>6. \A o \in Oids : d.trig[o] = [p \in Pairs |-> d.trig[o][p]]
      BY <1>0, <2>5 DEF DbTyped
    <2>7. \A o \in Oids, p \in Pairs : d.trig[o][p] \in {NoTrigger, db.trig[o][p]}
      BY <2>5
    <2>8. \A o \in Oids, p \in Pairs : IsTrigger(d.trig[o][p])
      BY <1>0, <2>7 DEF DbTyped, IsTrigger
    <2>4. DbTyped(d)
      BY <1>0, <2>2, <2>3, <2>5, <2>6, <2>8 DEF DbTyped
    <2> QED
      BY <2>1, <2>4 DEF d
  <1>3. CASE CreateTable
    <2>1. PICK n \in Names, o \in Oids : Interference([db EXCEPT !.at[n] = o])
      BY <1>3 DEF CreateTable
    <2> DEFINE d == [db EXCEPT !.at[n] = o]
    <2>2. d.at = [db.at EXCEPT ![n] = o] /\ d.trig = db.trig /\ d.reg = db.reg
      BY <1>0 DEF IsDb
    <2> HIDE DEF d
    <2>3. d.at \in [Names -> 0..MaxOid]
      BY <1>0, <2>2, OidAssumption DEF DbTyped, Oids
    <2>4. DbTyped(d)
      BY <1>0, <2>2, <2>3 DEF DbTyped
    <2> QED
      BY <2>1, <2>4 DEF d
  <1>4. CASE DropTrigger
    <2>1. PICK o \in Oids, p \in Pairs : Interference([db EXCEPT !.trig[o][p] = NoTrigger])
      BY <1>4 DEF DropTrigger
    <2> DEFINE d == [db EXCEPT !.trig[o][p] = NoTrigger]
    <2>2. d.at = db.at /\ d.reg = db.reg /\ d.trig = [db.trig EXCEPT ![o][p] = NoTrigger]
      BY <1>0 DEF IsDb
    <2>3. Interference(d) /\ IsTrigger(NoTrigger)
      BY <2>1 DEF IsTrigger
    <2> HIDE DEF d
    <2>4. DbTyped(d)
      BY <1>0, <2>2, <2>3, OneTriggerTyped
    <2> QED
      BY <2>3, <2>4
  <1>7. CASE HandTrigger
    <2> DEFINE t == [mark |-> "absent", spec |-> "hand", own |-> FALSE]
    <2>1. PICK o \in Oids, p \in Pairs : Interference([db EXCEPT !.trig[o][p] = t])
      BY <1>7 DEF HandTrigger
    <2> DEFINE d == [db EXCEPT !.trig[o][p] = t]
    <2>3. Interference(d) /\ IsTrigger(t)
      BY <2>1 DEF IsTrigger
    <2> HIDE DEF t
    <2>2. d.at = db.at /\ d.reg = db.reg /\ d.trig = [db.trig EXCEPT ![o][p] = t]
      BY <1>0 DEF IsDb
    <2> HIDE DEF d
    <2>4. DbTyped(d)
      BY <1>0, <2>2, <2>3, OneTriggerTyped
    <2> QED
      BY <2>3, <2>4
  <1>8. CASE Remark
    <2>1. PICK o \in Oids, p \in Pairs, m \in {"foreign", "other"} :
            /\ db.trig[o][p] # NoTrigger
            /\ Interference([db EXCEPT !.trig[o][p].mark = m])
      BY <1>8 DEF Remark
    <2> DEFINE t == [db.trig[o][p] EXCEPT !.mark = m]
               d == [db EXCEPT !.trig[o][p].mark = m]
               old == db.trig[o][p]
    <2>2. d.at = db.at /\ d.reg = db.reg /\ d.trig = [db.trig EXCEPT ![o][p].mark = m]
      BY <1>0 DEF IsDb
    <2>3. [db.trig EXCEPT ![o][p].mark = m] = [db.trig EXCEPT ![o][p] = t]
      <3>1. [db.trig EXCEPT ![o][p].mark = m] =
              [db.trig EXCEPT ![o] = [db.trig[o] EXCEPT ![p] = t]]
        BY <1>0 DEF DbTyped
      <3>2. [db.trig EXCEPT ![o][p] = t] =
              [db.trig EXCEPT ![o] = [db.trig[o] EXCEPT ![p] = t]]
        BY <1>0 DEF DbTyped
      <3> QED
        BY <3>1, <3>2
    <2>4. Interference(d) /\ IsTrigger(old)
      BY <1>0, <2>1 DEF DbTyped
    <2> HIDE DEF old
    <2>5. old = [mark |-> old.mark, spec |-> old.spec, own |-> old.own]
          /\ old.own \in BOOLEAN
      BY <2>1, <2>4 DEF IsTrigger, old
    <2>6. t = [mark |-> m, spec |-> old.spec, own |-> old.own]
      BY <2>5 DEF old
    <2> HIDE DEF t, d
    <2>7. IsTrigger(t)
      BY <2>5, <2>6 DEF IsTrigger
    <2>8. DbTyped(d)
      BY <1>0, <2>2, <2>3, <2>7, OneTriggerTyped
    <2> QED
      BY <2>4, <2>8
  <1>5. CASE EditFunction
    <2>1. PICK p \in Pairs : Interference([db EXCEPT !.fn[p].spec = "hand"])
      BY <1>5 DEF EditFunction
    <2> DEFINE d == [db EXCEPT !.fn[p].spec = "hand"]
    <2>2. d.at = db.at /\ d.trig = db.trig /\ d.reg = db.reg
      BY <1>0 DEF IsDb
    <2> HIDE DEF d
    <2>4. DbTyped(d)
      BY <1>0, <2>2 DEF DbTyped
    <2> QED
      BY <2>1, <2>4 DEF d
  <1>6. CASE EditConfig
    BY <1>0, <1>6 DEF EditConfig
  <1> QED
    BY <1>1, <1>2, <1>3, <1>4, <1>5, <1>6, <1>7, <1>8 DEF Administrator

\* A step of one run that leaves the database alone.
LEMMA RunTypedStep ==
  ASSUME RInv, TInv, NEW r \in Runners, NEW rec,
         run' = [run EXCEPT ![r] = rec], RunTyped(rec),
         UNCHANGED config, DbTyped(db')
  PROVE  TInv'
  BY DEF RInv, TInv

\* Every step keeps runs and database well formed.
LEMMA TInvStep == RInv /\ TInv /\ [Next]_vars => TInv'
  <1> SUFFICES ASSUME RInv, TInv, [Next]_vars PROVE TInv'
    OBVIOUS
  <1>1. CASE UNCHANGED vars
    BY <1>1 DEF vars, TInv
  <1>2. CASE SessionEnds
    BY <1>2 DEF SessionEnds, TInv
  <1>3. CASE Administrator \/ EditConfig
    <2>1. PICK d : Interference(d) /\ DbTyped(d)
      BY <1>3, HandTyped
    <2>2. config' \in Configs
      BY <1>3 DEF TInv, Administrator, RenameTable, DropTable, CreateTable, DropTrigger,
                  HandTrigger, Remark, EditFunction, EditConfig
    <2>3. ASSUME NEW s \in Runners PROVE RunTyped(run[s])'
      <3>1. run'[s] = IF run[s].pc = "planned" THEN [run[s] EXCEPT !.calm = FALSE] ELSE run[s]
        BY <2>1 DEF Interference
      <3>2. CASE run[s].pc = "planned"
        <4>1. run'[s].pc = "planned" /\ run'[s].cfg = run[s].cfg
          BY <3>1, <3>2 DEF RInv, PlanShape
        <4> QED
          BY <3>2, <4>1 DEF TInv, RunTyped
      <3> QED
        BY <3>1, <3>2 DEF TInv
    <2> QED
      BY <2>1, <2>2, <2>3 DEF TInv, Interference
  <1>4. ASSUME NEW r \in Runners, Start(r) PROVE TInv'
    <2>1. PICK a \in Approvals :
            run' = [run EXCEPT ![r] = [pc |-> "waiting", cfg |-> config,
                                       permit |-> a.permit, approved |-> a.approved]]
      BY <1>4 DEF Start
    <2> DEFINE rec == [pc |-> "waiting", cfg |-> config,
                       permit |-> a.permit, approved |-> a.approved]
    <2>2. RunTyped(rec)
      BY ConfigsAssumption DEF RunTyped, TInv
    <2> HIDE DEF rec
    <2>3. run' = [run EXCEPT ![r] = rec]
      BY <2>1 DEF rec
    <2> QED
      BY <1>4, <2>2, <2>3, RunTypedStep DEF Start, TInv
  <1>5. ASSUME NEW r \in Runners, Destroy(r) PROVE TInv'
    <2> DEFINE rec == [pc |-> "waiting", cfg |-> <<>>, permit |-> TRUE, approved |-> TRUE]
    <2>2. RunTyped(rec)
      BY EmptyConfig DEF RunTyped
    <2>3. run' = [run EXCEPT ![r] = rec]
      BY <1>5 DEF Destroy
    <2> HIDE DEF rec
    <2> QED
      BY <1>5, <2>2, <2>3, RunTypedStep DEF Destroy, TInv
  <1>6. ASSUME NEW r \in Runners, Acquire(r) PROVE TInv'
    <2> DEFINE rec == [run[r] EXCEPT !.pc = "held"]
    <2>1. run' = [run EXCEPT ![r] = rec]
      BY <1>6 DEF Acquire
    <2>2. /\ run[r] = [pc |-> run[r].pc, cfg |-> run[r].cfg, permit |-> run[r].permit,
                       approved |-> run[r].approved]
          /\ IsConfig(run[r].cfg)
      BY <1>6 DEF TInv, RunTyped, Acquire
    <2>3. rec = [pc |-> "held", cfg |-> run[r].cfg, permit |-> run[r].permit,
                 approved |-> run[r].approved]
      BY <2>2
    <2> HIDE DEF rec
    <2>4. RunTyped(rec)
      BY <2>2, <2>3 DEF RunTyped
    <2> QED
      BY <1>6, <2>1, <2>4, RunTypedStep DEF Acquire, TInv
  <1>7. ASSUME NEW r \in Runners, Plan(r) PROVE TInv'
    <2> DEFINE plan == planInTransaction(db, run[r].cfg)
               yes == [pc |-> "planned", cfg |-> run[r].cfg, permit |-> run[r].permit,
                       acts |-> plan.acts, calm |-> TRUE]
               no  == [pc |-> "releasing"]
    <2>1. \E rec \in {yes, no} : run' = [run EXCEPT ![r] = rec]
      BY <1>7 DEF Plan
    <2>2. IsConfig(run[r].cfg)
      BY <1>7 DEF TInv, RunTyped, Plan
    <2>3. yes.pc = "planned" /\ yes.cfg = run[r].cfg /\ no.pc = "releasing"
      OBVIOUS
    <2> HIDE DEF plan, yes, no
    <2>4. RunTyped(yes) /\ RunTyped(no)
      BY <2>2, <2>3 DEF RunTyped
    <2> QED
      BY <1>7, <2>1, <2>4, RunTypedStep DEF Plan, TInv
  <1>8. ASSUME NEW r \in Runners, Commit(r) PROVE TInv'
    <2>0. PICK pc \in {"releasing", "ending"} : run' = [run EXCEPT ![r] = [pc |-> pc]]
      BY <1>8 DEF Commit
    <2> DEFINE rec == [pc |-> pc]
    <2>1. run' = [run EXCEPT ![r] = rec]
      BY <2>0
    <2>2. RunTyped(rec)
      BY <2>0 DEF RunTyped
    <2> HIDE DEF rec
    <2>3. IsConfig(run[r].cfg)
      BY <1>8 DEF TInv, RunTyped, Commit
    <2>4. DbTyped(db')
      BY <1>8, <2>3, AppliedTyped DEF Commit, RInv, TInv
    <2> QED
      BY <1>8, <2>1, <2>2, <2>4, RunTypedStep DEF Commit
  <1>9. ASSUME NEW r \in Runners,
               \/ AcquireLate(r) \/ WaitExpires(r) \/ TryCutOff(r) \/ Rollback(r)
               \/ CancelMidStatement(r) \/ Release(r) \/ ReleaseFails(r) \/ ClosePool(r)
               \/ endTheSessionStillHoldingTheKey(r) \/ Crash(r)
        PROVE  TInv'
    <2>1. \E x \in {"idle", "releasing", "ending", "returning"} : run' = [run EXCEPT ![r] = [pc |-> x]]
      BY <1>9 DEF AcquireLate, WaitExpires, TryCutOff, Rollback, CancelMidStatement, Release,
                  ReleaseFails, ClosePool, endTheSessionStillHoldingTheKey, Crash, Idle
    <2>2. \A x \in {"idle", "releasing", "ending", "returning"} : RunTyped([pc |-> x])
      BY DEF RunTyped
    <2>3. db' = db /\ config' = config
      BY <1>9 DEF AcquireLate, WaitExpires, TryCutOff, Rollback, CancelMidStatement, Release,
                  ReleaseFails, ClosePool, endTheSessionStillHoldingTheKey, Crash
    <2> QED
      BY <2>1, <2>2, <2>3, RunTypedStep DEF TInv
  <1> QED
    BY <1>1, <1>2, <1>3, <1>4, <1>5, <1>6, <1>7, <1>8, <1>9 DEF Next, RunStep

----------------------------------------------------------------------------
(* What an undisturbed commit leaves behind.                               *)

\* A plan with actions: every configured table exists, no examined pair is
\* refused, and the actions are the kinds of the pairs that need one.
LEMMA PlanFacts ==
  ASSUME NEW d, NEW c, NEW acts, planInTransaction(d, c).verdict = "changes_pending",
         planInTransaction(d, c).acts = acts
  PROVE  /\ validateInTransaction(d, c)
         /\ \A p \in examined(d, c) : classifyPair(d, c, p) # "refuse"
         /\ \A p : p \in DOMAIN acts <=>
                     p \in examined(d, c) /\ classifyPair(d, c, p) \in Kinds
         /\ \A p \in DOMAIN acts : acts[p] = classifyPair(d, c, p)
  <1> DEFINE kind == [q \in examined(d, c) |-> classifyPair(d, c, q)]
             acting == {q \in examined(d, c) : kind[q] \in Kinds}
  <1>1. validateInTransaction(d, c) /\ planInTransaction(d, c) = diff(d, c)
        /\ "refuse" \notin Range(kind)
    BY DEF planInTransaction, diff
  <1>2. acts = [p \in acting |-> kind[p]]
    BY <1>1 DEF diff
  <1>3. \A p \in examined(d, c) : kind[p] = classifyPair(d, c, p)
    OBVIOUS
  <1>4. \A p \in examined(d, c) : classifyPair(d, c, p) # "refuse"
    BY <1>1, <1>3 DEF Range
  <1> HIDE DEF kind
  <1>5. \A p : p \in DOMAIN acts <=> p \in examined(d, c) /\ classifyPair(d, c, p) \in Kinds
    BY <1>2, <1>3
  <1>6. \A p \in DOMAIN acts : acts[p] = classifyPair(d, c, p)
    BY <1>2, <1>3
  <1> QED
    BY <1>1, <1>4, <1>5, <1>6

\* A pair that an enabled listener asks for and that is not refused.
LEMMA ManagedPair ==
  ASSUME NEW d, NEW c, DbTyped(d), IsConfig(c),
         NEW l \in DOMAIN c, NEW op \in DOMAIN c[l].ops, c[l].enabled,
         classifyPair(d, c, <<l, op>>) # "refuse"
  PROVE  /\ l \in Listeners /\ <<l, op>> \in Pairs /\ <<l, op>> \in examined(d, c)
         /\ resolveListenerTarget(d, c, l).outcome # "refused"
         /\ on(d, c, <<l, op>>) \in Oids
         /\ observed(d, c, <<l, op>>) = d.trig[on(d, c, <<l, op>>)][<<l, op>>]
         /\ ~observedOwnershipRefusal(d, c, <<l, op>>)
         /\ classifyPair(d, c, <<l, op>>) = classifyManagedPair(d, c, <<l, op>>)
  <1> DEFINE p == <<l, op>>
  <1>1. l \in Listeners /\ op \in Ops /\ p \in Pairs /\ p[1] = l /\ p[2] = op
    BY DEF IsConfig, Listener, Pairs
  <1>2. p \in examined(d, c)
    BY <1>1 DEF examined
  <1> HIDE DEF p
  <1>3. resolveListenerTarget(d, c, l).outcome # "refused"
        /\ ~observedOwnershipRefusal(d, c, p)
    BY <1>1 DEF classifyPair, p
  <1>4. on(d, c, p) \in Oids
    BY <1>1, <1>3, Resolves DEF on
  <1>5. observed(d, c, p) = d.trig[on(d, c, p)][p]
    BY <1>1, <1>4 DEF observed, on, Oids
  <1>6. classifyPair(d, c, p) = classifyManagedPair(d, c, p)
    BY <1>1, <1>3 DEF classifyPair
  <1> QED
    BY <1>1, <1>2, <1>3, <1>4, <1>5, <1>6 DEF p

\* What the statements leave for a pair they do not make or drop.
LEMMA KeptOn ==
  ASSUME NEW d, NEW c, NEW acts, IsDb(d), NEW o \in Oids, NEW p \in Pairs,
         p \notin made(d, c, acts), p \notin gone(d, c, acts)
  PROVE  /\ applied(d, c, acts).trig[o][p] = d.trig[o][p]
         /\ applied(d, c, acts).fn[p] = d.fn[p]
  <1>1. applied(d, c, acts).trig = triggersAfter(d, c, acts)
        /\ applied(d, c, acts).fn = functionsAfter(d, c, acts)
    BY AppliedFields
  <1>2. triggersAfter(d, c, acts)[o][p] = d.trig[o][p]
    BY DEF triggersAfter
  <1>3. functionsAfter(d, c, acts)[p] = d.fn[p]
    BY DEF functionsAfter
  <1> QED
    BY <1>1, <1>2, <1>3

\* What the statements leave for a pair they make.
LEMMA MadeOn ==
  ASSUME NEW d, NEW c, NEW acts, IsDb(d), NEW p \in Pairs, on(d, c, p) \in Oids,
         p \in made(d, c, acts)
  PROVE  /\ applied(d, c, acts).trig[on(d, c, p)][p] =
               [mark |-> "ours", spec |-> c[p[1]].ops[p[2]], own |-> TRUE]
         /\ applied(d, c, acts).fn[p].spec = c[p[1]].ops[p[2]]
         /\ applied(d, c, acts).fn[p].mark = "ours"
  <1>1. applied(d, c, acts).trig = triggersAfter(d, c, acts)
        /\ applied(d, c, acts).fn = functionsAfter(d, c, acts)
    BY AppliedFields
  <1>2. triggersAfter(d, c, acts)[on(d, c, p)][p] =
          [mark |-> "ours", spec |-> c[p[1]].ops[p[2]], own |-> TRUE]
    BY DEF triggersAfter
  <1>3. functionsAfter(d, c, acts)[p] =
          [mark |-> "ours", spec |-> c[p[1]].ops[p[2]], table |-> NameOf(d, on(d, c, p))]
    BY DEF functionsAfter
  <1> QED
    BY <1>1, <1>2, <1>3

\* A pair the plan creates or replaces is made.
LEMMA PlannedIsMade ==
  ASSUME NEW d, NEW c, NEW acts, NEW p \in DOMAIN acts, acts[p] \in {"create", "replace"}
  PROVE  p \in made(d, c, acts)
  BY DEF made, objectsForPlan

\* A pair the plan does not act on, or only renames, is left as it is.
LEMMA UnplannedIsKept ==
  ASSUME NEW d, NEW c, NEW acts, NEW p, p \in DOMAIN acts => acts[p] = "rename"
  PROVE  p \notin made(d, c, acts) /\ p \notin gone(d, c, acts)
  BY DEF made, gone, objectsForPlan

\* A listener that is new, or recorded under the table it is configured
\* with, stands for that table.
LEMMA ConfiguredTarget ==
  ASSUME NEW d, NEW c, NEW l \in DOMAIN c,
         d.at[c[l].table] # 0,
         d.reg[l] = NoRow \/ d.reg[l].table = c[l].table,
         resolveListenerTarget(d, c, l).outcome # "refused"
  PROVE  /\ resolveListenerTarget(d, c, l).oid = d.at[c[l].table]
         /\ resolveListenerTarget(d, c, l).outcome \in {"new", "healthy", "recreated"}
  <1> DEFINE rec == d.reg[l]
             t == resolveListenerTarget(d, c, l)
             found == Live(d, rec.oid)
             there == d.at[c[l].table]
  <1>1. CASE rec = NoRow
    <2>1. t = [outcome |-> "new", oid |-> there]
      BY <1>1 DEF resolveListenerTarget
    <2> QED
      BY <2>1
  <1>2. CASE rec # NoRow /\ found
    <2>1. CASE there = rec.oid
      <3>1. t = [outcome |-> "healthy", oid |-> rec.oid]
        BY <1>2, <2>1 DEF resolveListenerTarget
      <3> QED
        BY <2>1, <3>1
    <2>2. CASE there # rec.oid
      <3>1. t = [outcome |-> "refused", oid |-> 0]
        BY <1>2, <2>2 DEF resolveListenerTarget
      <3> QED
        BY <3>1
    <2> QED
      BY <2>1, <2>2
  <1>3. CASE rec # NoRow /\ ~found
    <2>1. t = [outcome |-> "recreated", oid |-> there]
      BY <1>3 DEF resolveListenerTarget
    <2> QED
      BY <2>1
  <1> QED
    BY <1>1, <1>2, <1>3

\* A pair that needs no action runs what its row records.
LEMMA UnchangedIsInstalled ==
  ASSUME NEW d, NEW c, DbTyped(d), IsConfig(c),
         NEW l \in DOMAIN c, NEW op \in DOMAIN c[l].ops, c[l].enabled,
         resolveListenerTarget(d, c, l).outcome # "renamed",
         classifyPair(d, c, <<l, op>>) \notin {"refuse", "create", "replace"},
         Truthful(d, l)
  PROVE  /\ d.trig[on(d, c, <<l, op>>)][<<l, op>>] =
               [mark |-> "ours", own |-> TRUE, spec |-> c[l].ops[op]]
         /\ d.fn[<<l, op>>].spec = c[l].ops[op]
  <1> DEFINE p == <<l, op>>
             o == on(d, c, p)
             rec == d.reg[l]
             t == d.trig[o][p]
  <1>1. p[1] = l /\ p[2] = op
    OBVIOUS
  <1>2. /\ p \in Pairs /\ o \in Oids /\ observed(d, c, p) = t
        /\ ~observedOwnershipRefusal(d, c, p)
        /\ classifyPair(d, c, p) = classifyManagedPair(d, c, p)
    BY ManagedPair
  <1> HIDE DEF p, o
  <1>3. /\ op \in recordedOps(d, l) /\ t # NoTrigger
        /\ op \notin changedTriggerOperations(rec, c[l])
        /\ fingerprint(d, o, p) = rec.hash[op]
    <2>1. classifyManagedPair(d, c, p) \notin {"create", "replace"}
      BY <1>2 DEF p
    <2> QED
      BY <1>1, <1>2, <2>1 DEF classifyManagedPair, on, o
  <1>4. t.mark = "ours" /\ t.own /\ FunctionOf(d, o, p) = d.fn[p]
    <2>1. DetermineOwnership(op \in recordedOps(d, l), t.mark)
          /\ DetermineOwnership(op \in recordedOps(d, l), FunctionOf(d, o, p).mark)
      BY <1>1, <1>2, <1>3 DEF observedOwnershipRefusal, o, on
    <2> QED
      BY <2>1 DEF DetermineOwnership, FunctionOf
  <1>5. rec.ops[op] = c[l].ops[op]
    BY <1>3 DEF changedTriggerOperations
  <1>6. rec.hash[op][1] = rec.ops[op] /\ rec.hash[op][3].spec = rec.ops[op]
    BY <1>3 DEF Truthful
  <1>7. t.spec = c[l].ops[op] /\ d.fn[p].spec = c[l].ops[op]
    <2>1. rec.hash[op] = <<t.spec, NameOf(d, o), d.fn[p]>>
      BY <1>3, <1>4 DEF fingerprint
    <2> QED
      BY <1>5, <1>6, <2>1
  <1>8. t = [mark |-> t.mark, spec |-> t.spec, own |-> t.own] /\ t.own \in BOOLEAN
    BY <1>2, <1>3 DEF DbTyped, IsTrigger
  <1> HIDE DEF t
  <1>9. t = [mark |-> "ours", own |-> TRUE, spec |-> c[l].ops[op]]
    BY <1>4, <1>7, <1>8
  <1> QED
    BY <1>7, <1>9 DEF t, p, o

\* An undisturbed apply installs what is configured for a listener that is
\* new, or recorded under the table it is configured with by a row that is
\* true (classify.go, spechash.go, objectapply.go).
THEOREM ApplyInstalls == Spec => AppliedIsInstalled
  <1>1. ASSUME RInv, TInv, NEW r \in Runners, Commit(r), run[r].calm,
               NEW l \in DOMAIN run[r].cfg, run[r].cfg[l].enabled,
               \/ db.reg[l] = NoRow
               \/ db.reg[l].table = run[r].cfg[l].table /\ Truthful(db, l),
               NEW op \in DOMAIN run[r].cfg[l].ops
        PROVE  /\ db'.trig[db.at[run[r].cfg[l].table]][<<l, op>>] =
                     [mark |-> "ours", own |-> TRUE, spec |-> run[r].cfg[l].ops[op]]
               /\ db'.fn[<<l, op>>].spec = run[r].cfg[l].ops[op]
    <2> DEFINE c == run[r].cfg
               acts == run[r].acts
               p == <<l, op>>
               o == on(db, c, p)
    <2>1. planInTransaction(db, c).verdict = "changes_pending"
          /\ planInTransaction(db, c).acts = acts
      BY <1>1 DEF RInv, PlanCurrent, Commit
    <2>2. IsDb(db) /\ DbTyped(db) /\ IsConfig(c) /\ db' = applied(db, c, acts)
      BY <1>1 DEF RInv, TInv, RunTyped, Commit
    <2> HIDE DEF c, acts
    <2>0. l \in DOMAIN c /\ c[l].enabled /\ op \in DOMAIN c[l].ops
          /\ p[1] = l /\ p[2] = op
      BY <1>1 DEF c
    <2>3. p \in examined(db, c)
      <3>1. p \in Pairs
        BY <2>0, <2>2 DEF IsConfig, Listener, Pairs
      <3> HIDE DEF p
      <3> QED
        BY <2>0, <3>1 DEF examined
    <2>4. /\ validateInTransaction(db, c) /\ classifyPair(db, c, p) # "refuse"
          /\ p \in DOMAIN acts <=> classifyPair(db, c, p) \in Kinds
          /\ p \in DOMAIN acts => acts[p] = classifyPair(db, c, p)
      BY <2>1, <2>3, PlanFacts
    <2>5. /\ p \in Pairs /\ o \in Oids
          /\ resolveListenerTarget(db, c, l).outcome # "refused"
          /\ classifyPair(db, c, p) = classifyManagedPair(db, c, p)
      <3>1. classifyPair(db, c, <<l, op>>) # "refuse"
        BY <2>4
      <3>2. /\ <<l, op>> \in Pairs /\ on(db, c, <<l, op>>) \in Oids
            /\ resolveListenerTarget(db, c, l).outcome # "refused"
            /\ classifyPair(db, c, <<l, op>>) = classifyManagedPair(db, c, <<l, op>>)
        BY <2>0, <2>2, <3>1, ManagedPair, SMTT(60)
      <3> QED
        BY <3>2
    <2>6. o = db.at[c[l].table] /\ resolveListenerTarget(db, c, l).outcome # "renamed"
      BY <1>1, <2>0, <2>4, <2>5, ConfiguredTarget DEF on, validateInTransaction, c
    <2> HIDE DEF p, o
    <2>7. CASE classifyPair(db, c, p) \in {"create", "replace"}
      <3>1. p \in made(db, c, acts)
        BY <2>4, <2>7, PlannedIsMade DEF Kinds
      <3>2. /\ db'.trig[o][p] = [mark |-> "ours", spec |-> c[l].ops[op], own |-> TRUE]
            /\ db'.fn[p].spec = c[l].ops[op]
        BY <2>0, <2>2, <2>5, <3>1, MadeOn DEF o
      <3> QED
        BY <2>6, <3>2 DEF c, p
    <2>8. CASE classifyPair(db, c, p) \notin {"create", "replace"}
      <3>1. classifyPair(db, c, p) \in {"create", "replace", "rename", "none"}
        BY <2>5 DEF classifyManagedPair
      <3>2. p \in DOMAIN acts => acts[p] = "rename"
        BY <2>4, <2>8, <3>1 DEF Kinds
      <3>6. p \notin made(db, c, acts) /\ p \notin gone(db, c, acts)
        BY <3>2, UnplannedIsKept
      <3>3. db'.trig[o][p] = db.trig[o][p] /\ db'.fn[p] = db.fn[p]
        <4>1. IsDb(db) /\ o \in Oids /\ p \in Pairs
          BY <2>2, <2>5
        <4>2. applied(db, c, acts).trig[o][p] = db.trig[o][p]
              /\ applied(db, c, acts).fn[p] = db.fn[p]
          BY <3>6, <4>1, KeptOn
        <4> QED
          BY <2>2, <4>2
      <3>4. Truthful(db, l)
        <4>1. CASE db.reg[l] = NoRow
          BY <4>1 DEF Truthful, recordedOps
        <4> QED
          BY <1>1, <4>1
      <3>5. db.trig[o][p] = [mark |-> "ours", own |-> TRUE, spec |-> c[l].ops[op]]
            /\ db.fn[p].spec = c[l].ops[op]
        BY <2>0, <2>2, <2>4, <2>6, <2>8, <3>4, UnchangedIsInstalled DEF p, o
      <3> QED
        BY <2>6, <3>3, <3>5 DEF c, p
    <2> QED
      BY <2>7, <2>8
  <1>2. RInv /\ TInv /\ [Next]_vars =>
          [\A r \in Runners : (Commit(r) /\ run[r].calm) =>
             LET c == run[r].cfg
             IN  \A l \in DOMAIN c :
                   (/\ c[l].enabled
                    /\ \/ db.reg[l] = NoRow
                       \/ db.reg[l].table = c[l].table /\ Truthful(db, l)) =>
                   \A op \in DOMAIN c[l].ops :
                       /\ db'.trig[db.at[c[l].table]][<<l, op>>] =
                             [mark |-> "ours", own |-> TRUE, spec |-> c[l].ops[op]]
                       /\ db'.fn[<<l, op>>].spec = c[l].ops[op]]_vars
    BY <1>1
  <1> QED
    BY <1>2, RInvInit, RInvStep, TInvInit, TInvStep, PTL DEF Spec, AppliedIsInstalled

\* A refused listener stands for no table.
LEMMA RefusedIsNowhere ==
  ASSUME NEW d, NEW c, NEW l, resolveListenerTarget(d, c, l).outcome = "refused"
  PROVE  resolveListenerTarget(d, c, l).oid = 0
  BY DEF resolveListenerTarget

\* What is examined belongs to a configured or a recorded listener.
LEMMA ExaminedPair ==
  ASSUME NEW d, NEW c, IsConfig(c), NEW p \in examined(d, c)
  PROVE  /\ p[1] \in Listeners /\ (p[1] \in DOMAIN c \/ d.reg[p[1]] # NoRow)
         /\ p[2] \in Ops => p \in Pairs
         /\ p \in Pairs => p = <<p[1], p[2]>> /\ p[2] \in Ops
         /\ \/ p[1] \in DOMAIN c /\ p[2] \in DOMAIN c[p[1]].ops
            \/ p[2] \in recordedOps(d, p[1])
            \/ p[2] = "" /\ recordedOps(d, p[1]) = {}
  <1>0. p \in Pairs => p = <<p[1], p[2]>> /\ p[1] \in Listeners /\ p[2] \in Ops
    BY DEF Pairs
  <1>1. CASE p \in Pairs /\ p[1] \in DOMAIN c /\ p[2] \in DOMAIN c[p[1]].ops
    BY <1>0, <1>1
  <1>2. CASE p \in Pairs /\ p[2] \in recordedOps(d, p[1])
    BY <1>0, <1>2 DEF recordedOps
  <1>3. CASE \E l \in Listeners : d.reg[l] # NoRow /\ recordedOps(d, l) = {} /\ p = <<l, "">>
    <2>1. PICK l \in Listeners : d.reg[l] # NoRow /\ recordedOps(d, l) = {} /\ p = <<l, "">>
      BY <1>3
    <2>2. p[1] = l /\ p[2] = ""
      BY <2>1
    <2> QED
      BY <1>0, <2>1, <2>2, OpsAssumption
  <1> QED
    BY <1>1, <1>2, <1>3 DEF examined

\* The plan of a pair depends on the names, the listener's row, and the
\* pair's trigger and function.
LEMMA SamePlan ==
  ASSUME NEW d, NEW e, NEW c, IsConfig(c), DbTyped(d), NEW p \in examined(d, c),
         e.at = d.at, e.reg[p[1]] = d.reg[p[1]],
         p \in Pairs => /\ e.fn[p] = d.fn[p]
                        /\ \A o \in Oids : e.trig[o][p] = d.trig[o][p]
  PROVE  classifyPair(e, c, p) = classifyPair(d, c, p)
  <1> DEFINE l == p[1]
             t == resolveListenerTarget(d, c, l)
  <1>1. resolveListenerTarget(e, c, l) = t
    BY SameTarget
  <1>2. recordedOps(e, l) = recordedOps(d, l)
    BY DEF recordedOps
  <1>3. t.oid = 0 \/ t.oid \in Oids
    <2>1. l \in Listeners /\ (l \in DOMAIN c \/ d.reg[l] # NoRow)
      BY ExaminedPair
    <2> HIDE DEF l
    <2>2. CASE t.outcome = "refused"
      BY <2>2, RefusedIsNowhere
    <2>3. CASE t.outcome # "refused"
      BY <2>1, <2>3, Resolves
    <2> QED
      BY <2>2, <2>3
  <1>4. NameOf(e, t.oid) = NameOf(d, t.oid)
    BY SameName
  <1> HIDE DEF t, l
  <1>5. observed(e, c, p) = observed(d, c, p)
    BY <1>1, <1>3, ExaminedPair DEF observed, t, l
  <1>6. observed(d, c, p) # NoTrigger =>
          /\ e.trig[t.oid][p] = d.trig[t.oid][p]
          /\ FunctionOf(e, t.oid, p) = FunctionOf(d, t.oid, p)
          /\ fingerprint(e, t.oid, p) = fingerprint(d, t.oid, p)
    <2> SUFFICES ASSUME observed(d, c, p) # NoTrigger
                 PROVE  /\ e.trig[t.oid][p] = d.trig[t.oid][p]
                        /\ FunctionOf(e, t.oid, p) = FunctionOf(d, t.oid, p)
                        /\ fingerprint(e, t.oid, p) = fingerprint(d, t.oid, p)
      OBVIOUS
    <2>1. t.oid \in Oids /\ p \in Pairs
      BY <1>3, ExaminedPair DEF observed, t, l
    <2>2. e.trig[t.oid][p] = d.trig[t.oid][p] /\ e.fn[p] = d.fn[p]
      BY <2>1
    <2>3. FunctionOf(e, t.oid, p) = FunctionOf(d, t.oid, p)
      BY <2>2 DEF FunctionOf
    <2>4. fingerprint(e, t.oid, p) = fingerprint(d, t.oid, p)
      BY <1>4, <2>2, <2>3 DEF fingerprint
    <2> QED
      BY <2>2, <2>3, <2>4
  <1>7. observedOwnershipRefusal(e, c, p) <=> observedOwnershipRefusal(d, c, p)
    BY <1>1, <1>2, <1>5, <1>6 DEF observedOwnershipRefusal, t, l
  <1>8. classifyManagedPair(e, c, p) = classifyManagedPair(d, c, p)
    BY <1>1, <1>2, <1>5, <1>6 DEF classifyManagedPair, t, l
  <1> QED
    BY <1>1, <1>2, <1>5, <1>7, <1>8 DEF classifyPair, t, l

\* After an undisturbed commit the row of a configured listener that was
\* acted on stands for the table it was applied to.
LEMMA AppliedTarget ==
  ASSUME NEW d, NEW c, NEW acts, IsDb(d), DbTyped(d), IsConfig(c), syncSucceeds(d, c, acts),
         NEW l \in DOMAIN c, Touched(acts, l),
         resolveListenerTarget(applied(d, c, acts), c, l).outcome # "refused"
  PROVE  /\ applied(d, c, acts).reg[l] = writeRegistry(applyObjects(d, c, acts), c, l)
         /\ resolveListenerTarget(d, c, l).outcome # "refused"
         /\ resolveListenerTarget(d, c, l).oid \in Oids
         /\ resolveListenerTarget(applied(d, c, acts), c, l) =
               [outcome |-> "healthy", oid |-> resolveListenerTarget(d, c, l).oid]
  <1> DEFINE e == applied(d, c, acts)
             rec == e.reg[l]
             o == resolveListenerTarget(d, c, l).oid
             t == resolveListenerTarget(e, c, l)
  <1>1. l \in Listeners
    BY DEF IsConfig
  <1>2. rec = writeRegistry(applyObjects(d, c, acts), c, l)
    BY <1>1, AppliedRows
  <1>3. resolveListenerTarget(d, c, l).outcome # "refused"
    BY DEF syncSucceeds, Touched
  <1>4. rec # NoRow /\ rec.oid = o /\ o \in Oids /\ rec.table \in Names /\ d.at[rec.table] = o
    BY <1>2, <1>3, WrittenRow
  <1>5. e.at = d.at
    BY AppliedFields
  <1> HIDE DEF e, o
  <1>6. Live(e, rec.oid) /\ e.at[rec.table] = rec.oid
    BY <1>4, <1>5 DEF Live
  <1>7. CASE e.at[c[l].table] \in {0, rec.oid}
    <2>1. t = [outcome |-> "healthy", oid |-> rec.oid]
      BY <1>4, <1>6, <1>7 DEF resolveListenerTarget
    <2> QED
      BY <1>2, <1>3, <1>4, <2>1 DEF e, o
  <1>8. CASE e.at[c[l].table] \notin {0, rec.oid}
    <2>1. t = [outcome |-> "refused", oid |-> 0]
      BY <1>4, <1>6, <1>8 DEF resolveListenerTarget
    <2> QED
      BY <2>1 DEF e
  <1> QED
    BY <1>7, <1>8

\* After an undisturbed commit every trigger of an enabled listener is on its
\* table: the plan made it, or found it there.
LEMMA TriggersThere ==
  ASSUME NEW d, NEW c, NEW acts, IsDb(d), DbTyped(d), IsConfig(c),
         planInTransaction(d, c).verdict = "changes_pending",
         planInTransaction(d, c).acts = acts,
         NEW l \in DOMAIN c, c[l].enabled, NEW op \in DOMAIN c[l].ops
  PROVE  applied(d, c, acts).trig[resolveListenerTarget(d, c, l).oid][<<l, op>>] # NoTrigger
  <1> DEFINE p == <<l, op>>
             o == on(d, c, p)
  <1>0. p[1] = l /\ p[2] = op
    OBVIOUS
  <1>1. p \in examined(d, c)
    <2>1. p \in Pairs
      BY DEF IsConfig, Listener, Pairs
    <2> HIDE DEF p
    <2> QED
      BY <1>0, <2>1 DEF examined
  <1>2. /\ classifyPair(d, c, p) # "refuse"
        /\ p \in DOMAIN acts <=> classifyPair(d, c, p) \in Kinds
        /\ p \in DOMAIN acts => acts[p] = classifyPair(d, c, p)
    BY <1>1, PlanFacts
  <1>3. /\ p \in Pairs /\ o \in Oids /\ observed(d, c, p) = d.trig[o][p]
        /\ classifyPair(d, c, p) = classifyManagedPair(d, c, p)
    BY <1>2, ManagedPair
  <1> HIDE DEF p
  <1>4. o = resolveListenerTarget(d, c, l).oid
    BY <1>0 DEF on
  <1> HIDE DEF o
  <1>5. CASE classifyPair(d, c, p) \in {"create", "replace"}
    <2>1. p \in made(d, c, acts)
      BY <1>2, <1>5, PlannedIsMade DEF Kinds
    <2>2. applied(d, c, acts).trig[o][p] =
            [mark |-> "ours", spec |-> c[p[1]].ops[p[2]], own |-> TRUE]
      BY <1>3, <2>1, MadeOn DEF o
    <2>3. [mark |-> "ours", spec |-> c[p[1]].ops[p[2]], own |-> TRUE] # NoTrigger
      BY DEF NoTrigger
    <2> QED
      BY <1>4, <2>2, <2>3 DEF p
  <1>6. CASE classifyPair(d, c, p) \notin {"create", "replace"}
    <2>1. classifyPair(d, c, p) \in {"rename", "none"} /\ d.trig[o][p] # NoTrigger
      BY <1>3, <1>6 DEF classifyManagedPair
    <2>2. p \in DOMAIN acts => acts[p] = "rename"
      BY <1>2, <2>1 DEF Kinds
    <2>3. p \notin made(d, c, acts) /\ p \notin gone(d, c, acts)
      BY <2>2, UnplannedIsKept
    <2>4. applied(d, c, acts).trig[o][p] = d.trig[o][p]
      BY <1>3, <2>3, KeptOn
    <2> QED
      BY <1>4, <2>1, <2>4 DEF p
  <1> QED
    BY <1>5, <1>6

\* After an undisturbed commit a pair of a configured listener that was acted
\* on is refused, or needs nothing more.
LEMMA TouchedIsSettled ==
  ASSUME NEW d, NEW c, NEW acts, IsDb(d), DbTyped(d), IsConfig(c), syncSucceeds(d, c, acts),
         planInTransaction(d, c).verdict = "changes_pending",
         planInTransaction(d, c).acts = acts,
         NEW p \in examined(applied(d, c, acts), c),
         p[1] \in DOMAIN c, Touched(acts, p[1]),
         classifyPair(applied(d, c, acts), c, p) # "refuse"
  PROVE  classifyPair(applied(d, c, acts), c, p) = "none"
  <1> DEFINE e == applied(d, c, acts)
             a == applyObjects(d, c, acts)
             l == p[1]
             op == p[2]
             o == resolveListenerTarget(d, c, l).oid
             rec == e.reg[l]
  <1>1. /\ resolveListenerTarget(e, c, l).outcome # "refused"
        /\ ~observedOwnershipRefusal(e, c, p)
    BY DEF classifyPair
  <1>2. /\ rec = writeRegistry(a, c, l) /\ o \in Oids
        /\ resolveListenerTarget(d, c, l).outcome # "refused"
        /\ resolveListenerTarget(e, c, l) = [outcome |-> "healthy", oid |-> o]
    BY <1>1, AppliedTarget
  <1>3. /\ rec # NoRow /\ rec.cname = c[l].table /\ rec.ops = c[l].ops
        /\ rec.hash = registryTriggers(a, c[l], o, l)
    BY <1>2, WrittenRow
  <1>4. /\ l \in Listeners /\ (op \in Ops => p \in Pairs)
        /\ p \in Pairs => p = <<l, op>> /\ op \in Ops
        /\ \/ op \in DOMAIN c[l].ops
           \/ op \in recordedOps(e, l)
           \/ op = "" /\ recordedOps(e, l) = {}
    BY ExaminedPair
  <1>5. DOMAIN c[l].ops \subseteq Ops
    BY DEF IsConfig, Listener
  <1>6. /\ a.trig = e.trig /\ a.fn = e.fn /\ a.at = e.at
    BY AppliedFields
  <1> HIDE DEF e, a, l, op, o
  <1>7. recordedOps(e, l) = DOMAIN rec.hash
    BY <1>3 DEF recordedOps
  <1>8. observed(e, c, p) = IF op \in Ops THEN e.trig[o][p] ELSE NoTrigger
    BY <1>2 DEF observed, Oids, l, op
  <1>9. op \notin recordedOps(e, l) => observed(e, c, p) = NoTrigger
    BY <1>1 DEF observedOwnershipRefusal, DetermineOwnership, l, op
  <1>10. CASE op \notin DOMAIN c[l].ops
    <2>1. DOMAIN rec.hash \subseteq DOMAIN c[l].ops
      BY <1>3 DEF registryTriggers
    <2>2. op \notin recordedOps(e, l)
      BY <1>7, <1>10, <2>1
    <2> QED
      BY <1>1, <1>9, <1>10, <2>2 DEF classifyPair, l, op, e
  <1>11. CASE op \in DOMAIN c[l].ops /\ ~c[l].enabled
    <2>1. DOMAIN rec.hash = {}
      BY <1>3, <1>11 DEF registryTriggers
    <2>2. op \notin recordedOps(e, l)
      BY <1>7, <2>1
    <2> QED
      BY <1>1, <1>9, <1>11, <2>2 DEF classifyPair, l, op, e
  <1>12. CASE op \in DOMAIN c[l].ops /\ c[l].enabled
    <2>1. \A x \in DOMAIN c[l].ops : e.trig[o][<<l, x>>] # NoTrigger
      BY <1>12, TriggersThere DEF e, o, l
    <2>2. rec.hash = [x \in DOMAIN c[l].ops |-> fingerprint(a, o, <<l, x>>)]
      BY <1>3, <1>6, <1>12, <2>1 DEF registryTriggers
    <2>3. op \in recordedOps(e, l) /\ rec.hash[op] = fingerprint(a, o, p) /\ p \in Pairs
      BY <1>4, <1>5, <1>7, <1>12, <2>2
    <2>4. fingerprint(a, o, p) = fingerprint(e, o, p)
      <3>1. NameOf(a, o) = NameOf(e, o)
        BY <1>6, SameName
      <3> QED
        BY <1>6, <3>1 DEF fingerprint, FunctionOf
    <2>5. observed(e, c, p) # NoTrigger
      BY <1>4, <1>5, <1>8, <1>12, <2>1, <2>3
    <2>6. op \notin changedTriggerOperations(rec, c[l])
      BY <1>3 DEF changedTriggerOperations
    <2>7. classifyManagedPair(e, c, p) = "none"
      BY <1>2, <2>3, <2>4, <2>5, <2>6 DEF classifyManagedPair, l, op
    <2> QED
      BY <1>1, <1>12, <2>7 DEF classifyPair, l, op, e
  <1> QED
    BY <1>10, <1>11, <1>12

\* After an undisturbed commit a pair of a listener that was not acted on is
\* classified as before.
LEMMA UntouchedIsSame ==
  ASSUME NEW d, NEW c, NEW acts, IsDb(d), DbTyped(d), IsConfig(c),
         NEW p \in examined(applied(d, c, acts), c), ~Touched(acts, p[1])
  PROVE  /\ p \in examined(d, c) /\ p \notin DOMAIN acts
         /\ classifyPair(applied(d, c, acts), c, p) = classifyPair(d, c, p)
  <1> DEFINE e == applied(d, c, acts)
             l == p[1]
  <1>0. l \in Listeners
    BY ExaminedPair
  <1>1. e.reg[l] = d.reg[l] /\ e.at = d.at
    BY <1>0, AppliedRows, AppliedFields
  <1>2. p \notin DOMAIN acts
    BY DEF Touched
  <1>3. p \notin made(d, c, acts) /\ p \notin gone(d, c, acts)
    BY <1>2, UnplannedIsKept
  <1>4. p \in Pairs => /\ e.fn[p] = d.fn[p]
                       /\ \A o \in Oids : e.trig[o][p] = d.trig[o][p]
    <2> SUFFICES ASSUME p \in Pairs
                 PROVE  e.fn[p] = d.fn[p] /\ \A o \in Oids : e.trig[o][p] = d.trig[o][p]
      OBVIOUS
    <2>1. \A o \in Oids : e.trig[o][p] = d.trig[o][p]
      BY <1>3, KeptOn
    <2>2. e.fn[p] = d.fn[p]
      <3>1. 1 \in Oids
        BY OidAssumption DEF Oids
      <3> QED
        BY <1>3, <3>1, KeptOn
    <2> QED
      BY <2>1, <2>2
  <1>5. p \in examined(d, c)
    <2> HIDE DEF e
    <2>1. recordedOps(e, l) = recordedOps(d, l)
      BY <1>1 DEF recordedOps
    <2>2. CASE p \in Pairs /\ l \in DOMAIN c /\ p[2] \in DOMAIN c[l].ops
      BY <2>2 DEF examined
    <2>3. CASE p \in Pairs /\ p[2] \in recordedOps(e, l)
      BY <2>1, <2>3 DEF examined
    <2>4. CASE \E m \in Listeners : e.reg[m] # NoRow /\ recordedOps(e, m) = {} /\ p = <<m, "">>
      <3>1. PICK m \in Listeners : e.reg[m] # NoRow /\ recordedOps(e, m) = {} /\ p = <<m, "">>
        BY <2>4
      <3>2. l = m
        BY <3>1
      <3>3. d.reg[m] # NoRow /\ recordedOps(d, m) = {}
        BY <1>1, <2>1, <3>1, <3>2
      <3> QED
        BY <3>1, <3>3 DEF examined
    <2> QED
      BY <2>2, <2>3, <2>4 DEF examined, e
  <1>6. classifyPair(e, c, p) = classifyPair(d, c, p)
    <2> HIDE DEF e
    <2> QED
      BY <1>1, <1>4, <1>5, SamePlan
  <1> QED
    BY <1>2, <1>5, <1>6

\* After an undisturbed commit every pair is refused, or needs nothing more.
LEMMA AppliedIsSettled ==
  ASSUME NEW d, NEW c, NEW acts, IsDb(d), DbTyped(d), IsConfig(c), syncSucceeds(d, c, acts),
         planInTransaction(d, c).verdict = "changes_pending",
         planInTransaction(d, c).acts = acts,
         NEW p \in examined(applied(d, c, acts), c)
  PROVE  classifyPair(applied(d, c, acts), c, p) \notin Kinds
  <1> DEFINE e == applied(d, c, acts)
             l == p[1]
  <1>1. /\ l \in Listeners /\ (l \in DOMAIN c \/ e.reg[l] # NoRow)
    BY ExaminedPair
  <1>2. CASE ~Touched(acts, l)
    <2>1. /\ p \in examined(d, c) /\ p \notin DOMAIN acts
          /\ classifyPair(e, c, p) = classifyPair(d, c, p)
      BY <1>2, UntouchedIsSame
    <2>2. classifyPair(d, c, p) \notin Kinds
      BY <2>1, PlanFacts
    <2> QED
      BY <2>1, <2>2
  <1>3. CASE Touched(acts, l) /\ l \notin DOMAIN c
    <2>1. e.reg[l] = NoRow
      BY <1>1, <1>3, AppliedRows
    <2> QED
      BY <1>1, <1>3, <2>1
  <1>4. CASE Touched(acts, l) /\ l \in DOMAIN c
    <2>1. classifyPair(e, c, p) \in {"refuse", "none"}
      BY <1>4, TouchedIsSettled
    <2> QED
      BY <2>1 DEF Kinds
  <1> QED
    BY <1>2, <1>3, <1>4

\* A listener that has not strayed stands for its configured table.
LEMMA TargetIsConfigured ==
  ASSUME NEW d, NEW c, NEW l \in DOMAIN c, d.at[c[l].table] # 0, ~Strayed(d, c, l),
         resolveListenerTarget(d, c, l).outcome # "refused"
  PROVE  resolveListenerTarget(d, c, l).oid = d.at[c[l].table]
  <1> DEFINE rec == d.reg[l]
             t == resolveListenerTarget(d, c, l)
             there == d.at[c[l].table]
  <1>1. CASE rec = NoRow
    <2>1. t = [outcome |-> "new", oid |-> there]
      BY <1>1 DEF resolveListenerTarget
    <2> QED
      BY <2>1
  <1>2. CASE rec # NoRow /\ Live(d, rec.oid)
    <2>1. CASE there = rec.oid
      <3>1. t.oid = rec.oid
        BY <1>2, <2>1 DEF resolveListenerTarget
      <3> QED
        BY <2>1, <3>1
    <2>2. CASE there # rec.oid
      <3>1. t = [outcome |-> "refused", oid |-> 0]
        BY <1>2, <2>2 DEF resolveListenerTarget
      <3> QED
        BY <3>1
    <2> QED
      BY <2>1, <2>2
  <1>3. CASE rec # NoRow /\ ~Live(d, rec.oid)
    <2>1. CASE d.at[rec.table] = 0
      <3>1. t = [outcome |-> "refused", oid |-> 0]
        BY <1>3, <2>1 DEF resolveListenerTarget
      <3> QED
        BY <3>1
    <2>2. CASE d.at[rec.table] # 0
      <3>1. t = [outcome |-> "recreated", oid |-> d.at[rec.table]]
        BY <1>3, <2>2 DEF resolveListenerTarget
      <3>2. there = d.at[rec.table]
        BY <3>1 DEF Strayed
      <3> QED
        BY <3>1, <3>2
    <2> QED
      BY <2>1, <2>2
  <1> QED
    BY <1>1, <1>2, <1>3

\* After an undisturbed commit a configured listener that was acted on and
\* has not strayed is not refused.
LEMMA TargetStays ==
  ASSUME NEW d, NEW c, NEW acts, IsDb(d), DbTyped(d), IsConfig(c), syncSucceeds(d, c, acts),
         NEW l \in DOMAIN c, Touched(acts, l), d.at[c[l].table] # 0, ~Strayed(d, c, l)
  PROVE  resolveListenerTarget(applied(d, c, acts), c, l).outcome # "refused"
  <1> DEFINE e == applied(d, c, acts)
             rec == e.reg[l]
             o == resolveListenerTarget(d, c, l).oid
             t == resolveListenerTarget(e, c, l)
  <1>1. l \in Listeners
    BY DEF IsConfig
  <1>2. rec = writeRegistry(applyObjects(d, c, acts), c, l)
    BY <1>1, AppliedRows
  <1>3. resolveListenerTarget(d, c, l).outcome # "refused"
    BY DEF syncSucceeds, Touched
  <1>4. rec # NoRow /\ rec.oid = o /\ o \in Oids /\ rec.table \in Names /\ d.at[rec.table] = o
    BY <1>2, <1>3, WrittenRow
  <1>5. e.at = d.at
    BY AppliedFields
  <1>6. o = d.at[c[l].table]
    BY <1>3, TargetIsConfigured
  <1> HIDE DEF e, o
  <1>7. Live(e, rec.oid) /\ e.at[rec.table] = rec.oid /\ e.at[c[l].table] = rec.oid
    BY <1>4, <1>5, <1>6 DEF Live
  <1>8. t = [outcome |-> "healthy", oid |-> rec.oid]
    BY <1>4, <1>7 DEF resolveListenerTarget
  <1> QED
    BY <1>8 DEF e

\* A trigger that an undisturbed commit leaves on the table of a configured
\* listener is proved ours by its marker and its function's.
LEMMA LeftIsOurs ==
  ASSUME NEW d, NEW c, NEW acts, IsDb(d), DbTyped(d), IsConfig(c),
         planInTransaction(d, c).verdict = "changes_pending",
         planInTransaction(d, c).acts = acts,
         NEW l \in DOMAIN c, NEW op \in DOMAIN c[l].ops, c[l].enabled
  PROVE  /\ applied(d, c, acts).trig[on(d, c, <<l, op>>)][<<l, op>>].mark = "ours"
         /\ FunctionOf(applied(d, c, acts), on(d, c, <<l, op>>), <<l, op>>).mark = "ours"
  <1> DEFINE p == <<l, op>>
             o == on(d, c, p)
             e == applied(d, c, acts)
  <1>0. p[1] = l /\ p[2] = op
    OBVIOUS
  <1>1. p \in examined(d, c)
    <2>1. p \in Pairs
      BY DEF IsConfig, Listener, Pairs
    <2> HIDE DEF p
    <2> QED
      BY <1>0, <2>1 DEF examined
  <1>2. /\ classifyPair(d, c, p) # "refuse"
        /\ p \in DOMAIN acts <=> classifyPair(d, c, p) \in Kinds
        /\ p \in DOMAIN acts => acts[p] = classifyPair(d, c, p)
    BY <1>1, PlanFacts
  <1>3. /\ p \in Pairs /\ o \in Oids /\ observed(d, c, p) = d.trig[o][p]
        /\ ~observedOwnershipRefusal(d, c, p)
        /\ classifyPair(d, c, p) = classifyManagedPair(d, c, p)
    BY <1>2, ManagedPair
  <1> HIDE DEF p
  <1>4. o = resolveListenerTarget(d, c, l).oid
    BY <1>0 DEF on
  <1> HIDE DEF o
  <1>5. CASE classifyPair(d, c, p) \in {"create", "replace"}
    <2>1. p \in made(d, c, acts)
      BY <1>2, <1>5, PlannedIsMade DEF Kinds
    <2>2. /\ e.trig[o][p] = [mark |-> "ours", spec |-> c[p[1]].ops[p[2]], own |-> TRUE]
          /\ e.fn[p].mark = "ours"
      BY <1>3, <2>1, MadeOn DEF o
    <2> HIDE DEF e
    <2>3. e.trig[o][p].mark = "ours" /\ e.trig[o][p].own
      BY <2>2
    <2>4. FunctionOf(e, o, p).mark = "ours"
      BY <2>2, <2>3 DEF FunctionOf
    <2> QED
      BY <2>3, <2>4 DEF e, o, p
  <1>6. CASE classifyPair(d, c, p) \notin {"create", "replace"}
    <2>1. classifyPair(d, c, p) \in {"rename", "none"} /\ d.trig[o][p] # NoTrigger
      BY <1>3, <1>6 DEF classifyManagedPair
    <2>2. p \in DOMAIN acts => acts[p] = "rename"
      BY <1>2, <2>1 DEF Kinds
    <2>3. p \notin made(d, c, acts) /\ p \notin gone(d, c, acts)
      BY <2>2, UnplannedIsKept
    <2>4. e.trig[o][p] = d.trig[o][p] /\ e.fn[p] = d.fn[p]
      BY <1>3, <2>3, KeptOn
    <2> HIDE DEF e
    <2>5. DetermineOwnership(op \in recordedOps(d, l), d.trig[o][p].mark)
          /\ DetermineOwnership(op \in recordedOps(d, l), FunctionOf(d, o, p).mark)
      BY <1>0, <1>3, <1>4, <2>1 DEF observedOwnershipRefusal
    <2>6. d.trig[o][p].mark = "ours" /\ FunctionOf(d, o, p).mark = "ours"
      BY <2>5 DEF DetermineOwnership
    <2>7. FunctionOf(e, o, p) = FunctionOf(d, o, p)
      BY <2>4 DEF FunctionOf
    <2> QED
      BY <2>4, <2>6, <2>7 DEF e, o, p
  <1> QED
    BY <1>5, <1>6

\* A disabled listener keeps no trigger of its operations.
LEMMA DisabledIsBare ==
  ASSUME NEW d, NEW c, NEW acts, IsDb(d), DbTyped(d), IsConfig(c),
         planInTransaction(d, c).verdict = "changes_pending",
         planInTransaction(d, c).acts = acts,
         NEW l \in DOMAIN c, NEW op \in DOMAIN c[l].ops, ~c[l].enabled
  PROVE  applied(d, c, acts).trig[on(d, c, <<l, op>>)][<<l, op>>] = NoTrigger
  <1> DEFINE p == <<l, op>>
             o == on(d, c, p)
  <1>0. p[1] = l /\ p[2] = op /\ l \in Listeners /\ op \in Ops /\ p \in Pairs
    BY DEF IsConfig, Listener, Pairs
  <1> HIDE DEF p
  <1>1. p \in examined(d, c)
    BY <1>0 DEF examined
  <1>2. /\ classifyPair(d, c, p) # "refuse"
        /\ p \in DOMAIN acts <=> classifyPair(d, c, p) \in Kinds
        /\ p \in DOMAIN acts => acts[p] = classifyPair(d, c, p)
    BY <1>1, PlanFacts
  <1>3. resolveListenerTarget(d, c, l).outcome # "refused"
    BY <1>0, <1>2 DEF classifyPair
  <1>4. o = resolveListenerTarget(d, c, l).oid /\ o \in Oids
    BY <1>0, <1>3, Resolves DEF on
  <1> HIDE DEF o
  <1>5. observed(d, c, p) = d.trig[o][p]
    BY <1>0, <1>4 DEF observed, Oids
  <1>6. \/ classifyPair(d, c, p) = "disable"
        \/ classifyPair(d, c, p) = "none" /\ observed(d, c, p) = NoTrigger
    BY <1>0, <1>2 DEF classifyPair
  <1>7. CASE observed(d, c, p) # NoTrigger
    <2>1. p \in DOMAIN acts /\ acts[p] = "disable"
      BY <1>2, <1>6, <1>7 DEF Kinds
    <2>2. p \in gone(d, c, acts) /\ p \notin made(d, c, acts)
      BY <1>0, <1>7, <2>1 DEF gone, made, objectsForPlan, withDropOfWhatTheCatalogHolds
    <2>3. triggersAfter(d, c, acts)[o][p] = NoTrigger
      BY <1>0, <1>4, <2>2 DEF triggersAfter, o
    <2> QED
      BY <2>3, AppliedFields DEF o, p
  <1>8. CASE observed(d, c, p) = NoTrigger
    <2>1. p \notin made(d, c, acts)
      BY <1>2, <1>6 DEF made, objectsForPlan
    <2>2. triggersAfter(d, c, acts)[o][p] = NoTrigger
      BY <1>0, <1>4, <1>5, <1>8, <2>1 DEF triggersAfter
    <2> QED
      BY <2>2, AppliedFields DEF o, p
  <1> QED
    BY <1>7, <1>8

\* After an undisturbed commit no pair of a configured listener that was acted
\* on and has not strayed is refused.
LEMMA TouchedIsAccepted ==
  ASSUME NEW d, NEW c, NEW acts, IsDb(d), DbTyped(d), IsConfig(c), syncSucceeds(d, c, acts),
         planInTransaction(d, c).verdict = "changes_pending",
         planInTransaction(d, c).acts = acts,
         NEW p \in examined(applied(d, c, acts), c),
         p[1] \in DOMAIN c, Touched(acts, p[1]), ~Strayed(d, c, p[1])
  PROVE  classifyPair(applied(d, c, acts), c, p) # "refuse"
  <1> DEFINE e == applied(d, c, acts)
             a == applyObjects(d, c, acts)
             l == p[1]
             op == p[2]
             o == resolveListenerTarget(d, c, l).oid
             rec == e.reg[l]
  <1>1. resolveListenerTarget(e, c, l).outcome # "refused"
    <2>1. validateInTransaction(d, c)
      BY PlanFacts
    <2>2. d.at[c[l].table] # 0
      BY <2>1 DEF validateInTransaction
    <2> QED
      BY <2>2, TargetStays
  <1>2. /\ rec = writeRegistry(a, c, l) /\ o \in Oids
        /\ resolveListenerTarget(d, c, l).outcome # "refused"
        /\ resolveListenerTarget(e, c, l) = [outcome |-> "healthy", oid |-> o]
    BY <1>1, AppliedTarget
  <1>3. /\ rec # NoRow /\ rec.hash = registryTriggers(a, c[l], o, l)
    BY <1>2, WrittenRow
  <1>4. /\ l \in Listeners /\ (op \in Ops => p \in Pairs)
        /\ p \in Pairs => p = <<l, op>> /\ op \in Ops
        /\ \/ op \in DOMAIN c[l].ops
           \/ op \in recordedOps(e, l)
           \/ op = "" /\ recordedOps(e, l) = {}
    BY ExaminedPair
  <1>5. DOMAIN c[l].ops \subseteq Ops
    BY DEF IsConfig, Listener
  <1>6. a.trig = e.trig
    BY AppliedFields
  <1>7. op \in DOMAIN c[l].ops => p = <<l, op>> /\ on(d, c, p) = o
    BY <1>4, <1>5 DEF on
  <1> HIDE DEF e, a, l, op, o
  <1>8. recordedOps(e, l) = DOMAIN rec.hash
    BY <1>3 DEF recordedOps
  <1>9. observed(e, c, p) = IF op \in Ops THEN e.trig[o][p] ELSE NoTrigger
    BY <1>2 DEF observed, Oids, l, op
  <1>10. ~observedOwnershipRefusal(e, c, p)
    <2>1. CASE op \notin DOMAIN c[l].ops
      <3>1. DOMAIN rec.hash \subseteq DOMAIN c[l].ops
        BY <1>3 DEF registryTriggers
      <3>2. op \notin Ops
        BY <1>4, <1>8, <2>1, <3>1, OpsAssumption
      <3> QED
        BY <1>9, <3>2 DEF observedOwnershipRefusal
    <2>2. CASE op \in DOMAIN c[l].ops /\ ~c[l].enabled
      <3>1. applied(d, c, acts).trig[on(d, c, <<l, op>>)][<<l, op>>] = NoTrigger
        <4>1. l \in DOMAIN c
          BY DEF l
        <4> QED
          BY <2>2, <4>1, DisabledIsBare
      <3>2. e.trig[o][p] = NoTrigger
        BY <1>7, <2>2, <3>1 DEF e
      <3> QED
        BY <1>9, <3>2 DEF observedOwnershipRefusal
    <2>3. CASE op \in DOMAIN c[l].ops /\ c[l].enabled
      <3>0. l \in DOMAIN c
        BY DEF l
      <3>1. \A x \in DOMAIN c[l].ops : e.trig[o][<<l, x>>] # NoTrigger
        BY <2>3, <3>0, TriggersThere DEF e, o
      <3>2. rec.hash = [x \in DOMAIN c[l].ops |-> fingerprint(a, o, <<l, x>>)]
        BY <1>3, <1>6, <2>3, <3>1 DEF registryTriggers
      <3>3. op \in recordedOps(e, l)
        BY <1>8, <2>3, <3>2
      <3>4. /\ applied(d, c, acts).trig[on(d, c, <<l, op>>)][<<l, op>>].mark = "ours"
            /\ FunctionOf(applied(d, c, acts), on(d, c, <<l, op>>), <<l, op>>).mark = "ours"
        BY <2>3, <3>0, LeftIsOurs
      <3>5. e.trig[o][p].mark = "ours" /\ FunctionOf(e, o, p).mark = "ours"
        BY <1>7, <2>3, <3>4 DEF e
      <3>6. resolveListenerTarget(e, c, p[1]).oid = o
        BY <1>2 DEF l
      <3> QED
        BY <3>3, <3>5, <3>6 DEF observedOwnershipRefusal, DetermineOwnership, l, op
    <2> QED
      BY <2>1, <2>2, <2>3
  <1>11. classifyManagedPair(e, c, p) # "refuse"
    BY DEF classifyManagedPair
  <1> QED
    BY <1>1, <1>10, <1>11 DEF classifyPair, e, l

\* After an undisturbed commit no pair is refused, if no listener has strayed.
LEMMA AppliedIsAccepted ==
  ASSUME NEW d, NEW c, NEW acts, IsDb(d), DbTyped(d), IsConfig(c), syncSucceeds(d, c, acts),
         planInTransaction(d, c).verdict = "changes_pending",
         planInTransaction(d, c).acts = acts,
         \A l \in DOMAIN c : ~Strayed(d, c, l),
         NEW p \in examined(applied(d, c, acts), c)
  PROVE  classifyPair(applied(d, c, acts), c, p) # "refuse"
  <1> DEFINE e == applied(d, c, acts)
             l == p[1]
  <1>1. /\ l \in Listeners /\ (l \in DOMAIN c \/ e.reg[l] # NoRow)
    BY ExaminedPair
  <1>2. CASE ~Touched(acts, l)
    <2>1. p \in examined(d, c) /\ classifyPair(e, c, p) = classifyPair(d, c, p)
      BY <1>2, UntouchedIsSame
    <2>2. classifyPair(d, c, p) # "refuse"
      BY <2>1, PlanFacts
    <2> QED
      BY <2>1, <2>2
  <1>3. CASE Touched(acts, l) /\ l \notin DOMAIN c
    <2>1. e.reg[l] = NoRow
      BY <1>1, <1>3, AppliedRows
    <2> QED
      BY <1>1, <1>3, <2>1
  <1>4. CASE Touched(acts, l) /\ l \in DOMAIN c
    BY <1>4, TouchedIsAccepted
  <1> QED
    BY <1>2, <1>3, <1>4

\* An apply that commits with nobody interfering since its plan leaves no
\* change pending: planning again, from the database it wrote and with the
\* same configuration, yields no action and is clean, not refused, unless a
\* listener strayed (classify.go against apply.go's readback and registry
\* write).  Each row the commit wrote records exactly what the next plan will
\* read back, beside objects the next plan can prove to be its own.
THEOREM ApplySettles == Spec => NothingLeftPending
  <1> DEFINE Settled(r) ==
        LET again == planInTransaction(db', run[r].cfg)
        IN  /\ again.acts = <<>>
            /\ \/ again.verdict = "clean"
               \/ \E l \in DOMAIN run[r].cfg : Strayed(db, run[r].cfg, l)
  <1>1. ASSUME RInv, TInv, NEW r \in Runners, Commit(r), run[r].calm
        PROVE  Settled(r)
    <2> DEFINE c == run[r].cfg
               acts == run[r].acts
               e == applied(db, c, acts)
               kind == [p \in examined(e, c) |-> classifyPair(e, c, p)]
               acting == {p \in examined(e, c) : kind[p] \in Kinds}
               strayed == \E l \in DOMAIN c : Strayed(db, c, l)
    <2>1. planInTransaction(db, c).verdict = "changes_pending"
          /\ planInTransaction(db, c).acts = acts
      BY <1>1 DEF RInv, PlanCurrent, Commit
    <2>2. IsDb(db) /\ DbTyped(db) /\ IsConfig(c) /\ syncSucceeds(db, c, acts)
          /\ db' = e
      BY <1>1 DEF RInv, TInv, RunTyped, Commit
    <2> HIDE DEF c, acts
    <2>3. \A p \in examined(e, c) : classifyPair(e, c, p) \notin Kinds
      BY <2>1, <2>2, AppliedIsSettled
    <2>8. ~strayed => \A p \in examined(e, c) : classifyPair(e, c, p) # "refuse"
      BY <2>1, <2>2, AppliedIsAccepted
    <2>9. validateInTransaction(e, c)
      <3>1. validateInTransaction(db, c)
        BY <2>1, PlanFacts
      <3>2. e.at = db.at
        BY <2>2, AppliedFields
      <3> HIDE DEF e
      <3> QED
        BY <3>1, <3>2 DEF validateInTransaction
    <2> HIDE DEF e, strayed
    <2>4. acting = {}
      BY <2>3
    <2>5. [p \in acting |-> kind[p]] = <<>>
      <3> HIDE DEF kind, acting
      <3>1. [p \in {} |-> kind[p]] = <<>>
        OBVIOUS
      <3> QED
        BY <2>4, <3>1
    <2>6. diff(e, c).acts = <<>>
      BY <2>5 DEF diff
    <2>10. ~strayed => "refuse" \notin Range(kind)
      BY <2>8 DEF Range
    <2>11. ~strayed => diff(e, c).verdict = "clean"
      BY <2>4, <2>10 DEF diff
    <2>7. planInTransaction(e, c).acts = <<>>
          /\ (~strayed => planInTransaction(e, c).verdict = "clean")
      BY <2>6, <2>9, <2>11 DEF planInTransaction
    <2> QED
      BY <2>2, <2>7 DEF c, strayed
  <1>2. RInv /\ TInv /\ [Next]_vars =>
          [\A r \in Runners : (Commit(r) /\ run[r].calm) => Settled(r)]_vars
    <2> HIDE DEF Settled
    <2> QED
      BY <1>1
  <1> QED
    BY <1>2, RInvInit, RInvStep, TInvInit, TInvStep, PTL DEF Spec, NothingLeftPending

===============================================================================
