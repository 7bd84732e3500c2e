------------------------- MODULE PartitionUpkeepProofs -------------------------
(***************************************************************************)
(* Partition upkeep for any number of replicas, events, partitions and any *)
(* interval, horizon and retention: only expired data leaves the event     *)
(* log, however stale a pass's reading and whatever a drain is moving.     *)
(***************************************************************************)
EXTENDS PartitionUpkeep, FiniteSetTheorems, WellFoundedInduction, TLAPS

PassType == [pc : {"idle", "create", "covers", "drop", "gone"}, todo : SUBSET Extents,
             asked : SUBSET Extents, done : BOOLEAN, refused : BOOLEAN]

\* The drain's record has its seven fields.
IsDrain(d) == d = [x \in {"pc", "range", "held", "status", "removed", "lifted", "taken"} |-> d[x]]

\* The types the argument needs.
UTypes ==
    /\ now \in Nat
    /\ parts \subseteq Extents
    /\ at \in [Events -> Int]
    /\ log \subseteq Events
    /\ pass \in [Replicas -> PassType]
    /\ IsDrain(drain) /\ drain.range \in Extents

\* Only events that were written are stored.
StoredIsWritten == \A e \in log : at[e] # NotYet

\* What a retention pass still has to drop was out of the window when it was
\* planned, and the clock does not go back.
PlannedIsExpired ==
    \A r \in Replicas : pass[r].pc \in {"drop", "gone"} =>
        \A g \in pass[r].todo : g.to + Keep <= now

\* Between its two statements on DEFAULT's events a drain loses none of the
\* rows it copied, and it goes on only when it removed exactly those.
DrainExact ==
    /\ drain.pc = "remove events" => drain.lifted \subseteq InDefault(drain.range)
    /\ drain.pc = "restore" => drain.taken = drain.lifted /\ drain.lifted \subseteq log

\* The inductive invariant.
UInv == UTypes /\ StoredIsWritten /\ PlannedIsExpired /\ DrainExact

-------------------------------------------------------------------------------
(* The grid.                                                               *)

\* Every range of the grid is an extent, before and after the epoch.
LEMMA RangesAreExtents == ASSUME NEW k \in Int PROVE rangeAt(k) \in Extents
  <1>1. boundary(k) \in Int /\ boundary(k + 1) \in Int
    BY UpkeepAssumption DEF boundary
  <1> QED
    BY <1>1 DEF rangeAt, Extents

\* What a pass asks for consists of extents.
LEMMA RequiredAreExtents == ASSUME NEW t PROVE RequiredRanges(t) \subseteq Extents
  <1>1. \A k \in gridIndex(t)..gridIndex(t + Precreate) : k \in Int
    OBVIOUS
  <1> QED
    BY <1>1, RangesAreExtents DEF RequiredRanges

-------------------------------------------------------------------------------
(* Initially.                                                              *)

\* A resting pass is well formed.
LEMMA RestTyped == Rest \in PassType
  BY DEF Rest, PassType

\* The inductive invariant holds at the start.
LEMMA UInvInit == Init => UInv
  <1> SUFFICES ASSUME Init PROVE UInv
    OBVIOUS
  <1>0. IsDrain(drain) /\ drain.range \in Extents
    BY RangesAreExtents DEF Init, IsDrain, NoDrain
  <1>1. UTypes
    <2>1. pass \in [Replicas -> PassType]
      BY RestTyped DEF Init
    <2>2. now \in Nat /\ parts \subseteq Extents /\ log \subseteq Events
      BY UpkeepAssumption DEF Init
    <2>3. at \in [Events -> Int]
      BY DEF Init, NotYet
    <2> QED
      BY <1>0, <2>1, <2>2, <2>3 DEF UTypes
  <1>2. StoredIsWritten
    BY DEF Init, StoredIsWritten
  <1>3. PlannedIsExpired
    BY DEF Init, PlannedIsExpired, Rest
  <1>4. DrainExact
    BY DEF Init, DrainExact, NoDrain
  <1> QED
    BY <1>1, <1>2, <1>3, <1>4 DEF UInv

-------------------------------------------------------------------------------
(* What the parts of the invariant need of a step.                         *)

\* While a drain is under way the partitions stay, no stored event goes, and
\* none moves in time.
LEMMA DrainKept ==
  ASSUME UInv, UNCHANGED drain, drain.pc # "idle" => parts' = parts /\ log \subseteq log',
         \A e \in log : at'[e] = at[e]
  PROVE  DrainExact'
  <1>1. ASSUME drain.pc = "remove events" PROVE drain.lifted \subseteq InDefault(drain.range)'
    <2>1. drain.lifted \subseteq InDefault(drain.range)
      BY <1>1 DEF UInv, DrainExact
    <2>2. parts' = parts /\ log \subseteq log'
      BY <1>1
    <2>3. \A e \in InDefault(drain.range) : e \in InDefault(drain.range)'
      BY <2>2 DEF InDefault, Covered
    <2> QED
      BY <2>1, <2>3
  <1> QED
    BY <1>1 DEF UInv, DrainExact

\* One pass moves to a well-typed record that promises no unexpired drop.
LEMMA PassMoves ==
  ASSUME UInv, NEW r \in Replicas, NEW p \in PassType, Do(r, p), now' = now,
         p.pc \in {"drop", "gone"} => \A g \in p.todo : g.to + Keep <= now
  PROVE  pass' \in [Replicas -> PassType] /\ PlannedIsExpired'
  <1>1. pass' = [pass EXCEPT ![r] = p] /\ pass \in [Replicas -> PassType]
    BY DEF Do, UInv, UTypes
  <1>2. pass' \in [Replicas -> PassType] /\ pass'[r] = p
        /\ \A s \in Replicas \ {r} : pass'[s] = pass[s]
    BY <1>1
  <1> QED
    BY <1>2 DEF UInv, PlannedIsExpired

\* What a step may take out of the event log: the body of OnlyExpiredDataGoes.
Goes ==
    /\ \A g \in parts \ parts' : g \in loose' \/ (g \in ours /\ g.to + Keep <= now)
    /\ loose \subseteq loose'
    /\ \A e \in log \ log' : at[e] + Keep <= now \/ \E g \in loose' : In(at[e], g)

\* A pass goes on with no more to do, in a phase it may go on to.
LEMMA PassContinues ==
  ASSUME UInv, NEW r \in Replicas, NEW p \in PassType, Do(r, p), now' = now,
         p.todo \subseteq pass[r].todo,
         p.pc \in {"drop", "gone"} => pass[r].pc \in {"drop", "gone"} \/ p.todo = {}
  PROVE  pass' \in [Replicas -> PassType] /\ PlannedIsExpired'
  <1>1. p.pc \in {"drop", "gone"} => \A g \in p.todo : g.to + Keep <= now
    BY DEF UInv, PlannedIsExpired
  <1> QED
    BY <1>1, PassMoves

\* A step that touches neither the tables nor the rows.
LEMMA OnlyPassMoves ==
  ASSUME UInv, UNCHANGED <<now, tables, rows, drain>>,
         pass' \in [Replicas -> PassType], PlannedIsExpired'
  PROVE  UInv' /\ Goes
  <1>1. UNCHANGED <<parts, loose, ours, at, log>>
    BY DEF tables, rows
  <1>2. UTypes' /\ StoredIsWritten'
    BY <1>1 DEF UInv, UTypes, StoredIsWritten
  <1>3. DrainExact'
    BY <1>1, DrainKept
  <1> QED
    BY <1>1, <1>2, <1>3 DEF UInv, Goes

\* A maintenance pass that begins only plans: its list holds extents and nothing
\* goes.
LEMMA MaintainStep ==
  ASSUME UInv, NEW r \in Replicas, Maintain(r)
  PROVE  UInv' /\ Goes
  <1>1. ASSUME NEW todo \in SUBSET Extents, NEW asked \in SUBSET Extents, NEW f \in BOOLEAN
        PROVE  LET p == [Begun("create", todo, asked) EXCEPT !.refused = f]
               IN  p \in PassType /\ p.pc = "create"
                   /\ Begun("create", todo, asked) \in PassType
                   /\ Begun("create", todo, asked).pc = "create"
    BY DEF Begun, Rest, PassType
  <1>2. RequiredRanges(now) \subseteq Extents
    BY RequiredAreExtents
  <1>3. PICK p \in PassType : Do(r, p) /\ p.pc = "create"
    <2>1. CASE Do(r, Begun("create", rangesNotYetObserved(RequiredRanges(now), parts),
                           RequiredRanges(now)))
      BY <1>1, <1>2, <2>1 DEF rangesNotYetObserved
    <2>2. CASE Do(r, [Begun("create", {}, {}) EXCEPT !.refused = TRUE])
      BY <1>1, <2>2
    <2> QED
      BY <2>1, <2>2 DEF Maintain
  <1>4. UNCHANGED <<now, tables, rows, drain>>
    BY DEF Maintain
  <1>5. pass' \in [Replicas -> PassType] /\ PlannedIsExpired'
    BY <1>3, <1>4, PassMoves
  <1> QED
    BY <1>4, <1>5, OnlyPassMoves

\* A retention pass that begins plans only partitions that have expired by now.
LEMMA ApplyRetentionStep ==
  ASSUME UInv, NEW r \in Replicas, ApplyRetention(r)
  PROVE  UInv' /\ Goes
  <1>1. ASSUME NEW todo \in SUBSET Extents, NEW f \in BOOLEAN
        PROVE  LET p == [Begun("drop", todo, {}) EXCEPT !.refused = f]
               IN  p \in PassType /\ p.todo = todo
                   /\ Begun("drop", todo, {}) \in PassType /\ Begun("drop", todo, {}).todo = todo
    BY DEF Begun, Rest, PassType
  <1>2. \A g \in ExpiredRanges(parts, now) : g \in Extents /\ g.to + Keep <= now
    BY UpkeepAssumption DEF ExpiredRanges, UInv, UTypes, Extents
  <1>3. PICK p \in PassType : Do(r, p) /\ \A g \in p.todo : g.to + Keep <= now
    <2>1. CASE Do(r, Begun("drop", ExpiredRanges(parts, now), {}))
      <3> DEFINE p == Begun("drop", ExpiredRanges(parts, now), {})
      <3>1. ExpiredRanges(parts, now) \in SUBSET Extents
        BY <1>2
      <3>2. p \in PassType /\ p.todo = ExpiredRanges(parts, now)
        BY <1>1, <3>1
      <3>3. Do(r, p)
        BY <2>1
      <3> HIDE DEF p
      <3> QED
        BY <1>2, <3>2, <3>3
    <2>2. CASE Do(r, [Begun("drop", {}, {}) EXCEPT !.refused = TRUE])
      <3> DEFINE p == [Begun("drop", {}, {}) EXCEPT !.refused = TRUE]
      <3>1. p \in PassType /\ p.todo = {}
        BY <1>1
      <3>2. Do(r, p)
        BY <2>2
      <3> HIDE DEF p
      <3> QED
        BY <3>1, <3>2
    <2> QED
      BY <2>1, <2>2 DEF ApplyRetention
  <1>4. UNCHANGED <<now, tables, rows, drain>>
    BY DEF ApplyRetention
  <1>5. pass' \in [Replicas -> PassType] /\ PlannedIsExpired'
    BY <1>3, <1>4, PassMoves
  <1> QED
    BY <1>4, <1>5, OnlyPassMoves

\* The second readings, and the end of a pass.
LEMMA ReadingStep ==
  ASSUME UInv, NEW r \in Replicas, covers(r) \/ noLongerCovered(r) \/ settled(r)
  PROVE  UInv' /\ Goes
  <1>0. UNCHANGED <<now, tables, rows, drain>> /\ pass[r] \in PassType
    BY DEF covers, noLongerCovered, settled, UInv, UTypes
  <1>1. PICK p \in PassType :
          /\ Do(r, p) /\ p.todo \subseteq pass[r].todo
          /\ p.pc \in {"drop", "gone"} => pass[r].pc \in {"drop", "gone"}
    <2>1. CASE covers(r)
      <3>1. PICK g \in First(pass[r].todo) :
              \/ Do(r, [pass[r] EXCEPT !.pc = "create", !.todo = @ \ {g}])
              \/ Do(r, [[pass[r] EXCEPT !.pc = "create", !.todo = @ \ {g}] EXCEPT !.refused = TRUE])
        BY <2>1 DEF covers
      <3> DEFINE p == [pass[r] EXCEPT !.pc = "create", !.todo = @ \ {g}]
                 q == [p EXCEPT !.refused = TRUE]
      <3>2. p \in PassType /\ p.todo \subseteq pass[r].todo /\ p.pc = "create"
        BY <1>0 DEF PassType
      <3>3. q \in PassType /\ q.todo \subseteq pass[r].todo /\ q.pc = "create"
        BY <1>0 DEF PassType
      <3> HIDE DEF p, q
      <3>4. Do(r, p) \/ Do(r, q)
        BY <3>1 DEF p, q
      <3> QED
        BY <3>2, <3>3, <3>4
    <2>2. CASE noLongerCovered(r)
      <3>0. pass[r].pc = "gone"
        BY <2>2 DEF noLongerCovered
      <3>1. PICK g \in First(pass[r].todo) :
              \/ Do(r, [pass[r] EXCEPT !.pc = "drop", !.todo = @ \ {g}])
              \/ Do(r, [[pass[r] EXCEPT !.pc = "drop", !.todo = @ \ {g}] EXCEPT !.refused = TRUE])
        BY <2>2 DEF noLongerCovered
      <3> DEFINE p == [pass[r] EXCEPT !.pc = "drop", !.todo = @ \ {g}]
                 q == [p EXCEPT !.refused = TRUE]
      <3>2. p \in PassType /\ p.todo \subseteq pass[r].todo
        BY <1>0 DEF PassType
      <3>3. q \in PassType /\ q.todo \subseteq pass[r].todo
        BY <1>0 DEF PassType
      <3> HIDE DEF p, q
      <3>4. Do(r, p) \/ Do(r, q)
        BY <3>1 DEF p, q
      <3> QED
        BY <3>0, <3>2, <3>3, <3>4
    <2>3. CASE settled(r)
      BY <2>3, RestTyped DEF settled, Rest
    <2> QED
      BY <2>1, <2>2, <2>3
  <1>2. pass' \in [Replicas -> PassType] /\ PlannedIsExpired'
    BY <1>0, <1>1, PassContinues
  <1> QED
    BY <1>0, <1>2, OnlyPassMoves

\* createOne adds partitions and takes none away.
LEMMA CreateStep ==
  ASSUME UInv, NEW r \in Replicas, createOne(r)
  PROVE  UInv' /\ Goes
  <1>0. UNCHANGED <<now, loose, at, log, drain>> /\ pass[r] \in PassType
    BY DEF createOne, rows, UInv, UTypes
  <1>1. PICK g \in pass[r].todo :
          /\ pass[r].pc = "create"
          /\ \/ /\ drain.pc = "idle" /\ parts' = parts \cup {g}
                /\ Do(r, [pass[r] EXCEPT !.todo = @ \ {g}, !.done = TRUE])
             \/ parts' = parts /\ Do(r, [pass[r] EXCEPT !.pc = "covers"])
    BY DEF createOne, First, Unlocked
  <1>2. PICK p \in PassType :
          Do(r, p) /\ p.todo \subseteq pass[r].todo /\ p.pc \in {"create", "covers"}
    <2> DEFINE p == [pass[r] EXCEPT !.todo = @ \ {g}, !.done = TRUE]
               q == [pass[r] EXCEPT !.pc = "covers"]
    <2>1. p \in PassType /\ p.todo \subseteq pass[r].todo /\ p.pc = "create"
      BY <1>0, <1>1 DEF PassType
    <2>2. q \in PassType /\ q.todo \subseteq pass[r].todo /\ q.pc = "covers"
      BY <1>0 DEF PassType
    <2> HIDE DEF p, q
    <2>3. Do(r, p) \/ Do(r, q)
      BY <1>1 DEF p, q
    <2> QED
      BY <2>1, <2>2, <2>3
  <1>3. pass' \in [Replicas -> PassType] /\ PlannedIsExpired'
    BY <1>0, <1>2, PassContinues
  <1>4. g \in Extents
    BY <1>0 DEF PassType
  <1>5. UTypes' /\ StoredIsWritten'
    BY <1>0, <1>1, <1>3, <1>4 DEF UInv, UTypes, StoredIsWritten
  <1>6. DrainExact'
    BY <1>0, <1>1, DrainKept
  <1> QED
    BY <1>0, <1>1, <1>3, <1>5, <1>6 DEF UInv, Goes

\* The drop: its partition is one the pass planned, so its time has come.
LEMMA DropStep ==
  ASSUME UInv, NEW r \in Replicas, dropOne(r)
  PROVE  UInv' /\ Goes
  <1>0. UNCHANGED <<now, drain>> /\ pass[r] \in PassType /\ pass[r].pc = "drop"
    BY DEF dropOne, UInv, UTypes
  <1>1. PICK g \in pass[r].todo :
          \/ /\ dropWithinOneTransaction(g)
             /\ Do(r, [[pass[r] EXCEPT !.todo = @ \ {g}] EXCEPT !.done = TRUE])
          \/ /\ \/ Do(r, [pass[r] EXCEPT !.pc = "gone"])
                \/ Do(r, [[pass[r] EXCEPT !.todo = @ \ {g}] EXCEPT !.refused = TRUE])
             /\ UNCHANGED <<tables, rows>>
    BY DEF dropOne, First
  <1>2. PICK p \in PassType : Do(r, p) /\ p.todo \subseteq pass[r].todo
    <2> DEFINE p == [[pass[r] EXCEPT !.todo = @ \ {g}] EXCEPT !.done = TRUE]
               q == [pass[r] EXCEPT !.pc = "gone"]
               f == [[pass[r] EXCEPT !.todo = @ \ {g}] EXCEPT !.refused = TRUE]
    <2>1. p \in PassType /\ p.todo \subseteq pass[r].todo
      BY <1>0 DEF PassType
    <2>2. q \in PassType /\ q.todo \subseteq pass[r].todo
      BY <1>0 DEF PassType
    <2>3. f \in PassType /\ f.todo \subseteq pass[r].todo
      BY <1>0 DEF PassType
    <2> HIDE DEF p, q, f
    <2>4. Do(r, p) \/ Do(r, q) \/ Do(r, f)
      BY <1>1 DEF p, q, f
    <2> QED
      BY <2>1, <2>2, <2>3, <2>4
  <1>3. pass' \in [Replicas -> PassType] /\ PlannedIsExpired'
    BY <1>0, <1>2, PassContinues
  <1>4. CASE UNCHANGED <<tables, rows>>
    BY <1>0, <1>3, <1>4, OnlyPassMoves
  <1>5. CASE dropWithinOneTransaction(g)
    <2>1. /\ drain.pc = "idle" /\ g \in ours
          /\ parts' = parts \ {g} /\ log' = log \ {e \in log : In(at[e], g)}
          /\ loose' = loose /\ at' = at
      BY <1>5 DEF dropWithinOneTransaction, Unlocked, refusalForMarker
    <2>2. g \in Extents /\ g.to + Keep <= now
      BY <1>0 DEF UInv, PlannedIsExpired, PassType
    <2>3. UTypes' /\ StoredIsWritten'
      BY <1>0, <1>3, <2>1 DEF UInv, UTypes, StoredIsWritten
    <2>4. DrainExact'
      BY <1>0, <2>1, DrainKept
    <2>5. \A e \in log \ log' : at[e] + Keep <= now
      <3> TAKE e \in log \ log'
      <3>1. at[e] < g.to
        BY <2>1 DEF In
      <3>2. at[e] \in Int /\ g.to \in Int /\ now \in Int /\ Keep \in Int
        BY <2>2, UpkeepAssumption DEF UInv, UTypes, Extents
      <3> QED
        BY <2>2, <3>1, <3>2
    <2> QED
      BY <1>3, <2>1, <2>2, <2>3, <2>4, <2>5 DEF UInv, Goes
  <1> QED
    BY <1>1, <1>4, <1>5

-------------------------------------------------------------------------------
(* The drain.                                                              *)

\* A statement of the drain changes nothing anybody else can see.
LEMMA DrainMoves ==
  ASSUME UInv, UNCHANGED <<now, tables, rows, pass>>, IsDrain(drain'), drain'.range \in Extents,
         DrainExact'
  PROVE  UInv' /\ Goes
  <1>1. UNCHANGED <<parts, loose, ours, at, log>>
    BY DEF tables, rows
  <1> QED
    BY <1>1 DEF UInv, UTypes, StoredIsWritten, PlannedIsExpired, Goes

\* A drain moves rows between DEFAULT and its holding set without losing one of
\* the log: equal counts and inclusion make the two sets equal.
LEMMA DrainStep ==
  ASSUME UInv, Repair
  PROVE  UInv' /\ Goes
  <1>0. IsDrain(drain) /\ drain.range \in Extents
    BY DEF UInv, UTypes
  <1>1. CASE \E g \in RequiredRanges(now) : RepairDefaultPartition(g)
    <2>1. PICK g \in Extents : drain' = [drain EXCEPT !.pc = "lift queue", !.range = g]
      BY <1>1, RequiredAreExtents DEF RepairDefaultPartition, Drain
    <2>2. IsDrain(drain') /\ drain'.pc = "lift queue" /\ drain'.range \in Extents
      BY <1>0, <2>1 DEF IsDrain
    <2>3. DrainExact'
      BY <2>2 DEF DrainExact
    <2> QED
      BY <1>1, <2>2, <2>3, DrainMoves DEF RepairDefaultPartition
  <1>2. CASE rollback
    <2>1. drain' = NoDrain /\ UNCHANGED <<now, tables, rows, pass>>
      BY <1>2 DEF rollback, Drain
    <2>2. IsDrain(drain') /\ drain'.range \in Extents /\ DrainExact'
      BY <2>1, RangesAreExtents DEF NoDrain, DrainExact, IsDrain
    <2> QED
      BY <2>1, <2>2, DrainMoves
  <1>3. CASE liftQueue
    <2>1. PICK h, s : drain' = [drain EXCEPT !.pc = "remove queue", !.held = h, !.status = s]
      BY <1>3 DEF liftQueue, Drain
    <2>2. IsDrain(drain') /\ drain'.pc = "remove queue" /\ drain'.range \in Extents
      BY <1>0, <2>1 DEF IsDrain
    <2>3. DrainExact'
      BY <2>2 DEF DrainExact
    <2> QED
      BY <1>3, <2>2, <2>3, DrainMoves DEF liftQueue
  <1>4. CASE removeQueue
    <2>1. PICK q : drain' = [drain EXCEPT !.pc = "lift events", !.removed = q]
      BY <1>4 DEF removeQueue, Drain
    <2>2. IsDrain(drain') /\ drain'.pc = "lift events" /\ drain'.range \in Extents
      BY <1>0, <2>1 DEF IsDrain
    <2>3. DrainExact'
      BY <2>2 DEF DrainExact
    <2> QED
      BY <1>4, <2>2, <2>3, DrainMoves DEF removeQueue
  <1>5. CASE liftEvents
    <2> DEFINE found == InDefault(drain.range)
    <2>1. drain' = [drain EXCEPT !.pc = "remove events", !.lifted = found]
          /\ UNCHANGED <<now, tables, rows, pass>>
      BY <1>5 DEF liftEvents, Drain
    <2>3. \A g : InDefault(g)' = InDefault(g)
      BY <2>1 DEF InDefault, Covered, tables, rows
    <2> HIDE DEF found
    <2>4. IsDrain(drain') /\ drain'.pc = "remove events" /\ drain'.lifted = found
          /\ drain'.range = drain.range
      BY <1>0, <2>1 DEF IsDrain
    <2>5. DrainExact'
      BY <2>3, <2>4 DEF DrainExact, found
    <2> QED
      BY <1>0, <2>1, <2>4, <2>5, DrainMoves
  <1>6. CASE removeEvents
    <2> DEFINE found == InDefault(drain.range)
    <2>1. /\ drain.pc = "remove events" /\ Cardinality(drain.lifted) = Cardinality(found)
          /\ drain' = [drain EXCEPT !.pc = "restore", !.taken = found]
          /\ UNCHANGED <<now, tables, rows, pass>>
      BY <1>6 DEF removeEvents, reconciled, Drain
    <2>2. drain.lifted \subseteq found /\ IsFiniteSet(found)
      <3>1. found \subseteq Events
        BY DEF InDefault, UInv, UTypes
      <3> QED
        BY <2>1, <3>1, FS_Subset, UpkeepAssumption DEF UInv, DrainExact
    <2>3. drain.lifted = found /\ found \subseteq log
      <3>1. found \subseteq log
        BY DEF InDefault
      <3> HIDE DEF found
      <3> QED
        BY <2>1, <2>2, <3>1, FS_Subset
    <2> HIDE DEF found
    <2>4. IsDrain(drain') /\ drain'.pc = "restore" /\ drain'.taken = found
          /\ drain'.lifted = drain.lifted /\ drain'.range \in Extents
      BY <1>0, <2>1 DEF IsDrain
    <2>5. DrainExact'
      BY <2>1, <2>3, <2>4 DEF DrainExact, rows
    <2> QED
      BY <2>1, <2>4, <2>5, DrainMoves
  <1>7. CASE restore
    <2>1. /\ drain.pc = "restore" /\ drain' = NoDrain
          /\ parts' = parts \cup {drain.range}
          /\ log' = (log \ drain.taken) \cup drain.lifted
          /\ UNCHANGED <<now, loose, at, pass>>
      BY <1>7 DEF restore, Drain
    <2>2. log' = log
      BY <2>1 DEF UInv, DrainExact
    <2>3. IsDrain(drain') /\ drain'.range \in Extents /\ DrainExact'
      BY <2>1, RangesAreExtents DEF NoDrain, DrainExact, IsDrain
    <2>4. UTypes' /\ StoredIsWritten' /\ PlannedIsExpired'
      BY <1>0, <2>1, <2>2, <2>3 DEF UInv, UTypes, StoredIsWritten, PlannedIsExpired
    <2> QED
      BY <2>1, <2>2, <2>3, <2>4 DEF UInv, Goes
  <1> QED
    BY <1>1, <1>2, <1>3, <1>4, <1>5, <1>6, <1>7 DEF Repair

-------------------------------------------------------------------------------
(* Everybody else.                                                         *)

\* A trigger's insert stamps its event with the clock.
LEMMA InsertStep ==
  ASSUME UInv, NEW e \in Events, insert(e)
  PROVE  UInv' /\ Goes
  <1>1. /\ at[e] = NotYet /\ at' = [at EXCEPT ![e] = now] /\ log' = log \cup {e}
        /\ UNCHANGED <<now, parts, loose, ours, pass, drain>>
    BY DEF insert, tables
  <1>2. at' \in [Events -> Int] /\ at'[e] = now /\ now # NotYet
        /\ \A f \in Events \ {e} : at'[f] = at[f]
    BY <1>1 DEF UInv, UTypes, NotYet
  <1>3. e \notin log
    BY <1>1 DEF UInv, StoredIsWritten
  <1>4. UTypes' /\ StoredIsWritten' /\ PlannedIsExpired'
    BY <1>1, <1>2 DEF UInv, UTypes, StoredIsWritten, PlannedIsExpired
  <1>5. DrainExact'
    <2>1. \A f \in log : at'[f] = at[f]
      BY <1>2, <1>3 DEF UInv, UTypes
    <2> QED
      BY <1>1, <2>1, DrainKept
  <1> QED
    BY <1>1, <1>4, <1>5 DEF UInv, Goes

\* Workers, triggers and a DBA disturb neither a plan nor a drain.
LEMMA OthersStep ==
  ASSUME UInv, Others
  PROVE  UInv' /\ Goes
  <1>1. CASE \E e \in Events : insert(e)
    BY <1>1, InsertStep
  <1>2. CASE \/ \E e \in Events, s \in {"none", "pending", "delivering", "dead"} : settle(e, s)
             \/ \E g \in parts : comment(g)
    <2>1. UNCHANGED <<now, parts, loose, at, log, pass, drain>>
      BY <1>2 DEF settle, comment, tables, rows
    <2>2. DrainExact'
      BY <2>1, DrainKept
    <2> QED
      BY <2>1, <2>2 DEF UInv, UTypes, StoredIsWritten, PlannedIsExpired, Goes
  <1>3. CASE \E g \in parts : detach(g)
    <2>1. PICK g \in parts :
            /\ drain.pc = "idle" /\ parts' = parts \ {g} /\ loose' = loose \cup {g}
            /\ log' = log \ {e \in log : In(at[e], g)}
            /\ UNCHANGED <<now, at, pass, drain>>
      BY <1>3 DEF detach, Unlocked
    <2>2. DrainExact'
      BY <2>1, DrainKept
    <2>3. UTypes' /\ StoredIsWritten' /\ PlannedIsExpired'
      BY <2>1 DEF UInv, UTypes, StoredIsWritten, PlannedIsExpired
    <2>4. Goes
      BY <2>1 DEF Goes
    <2> QED
      BY <2>2, <2>3, <2>4 DEF UInv
  <1> QED
    BY <1>1, <1>2, <1>3 DEF Others

\* What has expired stays expired as the clock moves.
LEMMA TickStep ==
  ASSUME UInv, tick
  PROVE  UInv' /\ Goes
  <1>1. now' = now + 1 /\ UNCHANGED <<parts, loose, ours, at, log, pass, drain>>
    BY DEF tick, tables, rows
  <1>2. PlannedIsExpired'
    <2> SUFFICES ASSUME NEW r \in Replicas, pass[r].pc \in {"drop", "gone"},
                        NEW g \in pass[r].todo
                 PROVE  g.to + Keep <= now'
      BY <1>1 DEF PlannedIsExpired
    <2>1. g.to + Keep <= now
      BY DEF UInv, PlannedIsExpired
    <2>2. g.to \in Int /\ now \in Int /\ Keep \in Int
      BY UpkeepAssumption DEF UInv, UTypes, PassType, Extents
    <2> QED
      BY <1>1, <2>1, <2>2
  <1>3. DrainExact'
    BY <1>1, DrainKept
  <1> QED
    BY <1>1, <1>2, <1>3 DEF UInv, UTypes, StoredIsWritten, Goes

\* Every step keeps the invariant and takes only what it may.
LEMMA UInvStep == UInv /\ [Next]_vars => UInv' /\ Goes
  <1> SUFFICES ASSUME UInv, [Next]_vars PROVE UInv' /\ Goes
    OBVIOUS
  <1>1. CASE UNCHANGED vars
    <2>1. UNCHANGED <<now, parts, loose, ours, at, log, pass, drain>>
      BY <1>1 DEF vars, tables, rows
    <2>2. DrainExact'
      BY <2>1, DrainKept
    <2> QED
      BY <2>1, <2>2 DEF UInv, UTypes, StoredIsWritten, PlannedIsExpired, Goes
  <1> QED
    BY <1>1, MaintainStep, CreateStep, ReadingStep, ApplyRetentionStep, DropStep, DrainStep,
       OthersStep, TickStep DEF Next, Pass

\* Only expired data leaves the event log: a partition goes when it is marked
\* ours and out of the window, or by hand; no detached table is touched; and
\* no event goes before its time, drains included (retentiondrop.go,
\* repair.go).
THEOREM OnlyExpiredGoes == Spec => OnlyExpiredDataGoes
  <1>1. UInv /\ [Next]_vars => [Goes]_vars
    BY UInvStep
  <1> QED
    BY <1>1, UInvInit, UInvStep, PTL DEF Spec, OnlyExpiredDataGoes, Goes


-------------------------------------------------------------------------------
(* What a maintenance pass leaves behind.                                  *)

\* A range is in place, detached by hand, or out of the window by now.
Accounted(g) == g \in parts \cup loose \/ g.to + Keep <= now

\* What a pass that met no refusal has done with is accounted for.
AskedIsAccounted ==
    \A r \in Replicas : pass[r].pc \in {"create", "covers"} /\ ~pass[r].refused =>
        \A g \in pass[r].asked \ pass[r].todo : Accounted(g)

\* What is accounted for stays so: only retention and hands remove partitions.
LEMMA AccountedStays ==
  ASSUME UInv, [Next]_vars, NEW g \in Extents, Accounted(g)
  PROVE  Accounted(g)'
  <1>1. Goes
    BY UInvStep
  <1>2. now \in Int /\ now' \in Int /\ now <= now'
    <2>1. now' = now \/ now' = now + 1
      BY DEF Next, Pass, Maintain, createOne, covers, ApplyRetention, dropOne, noLongerCovered,
         settled, Repair, RepairDefaultPartition, rollback, liftQueue, removeQueue, liftEvents,
         removeEvents, restore, Others, insert, settle, comment, detach, tick, vars
    <2> QED
      BY <2>1 DEF UInv, UTypes
  <1>3. g.to \in Int /\ Keep \in Int
    BY UpkeepAssumption DEF Extents
  <1>4. g.to + Keep <= now => g.to + Keep <= now'
    BY <1>2, <1>3
  <1> QED
    BY <1>1, <1>4 DEF Accounted, Goes

\* A pass that begins asks for what is not there.
LEMMA MaintainAccounts ==
  ASSUME UInv, NEW r \in Replicas, Maintain(r), pass'[r].pc \in {"create", "covers"},
         ~pass'[r].refused, NEW g \in pass'[r].asked \ pass'[r].todo
  PROVE  Accounted(g)'
  <1> DEFINE wanted == RequiredRanges(now)
             todo   == rangesNotYetObserved(wanted, parts)
  <1>1. pass \in [Replicas -> PassType] /\ UNCHANGED parts
    BY DEF UInv, UTypes, Maintain, tables
  <1>2. CASE Do(r, Begun("create", todo, wanted))
    <2> HIDE DEF wanted, todo
    <2>1. pass'[r] = Begun("create", todo, wanted)
      BY <1>1, <1>2 DEF Do
    <2>2. pass'[r].asked = wanted /\ pass'[r].todo = todo
      BY <2>1 DEF Begun, Rest
    <2> QED
      BY <1>1, <2>2 DEF todo, rangesNotYetObserved, Accounted
  <1>3. CASE Do(r, [Begun("create", {}, {}) EXCEPT !.refused = TRUE])
    <2>1. pass'[r] = [Begun("create", {}, {}) EXCEPT !.refused = TRUE]
      BY <1>1, <1>3 DEF Do
    <2>2. pass'[r].refused = TRUE
      BY <2>1 DEF Begun, Rest
    <2> QED
      BY <2>2
  <1> QED
    BY <1>2, <1>3 DEF Maintain

\* A create that succeeds puts its range in place; one that fails leaves it to
\* do.
LEMMA CreateAccounts ==
  ASSUME UInv, AskedIsAccounted, [Next]_vars, NEW r \in Replicas, createOne(r),
         ~pass'[r].refused, NEW g \in pass'[r].asked \ pass'[r].todo
  PROVE  Accounted(g)'
  <1>1. pass \in [Replicas -> PassType] /\ pass[r] \in PassType /\ pass[r].asked \subseteq Extents
    BY DEF UInv, UTypes, PassType
  <1>2. PICK h \in First(pass[r].todo) :
          /\ pass[r].pc = "create"
          /\ \/ /\ parts' = parts \cup {h}
                /\ Do(r, [pass[r] EXCEPT !.todo = @ \ {h}, !.done = TRUE])
             \/ Do(r, [pass[r] EXCEPT !.pc = "covers"])
    BY DEF createOne
  <1>3. \/ /\ parts' = parts \cup {h}
           /\ pass'[r] = [pass[r] EXCEPT !.todo = @ \ {h}, !.done = TRUE]
        \/ pass'[r] = [pass[r] EXCEPT !.pc = "covers"]
    BY <1>1, <1>2 DEF Do
  <1>4. /\ pass'[r].asked = pass[r].asked /\ pass'[r].refused = pass[r].refused
        /\ \/ parts' = parts \cup {h} /\ pass'[r].todo = pass[r].todo \ {h}
           \/ pass'[r].todo = pass[r].todo
    BY <1>1, <1>3 DEF PassType
  <1>5. CASE g \notin pass[r].todo
    <2>1. Accounted(g)
      BY <1>2, <1>4, <1>5 DEF AskedIsAccounted
    <2> QED
      BY <1>1, <1>4, <2>1, AccountedStays
  <1>6. CASE g \in pass[r].todo
    BY <1>4, <1>6 DEF Accounted
  <1> QED
    BY <1>5, <1>6

\* A range is conceded only to a partition of exactly its extent.
LEMMA ConcedeAccounts ==
  ASSUME UInv, AskedIsAccounted, [Next]_vars, NEW r \in Replicas, covers(r),
         ~pass'[r].refused, NEW g \in pass'[r].asked \ pass'[r].todo
  PROVE  Accounted(g)'
  <1>1. pass \in [Replicas -> PassType] /\ pass[r] \in PassType /\ pass[r].asked \subseteq Extents
    BY DEF UInv, UTypes, PassType
  <1>2. PICK h \in First(pass[r].todo) :
          /\ pass[r].pc = "covers" /\ UNCHANGED parts
          /\ \/ coversNow(h) /\ Do(r, [pass[r] EXCEPT !.pc = "create", !.todo = @ \ {h}])
             \/ Do(r, [[pass[r] EXCEPT !.pc = "create", !.todo = @ \ {h}] EXCEPT !.refused = TRUE])
    BY DEF covers, tables
  <1> DEFINE next == [pass[r] EXCEPT !.pc = "create", !.todo = @ \ {h}]
  <1>3. /\ next.asked = pass[r].asked /\ next.refused = pass[r].refused
        /\ next.todo = pass[r].todo \ {h} /\ [next EXCEPT !.refused = TRUE].refused = TRUE
    BY <1>1 DEF PassType
  <1>4. (coversNow(h) /\ pass'[r] = next) \/ pass'[r] = [next EXCEPT !.refused = TRUE]
    BY <1>1, <1>2 DEF Do
  <1> HIDE DEF next
  <1>5. coversNow(h) /\ pass'[r] = next
    BY <1>3, <1>4
  <1>6. h \in parts
    BY <1>5 DEF coversNow, rangesNotYetObserved
  <1>7. CASE g \notin pass[r].todo
    <2>1. Accounted(g)
      BY <1>2, <1>3, <1>5, <1>7 DEF AskedIsAccounted
    <2> QED
      BY <1>1, <1>3, <1>5, <2>1, AccountedStays
  <1>8. CASE g \in pass[r].todo
    BY <1>2, <1>3, <1>5, <1>6, <1>8 DEF Accounted
  <1> QED
    BY <1>7, <1>8

\* The retention pass is not the maintenance pass.
LEMMA RetentionAsksNothing ==
  ASSUME UInv, NEW r \in Replicas,
         ApplyRetention(r) \/ dropOne(r) \/ noLongerCovered(r) \/ settled(r)
  PROVE  pass'[r].pc \notin {"create", "covers"}
  <1>1. pass \in [Replicas -> PassType] /\ pass[r] \in PassType
    BY DEF UInv, UTypes
  <1>2. ASSUME NEW p, Do(r, p) PROVE pass'[r] = p
    BY <1>1, <1>2 DEF Do
  <1>3. CASE ApplyRetention(r)
    <2>1. ASSUME NEW T PROVE Begun("drop", T, {}).pc = "drop"
                             /\ [Begun("drop", T, {}) EXCEPT !.refused = TRUE].pc = "drop"
      BY DEF Begun, Rest
    <2> QED
      BY <1>2, <1>3, <2>1 DEF ApplyRetention
  <1>4. CASE settled(r)
    BY <1>2, <1>4 DEF settled, Rest
  <1>5. CASE dropOne(r)
    <2>1. PICK g : /\ pass[r].pc = "drop"
                   /\ \/ Do(r, [[pass[r] EXCEPT !.todo = @ \ {g}] EXCEPT !.done = TRUE])
                      \/ Do(r, [pass[r] EXCEPT !.pc = "gone"])
                      \/ Do(r, [[pass[r] EXCEPT !.todo = @ \ {g}] EXCEPT !.refused = TRUE])
      BY <1>5 DEF dropOne
    <2>2. /\ [[pass[r] EXCEPT !.todo = @ \ {g}] EXCEPT !.done = TRUE].pc = pass[r].pc
          /\ [pass[r] EXCEPT !.pc = "gone"].pc = "gone"
          /\ [[pass[r] EXCEPT !.todo = @ \ {g}] EXCEPT !.refused = TRUE].pc = pass[r].pc
      BY <1>1 DEF PassType
    <2> QED
      BY <1>2, <2>1, <2>2
  <1>6. CASE noLongerCovered(r)
    <2>1. PICK g : \/ Do(r, [pass[r] EXCEPT !.pc = "drop", !.todo = @ \ {g}])
                   \/ Do(r, [[pass[r] EXCEPT !.pc = "drop", !.todo = @ \ {g}]
                                EXCEPT !.refused = TRUE])
      BY <1>6 DEF noLongerCovered
    <2>2. /\ [pass[r] EXCEPT !.pc = "drop", !.todo = @ \ {g}].pc = "drop"
          /\ [[pass[r] EXCEPT !.pc = "drop", !.todo = @ \ {g}] EXCEPT !.refused = TRUE].pc = "drop"
      BY <1>1 DEF PassType
    <2> QED
      BY <1>2, <2>1, <2>2
  <1> QED
    BY <1>3, <1>4, <1>5, <1>6

\* Every step keeps the account.
LEMMA AccountStep ==
  ASSUME UInv, AskedIsAccounted, [Next]_vars PROVE AskedIsAccounted'
  <1> SUFFICES ASSUME NEW r \in Replicas, pass'[r].pc \in {"create", "covers"},
                      ~pass'[r].refused, NEW g \in pass'[r].asked \ pass'[r].todo
               PROVE  Accounted(g)'
    BY DEF AskedIsAccounted
  <1>1. pass \in [Replicas -> PassType] /\ pass[r].asked \subseteq Extents
    BY DEF UInv, UTypes, PassType
  <1>2. CASE pass'[r] = pass[r]
    <2>1. g \in Extents /\ Accounted(g)
      BY <1>1, <1>2 DEF AskedIsAccounted
    <2> QED
      BY <2>1, AccountedStays
  <1>3. CASE Pass(r)
    BY <1>3, MaintainAccounts, CreateAccounts, ConcedeAccounts, RetentionAsksNothing DEF Pass
  <1>4. ASSUME NEW s \in Replicas, s # r, Pass(s) PROVE pass'[r] = pass[r]
    <2>1. \E p : Do(s, p)
      BY <1>4 DEF Pass, Maintain, createOne, covers, ApplyRetention, dropOne, noLongerCovered,
         settled
    <2> QED
      BY <1>1, <1>4, <2>1 DEF Do
  <1>5. Repair \/ Others \/ tick \/ UNCHANGED vars => pass' = pass
    BY DEF Repair, RepairDefaultPartition, rollback, liftQueue, removeQueue, liftEvents,
       removeEvents, restore, Others, insert, settle, comment, detach, tick, vars
  <1> QED
    BY <1>2, <1>3, <1>4, <1>5 DEF Next

\* However many replicas race, and whatever retention and hands do meanwhile, a
\* maintenance pass that settles with no refusal leaves every instant it was
\* asked to cover covered (converge, covers).
THEOREM SettledIsCovered == Spec => []SettledPassIsCovered
  <1>1. Init => AskedIsAccounted
    BY DEF Init, AskedIsAccounted, Rest
  <1>2. UInv /\ AskedIsAccounted /\ [Next]_vars => UInv' /\ AskedIsAccounted'
    BY UInvStep, AccountStep
  <1>3. UInv /\ AskedIsAccounted => SettledPassIsCovered
    <2> SUFFICES ASSUME UInv, AskedIsAccounted, NEW r \in Replicas,
                        pass[r].pc = "create", pass[r].todo = {}, ~pass[r].refused,
                        NEW t \in 0..MaxTime + Precreate,
                        NEW g \in pass[r].asked, In(t, g), g.to + Keep > now
                 PROVE  \E h \in parts \cup loose : In(t, h)
      BY DEF SettledPassIsCovered
    <2>1. g.to \in Int /\ Keep \in Int /\ now \in Int
      BY UpkeepAssumption DEF UInv, UTypes, PassType, Extents
    <2>2. Accounted(g)
      BY DEF AskedIsAccounted
    <2>3. ~(g.to + Keep <= now)
      BY <2>1
    <2> QED
      BY <2>2, <2>3 DEF Accounted
  <1> QED
    BY <1>1, <1>2, <1>3, UInvInit, PTL DEF Spec


-------------------------------------------------------------------------------
(* The horizon.                                                            *)

\* Integer division of naturals, and when it leaves no remainder.
LEMMA DivBounds ==
  ASSUME NEW n \in Nat, NEW d \in Nat \ {0}
  PROVE  n \div d \in Nat /\ d * (n \div d) <= n /\ n < d * (n \div d) + d
  OBVIOUS

\* The quotient is the only number with these bounds.
LEMMA DivUnique ==
  ASSUME NEW n \in Nat, NEW d \in Nat \ {0}, NEW q \in Int, d * q <= n, n < d * q + d
  PROVE  n \div d = q
  OBVIOUS

\* No remainder is an exact quotient.
LEMMA ModZero ==
  ASSUME NEW n \in Nat, NEW d \in Nat \ {0}
  PROVE  n % d = 0 <=> n = d * (n \div d)
  <1>1. CASE n % d = 0
    BY <1>1
  <1>2. CASE n % d # 0
    <2>1. n # d * (n \div d)
      BY <1>2
    <2> QED
      BY <1>2, <2>1
  <1> QED
    BY <1>1, <1>2

\* After the epoch the grid index is the quotient.
LEMMA GridIndexNat ==
  ASSUME NEW t \in Nat PROVE gridIndex(t) = t \div Interval
  BY UpkeepAssumption DEF gridIndex, floorDiv, TruncDiv

\* A sum's quotient is the sum of the quotients, or one more.
LEMMA DivSum ==
  ASSUME NEW n \in Nat, NEW m \in Nat, NEW d \in Nat \ {0}
  PROVE  LET c == (n - d * (n \div d)) + (m - d * (m \div d)) >= d
         IN  (n + m) \div d = n \div d + m \div d + (IF c THEN 1 ELSE 0)
  <1> DEFINE a == n \div d
             b == m \div d
             c == (n - d * a) + (m - d * b) >= d
             q == a + b + (IF c THEN 1 ELSE 0)
  <1>1. /\ a \in Nat /\ d * a <= n /\ n < d * a + d
        /\ b \in Nat /\ d * b <= m /\ m < d * b + d
    BY DivBounds
  <1> HIDE DEF a, b
  <1>2. d * a \in Nat /\ d * b \in Nat
    BY <1>1
  <1>3. q \in Int /\ d * q = d * a + d * b + (IF c THEN d ELSE 0)
    BY <1>1
  <1>4. d * q <= n + m /\ n + m < d * q + d
    BY <1>1, <1>2, <1>3
  <1>5. n + m \in Nat
    OBVIOUS
  <1> HIDE DEF q
  <1>6. (n + m) \div d = q
    BY <1>3, <1>4, <1>5, DivUnique
  <1> QED
    BY <1>6 DEF a, b, q

\* Different indices are different ranges.
LEMMA RangesDiffer ==
  ASSUME NEW j \in Int, NEW k \in Int, rangeAt(j) = rangeAt(k)
  PROVE  j = k
  <1>1. j * Interval = k * Interval
    BY DEF rangeAt, boundary
  <1>2. Interval \in Nat \ {0}
    BY UpkeepAssumption
  <1> QED
    BY <1>1, <1>2

\* A pass asks for one range per grid index up to the horizon's.
LEMMA RequiredCount ==
  ASSUME NEW t \in Nat
  PROVE  /\ t \div Interval \in Nat /\ (t + Precreate) \div Interval \in Nat
         /\ t \div Interval <= (t + Precreate) \div Interval
         /\ Cardinality(RequiredRanges(t)) =
                (t + Precreate) \div Interval - t \div Interval + 1
  <1> DEFINE a == t \div Interval
             b == (t + Precreate) \div Interval
             f == [k \in a..b |-> rangeAt(k)]
  <1>1. Interval \in Nat \ {0} /\ Precreate \in Nat /\ t + Precreate \in Nat
    BY UpkeepAssumption
  <1>2. a \in Nat /\ b \in Nat
    BY <1>1, DivBounds
  <1>3. a <= b
    BY <1>1, <1>2, DivSum, DivBounds
  <1>4. RequiredRanges(t) = {rangeAt(k) : k \in a..b}
    BY <1>1, GridIndexNat DEF RequiredRanges
  <1> HIDE DEF a, b
  <1>5. f \in Bijection(a..b, RequiredRanges(t))
    <2>1. f \in [a..b -> RequiredRanges(t)]
      BY <1>4
    <2>2. \A j, k \in a..b : f[j] = f[k] => j = k
      BY <1>2, RangesDiffer
    <2>3. \A g \in RequiredRanges(t) : \E k \in a..b : f[k] = g
      BY <1>4
    <2> HIDE DEF f
    <2> QED
      BY <2>1, <2>2, <2>3 DEF Bijection, Injection, Surjection, IsInjective
  <1>6. IsFiniteSet(a..b) /\ Cardinality(a..b) = b - a + 1
    BY <1>2, <1>3, FS_Interval
  <1>7. Cardinality(RequiredRanges(t)) = b - a + 1
    BY <1>5, <1>6, FS_Bijection DEF ExistsBijection
  <1> QED
    BY <1>2, <1>3, <1>7 DEF a, b

\* The number of ranges asked for at an instant, in terms of its remainder.
LEMMA CountByRemainder ==
  ASSUME NEW t \in Nat
  PROVE  LET r == t - Interval * (t \div Interval)
             s == Precreate - Interval * (Precreate \div Interval)
         IN  Cardinality(RequiredRanges(t)) =
                 Precreate \div Interval + 1 + (IF r + s >= Interval THEN 1 ELSE 0)
  <1>1. Interval \in Nat \ {0} /\ Precreate \in Nat
    BY UpkeepAssumption
  <1>2. t \div Interval \in Nat /\ Precreate \div Interval \in Nat
    BY <1>1, DivBounds
  <1>3. Cardinality(RequiredRanges(t)) = (t + Precreate) \div Interval - t \div Interval + 1
    BY RequiredCount
  <1>4. LET r == t - Interval * (t \div Interval)
            s == Precreate - Interval * (Precreate \div Interval)
        IN  (t + Precreate) \div Interval =
               t \div Interval + Precreate \div Interval + (IF r + s >= Interval THEN 1 ELSE 0)
    BY <1>1, DivSum
  <1> QED
    BY <1>2, <1>3, <1>4

\* For every interval and horizon, and at every instant of the clock, the
\* count a configuration is checked against bounds what a pass asks for, and
\* within one interval some instant asks for that many
\* (horizonPartitionCount, RequiredRanges).
THEOREM HorizonBoundTight == Spec => []HorizonCountIsTight
  <1>1. ASSUME now \in Nat PROVE HorizonCountIsTight
    <2> DEFINE a == now \div Interval
               p == Precreate \div Interval
               r == now - Interval * a
               s == Precreate - Interval * p
               k == Interval - 1 - r
    <2>1. Interval \in Nat \ {0} /\ Precreate \in Nat
      BY UpkeepAssumption
    <2>2. /\ a \in Nat /\ Interval * a <= now /\ now < Interval * a + Interval
          /\ p \in Nat /\ Interval * p <= Precreate /\ Precreate < Interval * p + Interval
      BY <1>1, <2>1, DivBounds
    <2>3. Interval * a \in Nat /\ Interval * p \in Nat
      BY <2>1, <2>2
    <2>4. r \in 0..(Interval - 1) /\ s \in 0..(Interval - 1) /\ k \in 0..Interval
      BY <1>1, <2>1, <2>2, <2>3
    <2>5. horizonPartitionCount = p + (IF s = 0 THEN 1 ELSE 2)
      <3>1. Precreate % Interval = 0 <=> Precreate = Interval * p
        BY <2>1, ModZero
      <3>2. s = 0 <=> Precreate = Interval * p
        BY <2>1, <2>3
      <3> HIDE DEF s
      <3> QED
        BY <3>1, <3>2 DEF horizonPartitionCount
    <2>6. Cardinality(RequiredRanges(now)) = p + 1 + (IF r + s >= Interval THEN 1 ELSE 0)
      BY <1>1, CountByRemainder
    <2>7. Cardinality(RequiredRanges(now + k)) = p + 1 + (IF Interval - 1 + s >= Interval THEN 1 ELSE 0)
      <3>1. now + k \in Nat /\ now + k = Interval * a + (Interval - 1)
        BY <1>1, <2>1, <2>2, <2>3, <2>4
      <3>2. (now + k) \div Interval = a
        BY <2>1, <2>2, <2>3, <3>1, DivUnique
      <3>3. (now + k) - Interval * a = Interval - 1
        BY <2>1, <2>3, <3>1
      <3> HIDE DEF k, s, a, p
      <3> QED
        BY <3>1, <3>2, <3>3, CountByRemainder DEF s, p
    <2> HIDE DEF r, s, p, k
    <2>8. Cardinality(RequiredRanges(now)) <= horizonPartitionCount
      BY <2>1, <2>2, <2>4, <2>5, <2>6
    <2>9. Cardinality(RequiredRanges(now + k)) = horizonPartitionCount
      BY <2>1, <2>2, <2>4, <2>5, <2>7
    <2> QED
      BY <2>4, <2>8, <2>9 DEF HorizonCountIsTight
  <1>2. UInv => HorizonCountIsTight
    BY <1>1 DEF UInv, UTypes
  <1>3. UInv /\ [Next]_vars => UInv'
    BY UInvStep
  <1> QED
    BY <1>2, <1>3, UInvInit, PTL DEF Spec

-------------------------------------------------------------------------------
(* The coverage walk.  Its recursive function exists because there is no    *)
(* first index up to which it does not; its invariant holds because there   *)
(* is no first index at which it does not.                                  *)

\* The numbers in order, as a relation.
Below == {ss \in Nat \X Nat : ss[1] < ss[2]}

\* A set of numbers that is not empty has a first one.
LEMMA SmallestIndex ==
  ASSUME NEW S, S \subseteq Nat, S # {}
  PROVE  \E i \in S : \A j \in S : i <= j
  <1>1. IsWellFoundedOn(Below, Nat)
    BY NatLessThanWellFounded DEF OpToRel, Below
  <1>2. PICK i \in S : \A j \in S : ~(<<j, i>> \in Below)
    BY <1>1, WFMin
  <1>3. ASSUME NEW j \in S PROVE i <= j
    <2>1. i \in Nat /\ j \in Nat /\ ~(<<j, i>> \in Below)
      BY <1>2
    <2>2. j < i => <<j, i>> \in Below
      BY <2>1 DEF Below
    <2> QED
      BY <2>1, <2>2
  <1> QED
    BY <1>3

\* No partition of T starts after g.
Earliest(T, g) == \A h \in T : g.from <= h.from

\* Among finitely many partitions one starts first.
LEMMA OneStartsFirst ==
  ASSUME NEW S \in SUBSET Extents, IsFiniteSet(S), S # {}
  PROVE  \E g \in S : Earliest(S, g)
  <1> DEFINE Counter(T) == T # {} /\ ~\E g \in T : Earliest(T, g)
             Bad == {n \in Nat : \E T \in SUBSET S : Cardinality(T) = n /\ Counter(T)}
  <1>0. \A T \in SUBSET S : IsFiniteSet(T) /\ Cardinality(T) \in Nat
    BY FS_Subset, FS_CardinalityType
  <1>1. ASSUME Bad # {} PROVE FALSE
    <2>1. PICK n \in Bad : \A m \in Bad : n <= m
      <3>1. Bad \subseteq Nat
        OBVIOUS
      <3> HIDE DEF Bad
      <3> QED
        BY <1>1, <3>1, SmallestIndex
    <2>2. PICK T \in SUBSET S : Cardinality(T) = n /\ Counter(T)
      BY <2>1
    <2>3. PICK g \in T : TRUE
      BY <2>2
    <2> DEFINE R == T \ {g}
    <2>4. R \in SUBSET S /\ Cardinality(R) = n - 1 /\ Cardinality(R) \in Nat
      <3>1. IsFiniteSet(T) /\ R \in SUBSET S
        BY <1>0
      <3>2. Cardinality(R) = Cardinality(T) - 1
        BY <3>1, FS_RemoveElement
      <3> QED
        BY <1>0, <2>2, <3>1, <3>2
    <2>5. ~Counter(R)
      <3>1. Counter(R) => n - 1 \in Bad
        BY <2>4
      <3>2. n \in Nat /\ ~(n <= n - 1)
        BY <2>1
      <3> QED
        BY <2>1, <3>1, <3>2
    <2>6. CASE R = {}
      <3>1. T = {g}
        BY <2>3, <2>6
      <3>2. g \in Extents
        BY <2>3
      <3>3. Earliest(T, g)
        BY <3>1, <3>2 DEF Earliest, Extents
      <3> QED
        BY <2>2, <2>3, <3>3
    <2>7. CASE R # {}
      <3>1. PICK h \in R : Earliest(R, h)
        BY <2>5, <2>7
      <3>2. g.from \in Int /\ h.from \in Int /\ \A x \in T : x.from \in Int
        BY <2>3, <2>4, <3>1 DEF Extents
      <3>3. CASE h.from <= g.from
        <4>1. Earliest(T, h)
          BY <3>1, <3>3 DEF Earliest
        <4> QED
          BY <2>2, <3>1, <4>1
      <3>4. CASE ~(h.from <= g.from)
        <4>1. \A x \in R : h.from <= x.from
          BY <3>1 DEF Earliest
        <4>2. \A x \in T : g.from <= x.from
          BY <3>2, <3>4, <4>1
        <4> QED
          BY <2>2, <2>3, <4>2 DEF Earliest
      <3> QED
        BY <3>3, <3>4
    <2> QED
      BY <2>6, <2>7
  <1>2. Cardinality(S) \in Nat /\ S \in SUBSET S
    BY <1>0
  <1>3. Cardinality(S) \notin Bad
    BY <1>1
  <1>4. ~Counter(S)
    BY <1>2, <1>3
  <1> QED
    BY <1>4

\* firstByStart is one of those left, and none of them starts before it.
LEMMA FirstByStartDef ==
  ASSUME NEW S \in SUBSET Extents, IsFiniteSet(S), S # {}
  PROVE  firstByStart(S) \in S /\ \A h \in S : firstByStart(S).from <= h.from
  <1>1. \E g \in S : \A h \in S : g.from <= h.from
    BY OneStartsFirst DEF Earliest
  <1> QED
    BY <1>1 DEF firstByStart

\* Where the walk begins.
Begin(S, t) == [rest |-> S, reach |-> t]

\* The walk up to a turn, as a function of the turn.
IsWalk(f, S, t, n) ==
    f = [i \in 0..n |-> IF i = 0 THEN Begin(S, t) ELSE walk(f[i - 1])]

\* The recursive function of the walk exists.
LEMMA WalkExists ==
  ASSUME NEW S, NEW t, NEW n \in Nat
  PROVE  \E f : IsWalk(f, S, t, n)
  <1> DEFINE Bad == {m \in Nat : ~\E f : IsWalk(f, S, t, m)}
  <1>1. ASSUME Bad # {} PROVE FALSE
    <2>1. PICK m \in Bad : \A k \in Bad : m <= k
      <3>1. Bad \subseteq Nat
        OBVIOUS
      <3> HIDE DEF Bad
      <3> QED
        BY <1>1, <3>1, SmallestIndex
    <2>2. m \in Nat /\ ~\E f : IsWalk(f, S, t, m)
      BY <2>1
    <2>3. CASE m = 0
      <3> DEFINE f == [i \in 0..m |-> Begin(S, t)]
      <3>1. f = [i \in 0..m |-> IF i = 0 THEN Begin(S, t) ELSE walk(f[i - 1])]
        BY <2>3
      <3>2. IsWalk(f, S, t, m)
        BY <3>1 DEF IsWalk
      <3> QED
        BY <2>2, <3>2
    <2>4. CASE m # 0
      <3>1. m - 1 \in Nat /\ m - 1 \notin Bad
        BY <2>1, <2>2, <2>4
      <3>2. PICK f : IsWalk(f, S, t, m - 1)
        BY <3>1
      <3> DEFINE g == [i \in 0..m |-> IF i = 0 THEN Begin(S, t) ELSE walk(f[i - 1])]
      <3>3. \A i \in 0..(m - 1) : g[i] = f[i]
        <4>1. \A i \in 0..(m - 1) : f[i] = IF i = 0 THEN Begin(S, t) ELSE walk(f[i - 1])
          BY <3>2 DEF IsWalk
        <4>2. \A i \in 0..(m - 1) : i \in 0..m
          BY <2>2
        <4> QED
          BY <4>1, <4>2
      <3>4. \A i \in 0..m : i # 0 => i - 1 \in 0..(m - 1)
        BY <2>2
      <3> DEFINE h == [i \in 0..m |-> IF i = 0 THEN Begin(S, t) ELSE walk(g[i - 1])]
      <3>5. \A i \in 0..m : h[i] = g[i]
        <4> HIDE DEF g
        <4>1. ASSUME NEW i \in 0..m PROVE h[i] = g[i]
          <5>1. g[i] = IF i = 0 THEN Begin(S, t) ELSE walk(f[i - 1])
            BY DEF g
          <5>2. h[i] = IF i = 0 THEN Begin(S, t) ELSE walk(g[i - 1])
            OBVIOUS
          <5>3. i # 0 => g[i - 1] = f[i - 1]
            BY <3>3, <3>4
          <5> HIDE DEF h
          <5> QED
            BY <5>1, <5>2, <5>3
        <4> QED
          BY <4>1
      <3>6. g = h
        <4>1. g = [i \in 0..m |-> g[i]] /\ h = [i \in 0..m |-> h[i]]
          OBVIOUS
        <4> HIDE DEF g, h
        <4> QED
          BY <3>5, <4>1
      <3>7. IsWalk(g, S, t, m)
        <4>1. h = [i \in 0..m |-> IF i = 0 THEN Begin(S, t) ELSE walk(g[i - 1])]
          OBVIOUS
        <4> HIDE DEF g, h
        <4> QED
          BY <3>6, <4>1 DEF IsWalk
      <3> QED
        BY <2>2, <3>7
    <2> QED
      BY <2>3, <2>4
  <1> QED
    BY <1>1

\* reachFrom is where that function is at its last turn.
LEMMA ReachIsWalked ==
  ASSUME NEW S, IsFiniteSet(S), NEW t
  PROVE  \E f : IsWalk(f, S, t, Cardinality(S)) /\ reachFrom(S, t) = f[Cardinality(S)].reach
  <1> DEFINE n == Cardinality(S)
             f == CHOOSE x : IsWalk(x, S, t, n)
  <1>1. n \in Nat
    BY FS_CardinalityType
  <1>2. IsWalk(f, S, t, n)
    BY <1>1, WalkExists
  <1>3. reachFrom(S, t) = f[n].reach
    BY DEF reachFrom, IsWalk, Begin
  <1> QED
    BY <1>2, <1>3

\* The walk is over: nothing is left, or what is left starts after a gap.
Halted(w) == w.rest = {} \/ firstByStart(w.rest).from > w.reach

\* What the walk has established after i turns: it covers every instant up to
\* its reach, what it has taken ends there or before, and it took one
\* partition a turn until it was over.
WalkInv(w, S, t, i) ==
    /\ w.rest \in SUBSET S
    /\ w.reach \in Int /\ t <= w.reach
    /\ \A u \in Int : t <= u /\ u < w.reach => \E g \in S : In(u, g)
    /\ \A g \in S \ w.rest : g.to <= w.reach
    /\ Halted(w) \/ Cardinality(w.rest) = Cardinality(S) - i

\* One turn keeps it.
LEMMA WalkStep ==
  ASSUME NEW S \in SUBSET Extents, IsFiniteSet(S), NEW t \in Int, NEW i \in Nat,
         NEW w, WalkInv(w, S, t, i)
  PROVE  WalkInv(walk(w), S, t, i + 1)
  <1>0. IsFiniteSet(w.rest) /\ w.rest \in SUBSET Extents /\ w.reach \in Int
        /\ Cardinality(w.rest) \in Nat /\ Cardinality(S) \in Nat
    BY FS_Subset, FS_CardinalityType DEF WalkInv
  <1>1. CASE Halted(w)
    <2>1. walk(w) = w
      BY <1>1 DEF Halted, walk
    <2> QED
      BY <1>1, <2>1 DEF WalkInv
  <1>2. CASE ~Halted(w)
    <2> DEFINE g == firstByStart(w.rest)
               far == IF g.to > w.reach THEN g.to ELSE w.reach
               v == [rest |-> w.rest \ {g}, reach |-> far]
    <2>1. w.rest # {} /\ ~(g.from > w.reach)
      BY <1>2 DEF Halted
    <2>2. g \in w.rest /\ g \in S
      BY <1>0, <2>1, FirstByStartDef DEF WalkInv
    <2>3. walk(w) = v
      BY <2>1 DEF walk
    <2>4. Cardinality(w.rest \ {g}) = Cardinality(w.rest) - 1
      BY <1>0, <2>2, FS_RemoveElement
    <2>5. g.from \in Int /\ g.to \in Int /\ g.from <= w.reach
      <3>1. g.from \in Int /\ g.to \in Int
        BY <2>2 DEF Extents
      <3> QED
        BY <1>0, <2>1, <3>1
    <2> HIDE DEF g
    <2>6. far \in Int /\ w.reach <= far /\ g.to <= far
      BY <1>0, <2>5
    <2>7. \A u \in Int : t <= u /\ u < far => \E h \in S : In(u, h)
      <3> SUFFICES ASSUME NEW u \in Int, t <= u, u < far PROVE \E h \in S : In(u, h)
        OBVIOUS
      <3>1. CASE u < w.reach
        BY <3>1 DEF WalkInv
      <3>2. CASE ~(u < w.reach)
        <4>1. g.from <= u /\ u < g.to
          BY <1>0, <2>5, <3>2
        <4> QED
          BY <2>2, <4>1 DEF In
      <3> QED
        BY <3>1, <3>2
    <2>8. \A h \in S \ (w.rest \ {g}) : h.to <= far
      <3> SUFFICES ASSUME NEW h \in S, h \notin w.rest \/ h = g PROVE h.to <= far
        OBVIOUS
      <3>1. CASE h = g
        BY <2>6, <3>1
      <3>2. CASE h \notin w.rest
        <4>1. h.to <= w.reach
          BY <3>2 DEF WalkInv
        <4>2. h.to \in Int
          BY DEF Extents
        <4> HIDE DEF far
        <4> QED
          BY <1>0, <2>6, <4>1, <4>2
      <3> QED
        BY <3>1, <3>2
    <2>9. Cardinality(w.rest \ {g}) = Cardinality(S) - (i + 1)
      <3>1. Cardinality(w.rest) = Cardinality(S) - i
        BY <1>2 DEF WalkInv
      <3> QED
        BY <1>0, <2>4, <3>1
    <2>10. t <= far
      <3>1. t <= w.reach
        BY DEF WalkInv
      <3> HIDE DEF far
      <3> QED
        BY <1>0, <2>6, <3>1
    <2>11. w.rest \ {g} \in SUBSET S
      BY DEF WalkInv
    <2> HIDE DEF far
    <2>12. v.rest = w.rest \ {g} /\ v.reach = far
      OBVIOUS
    <2> HIDE DEF v
    <2>13. WalkInv(v, S, t, i + 1)
      BY <2>6, <2>7, <2>8, <2>9, <2>10, <2>11, <2>12 DEF WalkInv
    <2> QED
      BY <2>3, <2>13
  <1> QED
    BY <1>1, <1>2

\* The walk keeps its invariant to the last turn.
LEMMA WalkKeeps ==
  ASSUME NEW S \in SUBSET Extents, IsFiniteSet(S), NEW t \in Int,
         NEW n \in Nat, NEW f, IsWalk(f, S, t, n)
  PROVE  WalkInv(f[n], S, t, n)
  <1> DEFINE Bad == {i \in 0..n : ~WalkInv(f[i], S, t, i)}
  <1>0. \A i \in 0..n : f[i] = IF i = 0 THEN Begin(S, t) ELSE walk(f[i - 1])
    BY DEF IsWalk
  <1>1. ASSUME Bad # {} PROVE FALSE
    <2>1. PICK i \in Bad : \A j \in Bad : i <= j
      <3>1. Bad \subseteq Nat
        OBVIOUS
      <3> HIDE DEF Bad
      <3> QED
        BY <1>1, <3>1, SmallestIndex
    <2>2. i \in 0..n /\ ~WalkInv(f[i], S, t, i)
      BY <2>1
    <2>3. CASE i = 0
      <3>1. f[0] = Begin(S, t)
        BY <1>0, <2>2, <2>3
      <3>2. Cardinality(S) \in Nat
        BY FS_CardinalityType
      <3>3. f[0].rest = S /\ f[0].reach = t
        BY <3>1 DEF Begin
      <3>4. \A u \in Int : ~(t <= u /\ u < t)
        OBVIOUS
      <3>5. Cardinality(S) = Cardinality(S) - 0 /\ t <= t
        BY <3>2
      <3>6. WalkInv(f[0], S, t, 0)
        BY <3>3, <3>4, <3>5 DEF WalkInv
      <3> QED
        BY <2>2, <2>3, <3>6
    <2>4. CASE i # 0
      <3>1. i - 1 \in 0..n /\ i - 1 \in Nat /\ (i - 1) + 1 = i /\ ~(i <= i - 1)
        BY <2>2, <2>4
      <3>2. i - 1 \notin Bad
        BY <2>1, <3>1
      <3>3. WalkInv(f[i - 1], S, t, i - 1)
        BY <3>1, <3>2
      <3>4. WalkInv(walk(f[i - 1]), S, t, (i - 1) + 1)
        BY <3>1, <3>3, WalkStep
      <3>5. f[i] = walk(f[i - 1])
        BY <1>0, <2>2, <2>4
      <3> QED
        BY <2>2, <3>1, <3>4, <3>5
    <2> QED
      BY <2>3, <2>4
  <1>2. n \in 0..n
    OBVIOUS
  <1> QED
    BY <1>1, <1>2

\* The reach is the first instant from t on that no partition takes: all
\* before it are taken, and it is not.
LEMMA ReachIsFirstGap ==
  ASSUME NEW S \in SUBSET Extents, IsFiniteSet(S), NEW t \in Int
  PROVE  /\ reachFrom(S, t) \in Int /\ t <= reachFrom(S, t)
         /\ \A u \in Int : t <= u /\ u < reachFrom(S, t) => \E g \in S : In(u, g)
         /\ ~\E g \in S : In(reachFrom(S, t), g)
  <1> DEFINE n == Cardinality(S)
  <1>1. n \in Nat
    BY FS_CardinalityType
  <1>2. PICK f : IsWalk(f, S, t, n) /\ reachFrom(S, t) = f[n].reach
    BY ReachIsWalked
  <1>3. WalkInv(f[n], S, t, n)
    BY <1>1, <1>2, WalkKeeps
  <1> DEFINE w == f[n]
  <1>4. IsFiniteSet(w.rest) /\ w.rest \in SUBSET Extents /\ w.reach \in Int
    BY <1>3, FS_Subset DEF WalkInv
  <1>5. Halted(w)
    <2>1. CASE Cardinality(w.rest) = Cardinality(S) - n
      <3>1. Cardinality(w.rest) = 0
        BY <1>1, <2>1
      <3> QED
        BY <1>4, <3>1, FS_EmptySet DEF Halted
    <2> QED
      BY <1>3, <2>1 DEF WalkInv
  <1>6. ASSUME NEW g \in S, In(w.reach, g) PROVE FALSE
    <2>1. g.from \in Int /\ g.to \in Int /\ g.from <= w.reach /\ w.reach < g.to
      BY <1>6 DEF Extents, In
    <2>2. CASE g \notin w.rest
      <3>1. g.to <= w.reach
        BY <1>3, <2>2 DEF WalkInv
      <3> QED
        BY <1>4, <2>1, <3>1
    <2>3. CASE g \in w.rest
      <3>1. /\ firstByStart(w.rest) \in w.rest
            /\ firstByStart(w.rest).from <= g.from
            /\ firstByStart(w.rest).from > w.reach
        BY <1>4, <1>5, <2>3, FirstByStartDef DEF Halted
      <3>2. firstByStart(w.rest).from \in Int
        BY <1>4, <3>1 DEF Extents
      <3> QED
        BY <1>4, <2>1, <3>1, <3>2
    <2> QED
      BY <2>2, <2>3
  <1> HIDE DEF w
  <1>7. reachFrom(S, t) = w.reach
    BY <1>2 DEF w
  <1>8. WalkInv(w, S, t, n)
    BY <1>3 DEF w
  <1> QED
    BY <1>6, <1>7, <1>8 DEF WalkInv

\* Finitely many partitions are attached at any time.
LEMMA PartsFiniteStep ==
  ASSUME IsFiniteSet(parts), [Next]_vars PROVE IsFiniteSet(parts')
  <1>1. parts' = parts \/ \E g : parts' = parts \cup {g} \/ parts' = parts \ {g}
    <2>1. ASSUME NEW r \in Replicas, Pass(r)
          PROVE  parts' = parts \/ \E g : parts' = parts \cup {g} \/ parts' = parts \ {g}
      BY <2>1 DEF Pass, Maintain, createOne, covers, ApplyRetention, dropOne,
         dropWithinOneTransaction, noLongerCovered, settled, tables
    <2>2. CASE Repair
      BY <2>2 DEF Repair, RepairDefaultPartition, rollback, liftQueue, removeQueue, liftEvents,
         removeEvents, restore, tables
    <2>3. CASE Others
      BY <2>3 DEF Others, insert, settle, comment, detach, tables
    <2>4. CASE tick \/ UNCHANGED vars
      BY <2>4 DEF tick, vars, tables
    <2> QED
      BY <2>1, <2>2, <2>3, <2>4 DEF Next
  <1> QED
    BY <1>1, FS_AddElement, FS_RemoveElement

\* The coverage gauge and the boot's refusal are exact whatever partitions
\* there are, on or off the grid, adjacent, overlapping or apart: the walk in
\* order of lower bound finds the first instant that no partition takes
\* (CoverageShortfall).
THEOREM ShortfallExact == Spec => []ShortfallIsExact
  <1>1. ASSUME now \in Nat, parts \subseteq Extents, IsFiniteSet(parts)
        PROVE  ShortfallIsExact
    <2> DEFINE far == reachFrom(parts, now)
               horizon == now + Precreate
               short == {t \in now..(horizon - 1) : \E u \in now..t : ~Covered(u)}
    <2>1. /\ far \in Int /\ now <= far
          /\ \A u \in Int : now <= u /\ u < far => Covered(u)
          /\ ~Covered(far)
      BY <1>1, ReachIsFirstGap DEF Covered
    <2>2. horizon \in Int /\ now \in Int /\ Precreate \in Int
      BY <1>1, UpkeepAssumption
    <2>3. CoverageShortfall(parts, now) = IF far >= horizon THEN 0 ELSE horizon - far
      <3>1. now + Precreate - far = horizon - far
        BY <2>1, <2>2
      <3> QED
        BY <3>1 DEF CoverageShortfall
    <2> HIDE DEF far
    <2>4. short = far..(horizon - 1)
      <3>1. ASSUME NEW t \in short PROVE t \in far..(horizon - 1)
        <4>1. PICK u \in now..t : ~Covered(u)
          OBVIOUS
        <4>2. t \in now..(horizon - 1) /\ u \in Int /\ now <= u /\ u <= t
          BY <2>2, <4>1
        <4>3. ~(u < far)
          BY <2>1, <4>1, <4>2
        <4> QED
          BY <2>1, <2>2, <4>2, <4>3
      <3>2. ASSUME NEW t \in far..(horizon - 1) PROVE t \in short
        <4>1. t \in now..(horizon - 1) /\ far \in now..t
          BY <2>1, <2>2
        <4> QED
          BY <2>1, <4>1
      <3> HIDE DEF short
      <3> QED
        BY <3>1, <3>2
    <2>5. Cardinality(far..(horizon - 1)) = IF far > horizon - 1 THEN 0 ELSE (horizon - 1) - far + 1
      BY <2>1, <2>2, FS_Interval
    <2>6. now + Precreate - 1 = horizon - 1
      BY <2>2
    <2> HIDE DEF horizon, short
    <2>7. CoverageShortfall(parts, now) = Cardinality(short)
      BY <2>1, <2>2, <2>3, <2>4, <2>5
    <2> QED
      BY <2>6, <2>7 DEF ShortfallIsExact, short
  <1>2. Init => IsFiniteSet(parts)
    BY UpkeepAssumption DEF Init
  <1>3. UInv /\ IsFiniteSet(parts) => ShortfallIsExact
    BY <1>1 DEF UInv, UTypes
  <1>4. UInv /\ IsFiniteSet(parts) /\ [Next]_vars => UInv' /\ IsFiniteSet(parts)'
    BY UInvStep, PartsFiniteStep
  <1> QED
    BY <1>2, <1>3, <1>4, UInvInit, PTL DEF Spec

===============================================================================
