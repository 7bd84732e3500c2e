---------------------------- MODULE PartitionUpkeep ----------------------------
(***************************************************************************)
(* The event log's partitions (internal/schema): the maintenance pass that *)
(* creates what the pre-creation horizon requires, the retention pass that *)
(* drops what has aged out, and the operator's drain of the DEFAULT        *)
(* partition, while triggers insert, workers settle queue rows and a DBA   *)
(* comments on and detaches tables.                                        *)
(*                                                                         *)
(* A step is one transaction, except the drain, whose statements are steps *)
(* of their own: its transaction is READ COMMITTED, so each statement sees *)
(* what others committed meanwhile.  The server's part (external) is what  *)
(* it refuses: a partition that overlaps another, whose name is taken, or  *)
(* whose range has rows in DEFAULT; removing an event a queue row points   *)
(* at.  An event stands in the partition covering its instant, or in       *)
(* DEFAULT when none does.                                                 *)
(***************************************************************************)
EXTENDS Integers, FiniteSets

CONSTANTS
    Replicas,         \* processes running the maintenance loop
    Events,           \* events the triggers write
    Interval,         \* retention.partition_interval
    Precreate,        \* retention.precreate
    Keep,             \* retention.keep
    Worlds,           \* partitions that may exist at the start
    MaxTime,          \* model bound: the last instant of the clock
    MaxHand           \* model bound: tables a DBA has a hand in

\* The bounds of a partition: from inclusive, to exclusive.
Extents == [from : Int, to : Int]

ASSUME UpkeepAssumption ==
    /\ Interval \in Nat \ {0} /\ Precreate \in Nat /\ Keep \in Nat
    /\ MaxTime \in Nat /\ MaxHand \in Nat
    /\ \A W \in Worlds : W \subseteq Extents /\ IsFiniteSet(W)
    /\ IsFiniteSet(Events)

VARIABLES
    now,              \* the database's clock
    parts,            \* extents of the partitions attached to the event log
    loose,            \* extents of tables detached from it by hand
    ours,             \* extents of the tables whose comment is our marker
    alien,            \* those whose comment is not
    at,               \* occurred_at of each event; NotYet before the insert
    log,              \* events stored in attached partitions
    queue,            \* status of each event's queue row
    delivered,        \* history: events whose queue row a worker deleted
    pass,             \* the pass each replica is in
    drain             \* the operator's transaction

tables == <<parts, loose, ours, alien>>
rows   == <<at, log, queue, delivered>>
vars   == <<now, tables, rows, pass, drain>>

NotYet == -1
Live   == {"pending", "delivering"}

-------------------------------------------------------------------------------
(* The grid.                                                               *)

\* Go's integer division truncates toward zero.
TruncDiv(n, d) == IF n >= 0 THEN n \div d ELSE -((-n) \div d)

floorDiv(n, d) ==
    LET q == TruncDiv(n, d)
    IN IF n - q * d # 0 /\ n < 0 THEN q - 1 ELSE q

gridIndex(t) == floorDiv(t, Interval)
boundary(k) == k * Interval
rangeAt(k) == [from |-> boundary(k), to |-> boundary(k + 1)]

\* Faulty variant: the horizon's own range is left out.
RequiredRangesShort(t) ==
    {rangeAt(k) : k \in gridIndex(t)..(gridIndex(t + Precreate) - 1)}

RequiredRanges(t) ==
    {rangeAt(k) : k \in gridIndex(t)..gridIndex(t + Precreate)}

\* Faulty variant: a partition is expired once its lower bound is.
ExpiredRangesFrom(observed, t) == {g \in observed : g.from <= t - Keep}
ExpiredRanges(observed, t) == {g \in observed : g.to <= t - Keep}

rangesNotYetObserved(required, observed) == required \ observed

\* Ascending order of lower bound, taken one at a time: the next of those left.
firstByStart(rest) == CHOOSE g \in rest : \A h \in rest : g.from <= h.from

\* One turn of the walk; a walk that has met a gap, or the end, stays there.
\* The first variant is faulty: a gap does not stop the walk.
walkOverGaps(w) ==
    LET g == firstByStart(w.rest)
    IN IF w.rest = {} THEN w
       ELSE [rest |-> w.rest \ {g}, reach |-> IF g.to > w.reach THEN g.to ELSE w.reach]

walk(w) ==
    LET g == firstByStart(w.rest)
    IN IF w.rest = {} THEN w
       ELSE IF g.from > w.reach THEN w
       ELSE [rest |-> w.rest \ {g}, reach |-> IF g.to > w.reach THEN g.to ELSE w.reach]

\* How far the partitions reach from an instant on without a gap.
reachFrom(observed, t) ==
    LET walked[i \in 0..Cardinality(observed)] ==
            IF i = 0 THEN [rest |-> observed, reach |-> t] ELSE walk(walked[i - 1])
    IN walked[Cardinality(observed)].reach

CoverageShortfall(observed, t) ==
    LET reach == reachFrom(observed, t)
    IN IF reach >= t + Precreate THEN 0 ELSE t + Precreate - reach

horizonPartitionCount ==
    Precreate \div Interval + (IF Precreate % Interval = 0 THEN 1 ELSE 2)

-------------------------------------------------------------------------------
(* What the server answers.                                                *)

In(t, g) == g.from <= t /\ t < g.to
Overlaps(g, h) == g.from < h.to /\ h.from < g.to
Covered(t) == \E g \in parts : In(t, g)
InDefault(g) == {e \in log : In(at[e], g) /\ ~Covered(at[e])}
Queued(g) == {e \in Events : queue[e] # "none" /\ In(at[e], g)}

\* A drain that has read DEFAULT holds locks that CREATE, DETACH and DROP
\* conflict with.
Unlocked == drain.pc = "idle"

createRefused(g) ==
    \/ \E h \in parts : Overlaps(g, h)
    \/ g \in loose
    \/ InDefault(g) # {}

-------------------------------------------------------------------------------
(* The maintenance pass and the retention pass.                            *)

Rest == [pc |-> "idle", todo |-> {}, asked |-> {}, done |-> FALSE,
         refused |-> FALSE]

\* No transaction; otherwise its range, the queue rows held (with their
\* status) and removed, and the events held and removed.
NoDrain == [pc |-> "idle", range |-> rangeAt(0),
            held |-> {}, status |-> [e \in Events |-> "none"], removed |-> {},
            lifted |-> {}, taken |-> {}]

Init ==
    /\ now = 0
    /\ parts \in Worlds
    /\ loose = {} /\ alien = {}
    /\ ours = parts
    /\ at = [e \in Events |-> NotYet]
    /\ log = {} /\ delivered = {}
    /\ queue = [e \in Events |-> "none"]
    /\ pass = [r \in Replicas |-> Rest]
    /\ drain = NoDrain

\* The range the loop is at: plan order, which is order of lower bound.
First(todo) == {g \in todo : \A h \in todo : g.from <= h.from}

Do(r, p) == pass' = [pass EXCEPT ![r] = p]

outcomeOf(p) ==
    IF p.refused THEN "failed" ELSE IF p.done THEN "work_done" ELSE "nothing_needed"

Begun(pc, todo, asked) ==
    [Rest EXCEPT !.pc = pc, !.todo = todo, !.asked = asked]

\* Maintain: one transaction reads the clock and the partitions; or it fails,
\* and the pass with it.
Maintain(r) ==
    /\ pass[r].pc = "idle"
    /\ LET wanted == RequiredRanges(now)
       IN \/ Do(r, Begun("create", rangesNotYetObserved(wanted, parts), wanted))
          \/ Do(r, [Begun("create", {}, {}) EXCEPT !.refused = TRUE])
    /\ UNCHANGED <<now, tables, rows, drain>>

\* CREATE TABLE ... PARTITION OF and the marker, in one transaction.  The
\* server may refuse it for reasons of its own (a lock timeout).
createOne(r) ==
    \E g \in First(pass[r].todo) :
       /\ pass[r].pc = "create"
       /\ \/ /\ Unlocked /\ ~createRefused(g)
             /\ parts' = parts \cup {g}
             /\ ours' = ours \cup {g}
             /\ Do(r, [pass[r] EXCEPT !.todo = @ \ {g}, !.done = TRUE])
          \/ /\ Do(r, [pass[r] EXCEPT !.pc = "covers"])
             /\ UNCHANGED <<parts, ours>>
       /\ UNCHANGED <<now, loose, alien, rows, drain>>

\* Faulty variant: a lost create is taken for a lost race.
coversOverlapping(g) == \E h \in parts : Overlaps(g, h)
coversNow(g) == rangesNotYetObserved({g}, parts) = {}

\* The second reading: a covered range is conceded, any other refused, and a
\* failed reading too.
covers(r) ==
    \E g \in First(pass[r].todo) :
    LET next == [pass[r] EXCEPT !.pc = "create", !.todo = @ \ {g}]
    IN /\ pass[r].pc = "covers"
       /\ \/ coversNow(g) /\ Do(r, next)
          \/ Do(r, [next EXCEPT !.refused = TRUE])
       /\ UNCHANGED <<now, tables, rows, drain>>

\* ApplyRetention follows the settled maintenance pass, whatever its outcome.
ApplyRetention(r) ==
    /\ pass[r].pc = "create" /\ pass[r].todo = {}
    /\ \/ Do(r, Begun("drop", ExpiredRanges(parts, now), {}))
       \/ Do(r, [Begun("drop", {}, {}) EXCEPT !.refused = TRUE])
    /\ UNCHANGED <<now, tables, rows, drain>>

\* Guard 1: the comment of the table of that name, none when it is gone.
refusalForMarker(g) ==
    CASE g \in ours  -> "none"
      [] g \in alien -> "not ours"
      [] OTHER       -> "unmarked"

reapDeadRows(g) == {e \in Queued(g) : queue[e] = "dead"}

\* The drop's one transaction: lock, both guards, reap, DETACH (refused while
\* a queue row points into the partition), DROP.
dropWithinOneTransaction(g) ==
    LET reaped == reapDeadRows(g)
    IN /\ Unlocked
       /\ refusalForMarker(g) = "none"
       /\ g \in parts
       /\ Queued(g) \subseteq reaped
       /\ queue' = [e \in Events |-> IF e \in reaped THEN "none" ELSE queue[e]]
       /\ parts' = parts \ {g}
       /\ ours' = ours \ {g}
       /\ log' = log \ {e \in log : In(at[e], g)}
       /\ UNCHANGED <<loose, alien, at, delivered>>

dropOne(r) ==
    \E g \in First(pass[r].todo) :
    LET next == [pass[r] EXCEPT !.todo = @ \ {g}]
    IN /\ pass[r].pc = "drop"
       /\ \/ /\ dropWithinOneTransaction(g)
             /\ Do(r, [next EXCEPT !.done = TRUE])
          \/ /\ IF refusalForMarker(g) = "unmarked"
                THEN Do(r, [pass[r] EXCEPT !.pc = "gone"])
                ELSE Do(r, [next EXCEPT !.refused = TRUE])
             /\ UNCHANGED <<tables, rows>>
       /\ UNCHANGED <<now, drain>>

\* An unmarked partition reads as dropped by another replica: the second
\* reading says whether it is.
noLongerCovered(r) ==
    \E g \in First(pass[r].todo) :
    LET next == [pass[r] EXCEPT !.pc = "drop", !.todo = @ \ {g}]
    IN /\ pass[r].pc = "gone"
       /\ \/ rangesNotYetObserved({g}, parts) # {} /\ Do(r, next)
          \/ Do(r, [next EXCEPT !.refused = TRUE])
       /\ UNCHANGED <<now, tables, rows, drain>>

settled(r) ==
    /\ pass[r].pc = "drop" /\ pass[r].todo = {}
    /\ Do(r, Rest)
    /\ UNCHANGED <<now, tables, rows, drain>>

-------------------------------------------------------------------------------
(* The drain of the DEFAULT partition, statement by statement.             *)

Drain(d) == drain' = d

\* The names are rendered and the world observed; a range that already has
\* its partition is refused (whyUnrepairable).
RepairDefaultPartition(g) ==
    /\ drain.pc = "idle"
    /\ g.to > g.from
    /\ g \notin parts
    /\ Drain([drain EXCEPT !.pc = "lift queue", !.range = g])
    /\ UNCHANGED <<now, tables, rows, pass>>

\* The transaction is rolled back: nothing it did is left.
rollback ==
    /\ drain.pc # "idle"
    /\ Drain(NoDrain)
    /\ UNCHANGED <<now, tables, rows, pass>>

\* CREATE TABLE holding AS SELECT: the queue rows of the range, as committed.
liftQueue ==
    /\ drain.pc = "lift queue"
    /\ LET held == Queued(drain.range)
       IN Drain([drain EXCEPT !.pc = "remove queue", !.held = held,
                    !.status = [e \in Events |-> IF e \in held THEN queue[e] ELSE "none"]])
    /\ UNCHANGED <<now, tables, rows, pass>>

reconciled(held, removed) == Cardinality(held) = Cardinality(removed)

\* DELETE: the rows of the range as committed now, which need not be the rows
\* copied; only the two counts are compared.  Until the commit others still
\* see the rows, and cannot change them.
removeQueue ==
    /\ drain.pc = "remove queue"
    /\ reconciled(drain.held, Queued(drain.range))
    /\ Drain([drain EXCEPT !.pc = "lift events", !.removed = Queued(drain.range)])
    /\ UNCHANGED <<now, tables, rows, pass>>

liftEvents ==
    /\ drain.pc = "lift events"
    /\ Drain([drain EXCEPT !.pc = "remove events", !.lifted = InDefault(drain.range)])
    /\ UNCHANGED <<now, tables, rows, pass>>

\* The foreign key refuses to remove an event a queue row still points at.
removeEvents ==
    LET g == drain.range
    IN /\ drain.pc = "remove events"
       /\ reconciled(drain.lifted, InDefault(g))
       /\ Queued(g) \cap InDefault(g) \subseteq drain.removed
       /\ Drain([drain EXCEPT !.pc = "restore", !.taken = InDefault(g)])
       /\ UNCHANGED <<now, tables, rows, pass>>

\* The partition is created and marked, which takes DEFAULT's lock to the end;
\* the rows held are put back, a queue row whose event is not there is
\* refused, and the transaction commits.
restore ==
    LET g == drain.range
    IN /\ drain.pc = "restore"
       /\ \A h \in parts : ~Overlaps(g, h)
       /\ g \notin loose
       /\ InDefault(g) \subseteq drain.taken
       /\ drain.held \subseteq (log \ drain.taken) \cup drain.lifted
       /\ parts' = parts \cup {g}
       /\ ours' = ours \cup {g}
       /\ queue' = [e \in Events |->
                        CASE e \in drain.held    -> drain.status[e]
                          [] e \in drain.removed -> "none"
                          [] OTHER               -> queue[e]]
       /\ log' = (log \ drain.taken) \cup drain.lifted
       /\ Drain(NoDrain)
       /\ UNCHANGED <<now, loose, alien, at, delivered, pass>>

-------------------------------------------------------------------------------
(* Triggers, workers, the DBA and the clock.                               *)

\* The generated trigger body: the event and its queue row, in one statement.
insert(e) ==
    /\ at[e] = NotYet
    /\ at' = [at EXCEPT ![e] = now]
    /\ log' = log \cup {e}
    /\ queue' = [queue EXCEPT ![e] = "pending"]
    /\ UNCHANGED <<now, tables, delivered, pass, drain>>

\* A worker's statements on the queue row; the row a drain has removed is
\* locked until the drain commits.
settle(e, status) ==
    /\ e \notin drain.removed
    /\ \/ queue[e] = "pending" /\ status = "delivering"
       \/ queue[e] = "delivering" /\ status \in {"none", "pending", "dead"}
       \/ queue[e] = "dead" /\ status = "pending"
    /\ queue' = [queue EXCEPT ![e] = status]
    /\ delivered' = IF status = "none" THEN delivered \cup {e} ELSE delivered
    /\ UNCHANGED <<now, tables, at, log, pass, drain>>

comment(g) ==
    /\ g \in ours
    /\ ours' = ours \ {g} /\ alien' = alien \cup {g}
    /\ UNCHANGED <<now, parts, loose, rows, pass, drain>>

detach(g) ==
    /\ Unlocked
    /\ g \in parts /\ Queued(g) = {}
    /\ parts' = parts \ {g} /\ loose' = loose \cup {g}
    /\ log' = log \ {e \in log : In(at[e], g)}
    /\ UNCHANGED <<now, ours, alien, at, queue, delivered, pass, drain>>

tick ==
    /\ now < MaxTime
    /\ now' = now + 1
    /\ UNCHANGED <<tables, rows, pass, drain>>

Pass(r) ==
    \/ Maintain(r) \/ createOne(r) \/ covers(r) \/ ApplyRetention(r)
    \/ dropOne(r) \/ noLongerCovered(r) \/ settled(r)

Repair ==
    \/ \E g \in RequiredRanges(now) :
          InDefault(g) # {} /\ RepairDefaultPartition(g)
    \/ rollback \/ liftQueue \/ removeQueue \/ liftEvents \/ removeEvents
    \/ restore

Others ==
    \/ \E e \in Events : insert(e)
    \/ \E e \in Events, s \in {"none", "pending", "delivering", "dead"} : settle(e, s)
    \/ /\ Cardinality(loose \cup alien) < MaxHand
       /\ \E g \in parts : comment(g) \/ detach(g)

Next == (\E r \in Replicas : Pass(r)) \/ Repair \/ Others \/ tick

Spec == Init /\ [][Next]_vars

-------------------------------------------------------------------------------
(* Properties.                                                             *)

TypeOK ==
    /\ now \in 0..MaxTime
    /\ ours \cap alien = {} /\ parts \cap loose = {}
    /\ parts \cup loose = ours \cup alien
    /\ at \in [Events -> -1..MaxTime]
    /\ log \subseteq Events /\ delivered \subseteq Events
    /\ queue \in [Events -> Live \cup {"none", "dead"}]
    /\ drain.held \cup drain.removed \cup drain.lifted \cup drain.taken \subseteq Events

\* Retention is the only path that destroys data: a partition leaves the event
\* log only when it carries our marker at that moment and all of its extent
\* is out of the retention window, or with the hand that detached it; no
\* detached table is touched; and no event is gone before its time, whichever
\* replica's reading was stale and whatever a drain was moving.
OnlyExpiredDataGoes ==
    [][/\ \A g \in parts \ parts' :
             g \in loose' \/ (g \in ours /\ g.to + Keep <= now)
       /\ loose \subseteq loose'
       /\ \A e \in log \ log' :
             at[e] + Keep <= now \/ \E g \in loose' : In(at[e], g)]_vars

\* A maintenance pass that settled with no refusal leaves every instant it was
\* asked for covered, whoever created the partition, unless a hand detached the
\* table or the range has expired since: a race is never conceded to a partition
\* that leaves a part of the range uncovered (converge, covers).
SettledPassIsCovered ==
    \A r \in Replicas :
        pass[r].pc = "create" /\ pass[r].todo = {} /\ ~pass[r].refused =>
            \A t \in 0..MaxTime + Precreate :
                (\E g \in pass[r].asked : In(t, g) /\ g.to + Keep > now) =>
                    \E h \in parts \cup loose : In(t, h)

\* The coverage gauge, and the boot's refusal, are exact: the shortfall is the
\* distance from the first instant that no partition takes to the horizon, and
\* zero when there is none (CoverageShortfall against its definition).
ShortfallIsExact ==
    CoverageShortfall(parts, now) =
        Cardinality({t \in now..(now + Precreate - 1) :
                        \E u \in now..t : ~Covered(u)})

\* The check made of a configuration before anything is read bounds the number
\* of partitions a pass asks for at any instant, and some instant asks for
\* that many (horizonPartitionCount against RequiredRanges).
HorizonCountIsTight ==
    /\ Cardinality(RequiredRanges(now)) <= horizonPartitionCount
    /\ \E k \in 0..Interval :
          Cardinality(RequiredRanges(now + k)) = horizonPartitionCount

\* "A holding table that copied fewer rows than the delete removed is rows
\* destroyed" (liftedOut): no step but a worker's own settlement, and the reap
\* of dead rows, removes a queue row.
DrainKeepsLiveRows ==
    [][\A e \in Events :
          queue[e] \in Live /\ queue'[e] = "none" => e \in delivered']_vars

===============================================================================
