-------------------------- MODULE WorkerCustodyProofs --------------------------
(***************************************************************************)
(* Where a worker process keeps its claims, for any number of events,      *)
(* listeners and workers: slots, the record of running requests, leases,   *)
(* dead letters, and the at-least-once promise.                            *)
(***************************************************************************)
EXTENDS DeliveryWorkerProofs

-------------------------------------------------------------------------------
(* What each step does to the fields of its process.  Every lemma lists    *)
(* the fields the invariants below speak of, and those alone.              *)

\* The claims the loop carries, the requests and their slots, the drains.
KeepsClaims(p, q)   == q.batch = p.batch /\ q.pending = p.pending
KeepsRequests(p, q) == /\ q.flights = p.flights /\ q.tracked = p.tracked
                       /\ q.used = p.used /\ q.lused = p.lused
KeepsDrain(p, q)    == q.drain = p.drain /\ q.stopping = p.stopping

\* Between polls no batch is at hand; within a cycle nothing is retained.
Resting == {"down", "idle", "take", "release", "backoff", "drain", "ended"}

\* A step that moves no claim: only the control point changes.
Still(p, q) == KeepsClaims(p, q) /\ KeepsRequests(p, q) /\ KeepsDrain(p, q) /\ q.cur = p.cur

Turns(p, q) ==
    /\ Still(p, q)
    /\ p.loop # "down" /\ q.loop # "down"
    /\ \/ q.loop = p.loop /\ q.at = p.at
       \/ /\ p.loop \notin {"track", "release", "drain"}
          /\ q.loop \notin {"track", "release", "drain"}
          /\ p.loop \in Resting <=> q.loop \in Resting
       \/ p.loop = "visit" /\ q.loop = "idle" /\ p.batch = {}

\* Only process w may have changed.
Only(w) == \A v \in Workers \ {w} : proc'[v] = proc[v]

\* A step of one process leaves the others alone.
LEMMA OthersStay ==
  ASSUME proc \in [Workers -> Process], NEW w \in Workers, NEW p, Becomes(w, p)
  PROVE  proc'[w] = p /\ Only(w)
  BY DEF Becomes, Only

\* The loop's control steps, and a signal.
LEMMA TurnFields ==
  ASSUME proc \in [Workers -> Process], NEW w \in Workers,
         \/ Poll(w) \/ Sweep(w) \/ BeginClaim(w) \/ SkipClaim(w) \/ DatabaseError(w)
         \/ ClaimLost(w) \/ VisitNone(w) \/ VisitBlocked(w) \/ RoundEnd(w) \/ Supervise(w)
         \/ Shutdown(w)
  PROVE  Turns(proc[w], proc'[w]) /\ Only(w)
<1> DEFINE P == proc[w]
           q == proc'[w]
<1>1. P \in Process
  OBVIOUS
<1>2. ASSUME NEW p, Becomes(w, p) PROVE q = p /\ Only(w)
  BY <1>2, OthersStay
<1>3. ASSUME NEW l \in LoopStates
      PROVE  /\ Still(P, [P EXCEPT !.loop = l]) /\ [P EXCEPT !.loop = l].loop = l
             /\ Still(P, [P EXCEPT !.at = 1, !.progress = FALSE, !.loop = l])
             /\ [P EXCEPT !.at = 1, !.progress = FALSE, !.loop = l].loop = l
  BY <1>1 DEF Process, Still, KeepsClaims, KeepsRequests, KeepsDrain
<1>a. ASSUME NEW l \in LoopStates, NEW b \in BOOLEAN
      PROVE  /\ Still(P, [P EXCEPT !.loop = l, !.failed = b])
             /\ [P EXCEPT !.loop = l, !.failed = b].loop = l
  BY <1>1 DEF Process, Still, KeepsClaims, KeepsRequests, KeepsDrain
<1>b. {"take", "swept", "visit", "retain"} \subseteq LoopStates /\ P.cancelled \in BOOLEAN
  BY <1>1 DEF LoopStates, Process
<1>4. CASE Poll(w)
  <2>1. P.loop = "idle" /\ q = [P EXCEPT !.loop = "take"] /\ Only(w)
    BY <1>2, <1>4 DEF Poll
  <2>2. Still(P, q) /\ q.loop = "take"
    BY <1>3, <1>b, <2>1
  <2> QED  BY <2>1, <2>2 DEF Turns, Resting
<1>5. CASE Sweep(w)
  <2>1. P.loop = "reclaim" /\ q = [P EXCEPT !.loop = "swept"] /\ Only(w)
    BY <1>2, <1>5 DEF Sweep
  <2>2. Still(P, q) /\ q.loop = "swept"
    BY <1>3, <1>b, <2>1
  <2> QED  BY <2>1, <2>2 DEF Turns, Resting
<1>6. CASE BeginClaim(w)
  <2> DEFINE l == IF P.cancelled THEN "retain" ELSE "claim"
  <2>1. P.loop = "swept" /\ q = [P EXCEPT !.loop = l, !.failed = P.cancelled] /\ Only(w)
    BY <1>2, <1>6 DEF BeginClaim
  <2>2. l \in {"retain", "claim"} /\ l \in LoopStates
    BY DEF LoopStates
  <2> HIDE DEF l
  <2>3. Still(P, q) /\ q.loop = l
    BY <1>1, <2>1, <2>2 DEF Process, Still, KeepsClaims, KeepsRequests, KeepsDrain
  <2> QED  BY <2>1, <2>2, <2>3 DEF Turns, Resting
<1>7. CASE SkipClaim(w)
  <2>1. P.loop = "swept" /\ q = [P EXCEPT !.loop = "visit"] /\ Only(w)
    BY <1>2, <1>7 DEF SkipClaim
  <2>2. Still(P, q) /\ q.loop = "visit"
    BY <1>3, <1>b, <2>1
  <2> QED  BY <2>1, <2>2 DEF Turns, Resting
<1>8. CASE DatabaseError(w) \/ ClaimLost(w)
  <2>1. /\ P.loop \in {"reclaim", "claim"} /\ Only(w)
        /\ q = [P EXCEPT !.loop = "retain", !.failed = TRUE]
    BY <1>2, <1>8 DEF DatabaseError, ClaimLost
  <2>2. Still(P, q) /\ q.loop = "retain"
    BY <1>a, <1>b, <2>1
  <2> QED  BY <2>1, <2>2 DEF Turns, Resting
<1>9. CASE VisitNone(w) \/ VisitBlocked(w)
  <2>1. P.loop = "visit" /\ q = [P EXCEPT !.at = @ + 1] /\ Only(w)
    BY <1>2, <1>9 DEF VisitNone, VisitBlocked, Visiting
  <2>2. Still(P, q) /\ q.loop = P.loop
    BY <1>1, <2>1 DEF Process, Still, KeepsClaims, KeepsRequests, KeepsDrain
  <2> QED  BY <2>1, <2>2 DEF Turns, Resting
<1>10. CASE RoundEnd(w)
  <2> DEFINE l == CASE ~P.progress -> "retain"
                    [] P.progress /\ P.batch = {} -> "idle"
                    [] OTHER -> "visit"
  <2>1. /\ P.loop = "visit" /\ Only(w)
        /\ q = [P EXCEPT !.at = 1, !.progress = FALSE, !.loop = l]
    BY <1>2, <1>10 DEF RoundEnd
  <2>2. l \in {"retain", "idle", "visit"} /\ l \in LoopStates /\ (l = "idle" => P.batch = {})
    BY <1>1 DEF LoopStates, Process
  <2> HIDE DEF l
  <2>3. Still(P, q) /\ q.loop = l
    BY <1>3, <2>1, <2>2
  <2> QED  BY <2>1, <2>2, <2>3 DEF Turns, Resting
<1>11. CASE Supervise(w)
  <2> DEFINE l == IF P.cancelled THEN "ended" ELSE "idle"
  <2>1. P.loop = "backoff" /\ q = [P EXCEPT !.loop = l] /\ Only(w)
    BY <1>2, <1>11 DEF Supervise
  <2>2. l \in {"ended", "idle"} /\ l \in LoopStates
    BY DEF LoopStates
  <2> HIDE DEF l
  <2>3. Still(P, q) /\ q.loop = l
    BY <1>3, <2>1, <2>2
  <2> QED  BY <2>1, <2>2, <2>3 DEF Turns, Resting
<1>12. CASE Shutdown(w)
  <2>1. P.loop # "down" /\ q = [P EXCEPT !.cancelled = TRUE] /\ Only(w)
    BY <1>2, <1>12 DEF Shutdown, Up
  <2>2. Still(P, q) /\ q.loop = P.loop /\ q.at = P.at
    BY <1>1, <2>1 DEF Process, Still, KeepsClaims, KeepsRequests, KeepsDrain
  <2> QED  BY <2>1, <2>2 DEF Turns
<1> QED  BY <1>4, <1>5, <1>6, <1>7, <1>8, <1>9, <1>10, <1>11, <1>12

\* What was retained becomes the batch; whatever is dropped is a failure.
LEMMA TakeFields ==
  ASSUME proc \in [Workers -> Process], faults \in Nat, NEW w \in Workers, TakePending(w)
  PROVE  /\ proc[w].loop = "take" /\ proc'[w].loop \in {"visit", "retain", "reclaim"}
         /\ proc'[w].batch \subseteq proc[w].pending /\ proc'[w].pending = {}
         /\ faults' = 0 => proc'[w].batch = proc[w].pending
         /\ faults <= faults'
         /\ KeepsRequests(proc[w], proc'[w]) /\ KeepsDrain(proc[w], proc'[w])
         /\ proc'[w].cur = proc[w].cur /\ Only(w)
<1> DEFINE P == proc[w]
           q == proc'[w]
<1>1. P \in Process
  OBVIOUS
<1>2. PICK X \in HoldsExpired(w) :
        /\ Becomes(w, [P EXCEPT !.batch = P.pending \ X, !.pending = {},
                                !.held = @ \ Ids(X), !.at = 1, !.progress = FALSE,
                                !.failed = X = {} /\ P.cancelled,
                                !.loop = CASE X # {} -> "visit"
                                           [] X = {} /\ P.cancelled -> "retain"
                                           [] OTHER -> "reclaim"])
        /\ faults' = faults + Cardinality(X)
  BY DEF TakePending
<1> DEFINE l == CASE X # {} -> "visit"
                  [] X = {} /\ P.cancelled -> "retain"
                  [] OTHER -> "reclaim"
           b == X = {} /\ P.cancelled
           H == P.held \ Ids(X)
           B == P.pending \ X
<1>3. l \in {"visit", "retain", "reclaim"}
  OBVIOUS
<1>4. /\ q = [P EXCEPT !.batch = B, !.pending = {}, !.held = H, !.at = 1, !.progress = FALSE,
                       !.failed = b, !.loop = l]
      /\ Only(w)
  BY <1>2, OthersStay
<1>5. IsFiniteSet(X)
  BY DEF HoldsExpired
<1>6. Cardinality(X) \in Nat /\ (Cardinality(X) = 0 => X = {})
  BY <1>5, FS_CardinalityType, FS_EmptySet
<1>7. faults <= faults' /\ (faults' = 0 => B = P.pending)
  BY <1>2, <1>6
<1>8. B \subseteq P.pending
  OBVIOUS
<1> HIDE DEF l, b, H, B
<1>9. /\ q.batch = B /\ q.pending = {} /\ q.loop = l /\ q.cur = P.cur
      /\ KeepsRequests(P, q) /\ KeepsDrain(P, q)
  BY <1>1, <1>4 DEF Process, KeepsRequests, KeepsDrain
<1>10. P.loop = "take"
  BY DEF TakePending
<1> QED  BY <1>3, <1>4, <1>7, <1>8, <1>9, <1>10

\* A claim adds what it was granted to the batch.
LEMMA ClaimFields ==
  ASSUME proc \in [Workers -> Process], NEW w \in Workers, NEW S,
         Becomes(w, [proc[w] EXCEPT !.batch = @ \cup ClaimedEvents(S), !.loop = "visit"])
  PROVE  /\ proc'[w].loop = "visit" /\ proc'[w].batch = proc[w].batch \cup ClaimedEvents(S)
         /\ proc'[w].pending = proc[w].pending /\ proc'[w].cur = proc[w].cur
         /\ KeepsRequests(proc[w], proc'[w]) /\ KeepsDrain(proc[w], proc'[w]) /\ Only(w)
<1> DEFINE B == proc[w].batch \cup ClaimedEvents(S)
<1>1. proc'[w] = [proc[w] EXCEPT !.batch = B, !.loop = "visit"] /\ Only(w)
  BY OthersStay
<1>2. proc[w] \in Process
  OBVIOUS
<1> HIDE DEF B
<1>3. /\ proc'[w].batch = B /\ proc'[w].loop = "visit" /\ proc'[w].pending = proc[w].pending
      /\ proc'[w].cur = proc[w].cur
      /\ KeepsRequests(proc[w], proc'[w]) /\ KeepsDrain(proc[w], proc'[w])
  BY <1>1, <1>2 DEF Process, KeepsRequests, KeepsDrain
<1> QED  BY <1>1, <1>3 DEF B

\* A dead-lettered event leaves the batch.
LEMMA ConsumeFields ==
  ASSUME proc \in [Workers -> Process], NEW w \in Workers, NEW c, NEW reason,
         Consume(w, c, reason)
  PROVE  /\ proc'[w].loop = proc[w].loop /\ proc'[w].batch = proc[w].batch \ {c}
         /\ proc'[w].pending = proc[w].pending /\ proc'[w].cur = proc[w].cur
         /\ KeepsRequests(proc[w], proc'[w]) /\ KeepsDrain(proc[w], proc'[w]) /\ Only(w)
<1> DEFINE B == proc[w].batch \ {c}
           H == proc[w].held \ {c.id}
           n == proc[w].at + 1
<1>1. /\ proc'[w] = [proc[w] EXCEPT !.batch = B, !.held = H, !.progress = TRUE, !.at = n]
      /\ Only(w)
  BY OthersStay DEF Consume
<1>2. proc[w] \in Process
  OBVIOUS
<1> HIDE DEF B, H, n
<1>3. /\ proc'[w].batch = B /\ proc'[w].loop = proc[w].loop
      /\ proc'[w].pending = proc[w].pending /\ proc'[w].cur = proc[w].cur
      /\ KeepsRequests(proc[w], proc'[w]) /\ KeepsDrain(proc[w], proc'[w])
  BY <1>1, <1>2 DEF Process, KeepsRequests, KeepsDrain
<1> QED  BY <1>1, <1>3 DEF B

\* tryAcquire takes a slot of the worker and one of the visited listener.
LEMMA AcquireFields ==
  ASSUME proc \in [Workers -> Process], NEW w \in Workers, Acquire(w)
  PROVE  /\ proc[w].loop = "visit" /\ proc'[w].loop = "track" /\ proc'[w].at = proc[w].at
         /\ \E c \in proc[w].batch : ListenerOf[c.id] = Order[proc[w].at] /\ proc'[w].cur = {c}
         /\ KeepsClaims(proc[w], proc'[w]) /\ KeepsDrain(proc[w], proc'[w]) /\ Only(w)
         /\ proc'[w].flights = proc[w].flights /\ proc'[w].tracked = proc[w].tracked
         /\ proc[w].used < GlobalCap /\ proc'[w].used = proc[w].used + 1
         /\ ~ListenerFull(w, Order[proc[w].at])
         /\ proc'[w].lused = [proc[w].lused EXCEPT ![Order[proc[w].at]] = @ + 1]
<1> DEFINE P == proc[w]
           q == proc'[w]
           U == [P.lused EXCEPT ![Order[P.at]] = @ + 1]
           n == P.used + 1
<1>1. PICK c \in Heads(w) :
        Becomes(w, [proc[w] EXCEPT !.cur = {c}, !.loop = "track", !.used = @ + 1,
                                   !.lused[Order[proc[w].at]] = @ + 1])
  BY DEF Acquire
<1>2. /\ q = [P EXCEPT !.cur = {c}, !.loop = "track", !.used = n, !.lused = U]
      /\ Only(w)
  BY <1>1, OthersStay
<1>3. c \in P.batch /\ ListenerOf[c.id] = Order[P.at]
  BY DEF Heads
<1>4. P \in Process
  OBVIOUS
<1>5. P.loop = "visit" /\ P.used < GlobalCap /\ ~ListenerFull(w, Order[P.at])
  BY DEF Acquire, Visiting, HasCapacity
<1> HIDE DEF U, n
<1>6. /\ q.cur = {c} /\ q.loop = "track" /\ q.used = n /\ q.lused = U /\ q.at = P.at
      /\ KeepsClaims(P, q) /\ KeepsDrain(P, q) /\ q.flights = P.flights /\ q.tracked = P.tracked
  BY <1>2, <1>4 DEF Process, KeepsClaims, KeepsDrain
<1> QED  BY <1>2, <1>3, <1>5, <1>6 DEF U, n

\* track: the acquired event becomes a request.
LEMMA TrackFields ==
  ASSUME proc \in [Workers -> Process], NEW w \in Workers, Track(w)
  PROVE  /\ proc[w].loop = "track" /\ ~proc[w].stopping /\ proc'[w].loop = "visit"
         /\ proc'[w].batch = proc[w].batch \ proc[w].cur
         /\ proc'[w].pending = proc[w].pending /\ proc'[w].cur = {}
         /\ proc'[w].flights = proc[w].flights \cup Started(proc[w].cur)
         /\ proc'[w].tracked = proc[w].tracked \cup proc[w].cur
         /\ proc'[w].used = proc[w].used /\ proc'[w].lused = proc[w].lused
         /\ KeepsDrain(proc[w], proc'[w]) /\ Only(w)
<1> DEFINE P == proc[w]
           q == proc'[w]
           B == P.batch \ P.cur
           H == P.held \ Ids(P.cur)
           F == P.flights \cup Started(P.cur)
           T == P.tracked \cup P.cur
           n == P.at + 1
<1>1. /\ q = [P EXCEPT !.batch = B, !.cur = {}, !.held = H, !.flights = F, !.tracked = T,
                       !.progress = TRUE, !.at = n, !.loop = "visit"]
      /\ Only(w) /\ P.loop = "track" /\ ~P.stopping
  BY OthersStay DEF Track
<1>2. P \in Process
  OBVIOUS
<1> HIDE DEF B, H, F, T, n
<1>3. /\ q.batch = B /\ q.cur = {} /\ q.flights = F /\ q.tracked = T /\ q.loop = "visit"
      /\ q.pending = P.pending /\ q.used = P.used /\ q.lused = P.lused /\ KeepsDrain(P, q)
  BY <1>1, <1>2 DEF Process, KeepsDrain
<1> QED  BY <1>1, <1>3 DEF B, F, T

\* A refused track gives both slots back; the event stays in the batch.
LEMMA RefusedFields ==
  ASSUME proc \in [Workers -> Process], NEW w \in Workers, TrackRefused(w)
  PROVE  /\ proc[w].loop = "track" /\ proc'[w].loop = "visit"
         /\ proc'[w].cur = {} /\ proc'[w].used = Released(proc[w].used)
         /\ proc'[w].lused = [proc[w].lused EXCEPT ![Order[proc[w].at]] = Released(@)]
         /\ proc'[w].flights = proc[w].flights /\ proc'[w].tracked = proc[w].tracked
         /\ KeepsClaims(proc[w], proc'[w]) /\ KeepsDrain(proc[w], proc'[w]) /\ Only(w)
<1> DEFINE P == proc[w]
           q == proc'[w]
           U == [P.lused EXCEPT ![Order[P.at]] = Released(@)]
           n == P.at + 1
           r == Released(P.used)
<1>1. /\ q = [P EXCEPT !.cur = {}, !.used = r, !.lused = U, !.at = n, !.loop = "visit"]
      /\ Only(w) /\ P.loop = "track"
  BY OthersStay DEF TrackRefused
<1>2. P \in Process
  OBVIOUS
<1> HIDE DEF U, n, r
<1>3. /\ q.cur = {} /\ q.used = r /\ q.lused = U /\ q.loop = "visit"
      /\ q.flights = P.flights /\ q.tracked = P.tracked
      /\ KeepsClaims(P, q) /\ KeepsDrain(P, q)
  BY <1>1, <1>2 DEF Process, KeepsClaims, KeepsDrain
<1> QED  BY <1>1, <1>3 DEF U, r

\* Where a cycle ends, the loop is at rest.
LEMMA AfterCycleRests ==
  ASSUME NEW w \in Workers, proc[w] \in Process, NEW next \in AfterCycle(w)
  PROVE  next \in {"idle", "ended", "backoff"}
<1>1. proc[w].failed \in BOOLEAN /\ proc[w].cancelled \in BOOLEAN
  BY ProcessFields
<1> QED  BY <1>1 DEF AfterCycle

\* retainPending's check: a draining worker's batch is handed to the release.
LEMMA RetainFields ==
  ASSUME proc \in [Workers -> Process], NEW w \in Workers, RetainCheck(w)
  PROVE  /\ proc[w].loop = "retain" /\ proc'[w].stopping = proc[w].stopping
         /\ proc'[w].pending = proc[w].pending /\ proc'[w].cur = proc[w].cur
         /\ KeepsRequests(proc[w], proc'[w]) /\ Only(w)
         /\ \A d \in Releasers \ {"retain"} : proc'[w].drain[d] = proc[w].drain[d]
         /\ \/ /\ proc[w].stopping /\ proc'[w].loop = "release" /\ proc'[w].batch = {}
               /\ proc'[w].drain["retain"].rel = proc[w].batch
            \/ /\ proc'[w].loop = "store" /\ proc'[w].batch = proc[w].batch
               /\ proc'[w].drain["retain"] = proc[w].drain["retain"]
<1> DEFINE P == proc[w]
           q == proc'[w]
           l == IF P.stopping THEN "release" ELSE "store"
           B == IF P.stopping THEN {} ELSE P.batch
           D == IF P.stopping THEN [st |-> "release", rel |-> P.batch, err |-> FALSE]
                ELSE P.drain["retain"]
           A == [P.drain EXCEPT !["retain"] = D]
<1>1. q = [P EXCEPT !.loop = l, !.batch = B, !.drain = A] /\ Only(w) /\ P.loop = "retain"
  BY OthersStay DEF RetainCheck
<1>2. P \in Process /\ P.drain \in [Releasers -> Drain] /\ "retain" \in Releasers
  BY ProcessFields DEF Releasers
<1>3. A["retain"] = D /\ \A d \in Releasers \ {"retain"} : A[d] = P.drain[d]
  BY <1>2
<1>4. \/ P.stopping /\ l = "release" /\ B = {} /\ D.rel = P.batch
      \/ l = "store" /\ B = P.batch /\ D = P.drain["retain"]
  OBVIOUS
<1> HIDE DEF l, B, D, A
<1>5. /\ q.loop = l /\ q.batch = B /\ q.drain = A /\ q.stopping = P.stopping
      /\ q.pending = P.pending /\ q.cur = P.cur /\ KeepsRequests(P, q)
  BY <1>1, <1>2 DEF Process, KeepsRequests
<1> QED  BY <1>1, <1>3, <1>4, <1>5

\* The store: the batch joins what is retained.
LEMMA StoreFields ==
  ASSUME proc \in [Workers -> Process], NEW w \in Workers, Store(w)
  PROVE  /\ proc[w].loop = "store" /\ proc'[w].loop \in {"idle", "ended", "backoff"}
         /\ proc'[w].pending = proc[w].pending \cup proc[w].batch /\ proc'[w].batch = {}
         /\ proc'[w].cur = proc[w].cur
         /\ KeepsRequests(proc[w], proc'[w]) /\ KeepsDrain(proc[w], proc'[w]) /\ Only(w)
<1> DEFINE P == proc[w]
           q == proc'[w]
           H == P.held \cup Ids(P.batch)
           R == P.pending \cup P.batch
<1>1. PICK next \in AfterCycle(w) :
        Becomes(w, [P EXCEPT !.pending = @ \cup P.batch, !.batch = {},
                             !.held = @ \cup Ids(P.batch), !.loop = next, !.failed = FALSE])
  BY DEF Store
<1>2. /\ q = [P EXCEPT !.pending = R, !.batch = {}, !.held = H, !.loop = next, !.failed = FALSE]
      /\ Only(w) /\ P.loop = "store"
  BY <1>1, OthersStay DEF Store
<1>3. P \in Process /\ next \in {"idle", "ended", "backoff"}
  BY AfterCycleRests
<1> HIDE DEF H, R
<1>4. /\ q.pending = R /\ q.batch = {} /\ q.loop = next /\ q.cur = P.cur
      /\ KeepsRequests(P, q) /\ KeepsDrain(P, q)
  BY <1>2, <1>3 DEF Process, KeepsRequests, KeepsDrain
<1> QED  BY <1>2, <1>3, <1>4 DEF R

\* The release of a draining worker's batch is complete.
LEMMA RetainReleasedFields ==
  ASSUME proc \in [Workers -> Process], NEW w \in Workers, RetainReleased(w)
  PROVE  /\ proc[w].loop = "release" /\ proc'[w].loop \in {"idle", "ended", "backoff"}
         /\ proc[w].drain["retain"].rel = {} /\ proc'[w].drain["retain"].rel = {}
         /\ \A d \in Releasers \ {"retain"} : proc'[w].drain[d] = proc[w].drain[d]
         /\ proc'[w].stopping = proc[w].stopping /\ proc'[w].cur = proc[w].cur
         /\ KeepsClaims(proc[w], proc'[w]) /\ KeepsRequests(proc[w], proc'[w]) /\ Only(w)
<1> DEFINE P == proc[w]
           q == proc'[w]
           r == P.relErr \/ P.drain["retain"].err
           A == [P.drain EXCEPT !["retain"] = NotDraining]
<1>1. PICK next \in AfterCycle(w) :
        Becomes(w, [P EXCEPT !.relErr = @ \/ P.drain["retain"].err,
                             !.drain["retain"] = NotDraining, !.loop = next, !.failed = FALSE])
  BY DEF RetainReleased
<1>2. /\ q = [P EXCEPT !.relErr = r, !.drain = A, !.loop = next, !.failed = FALSE]
      /\ Only(w) /\ P.loop = "release" /\ P.drain["retain"].rel = {}
  BY <1>1, OthersStay DEF RetainReleased
<1>3. /\ P \in Process /\ next \in {"idle", "ended", "backoff"}
      /\ P.drain \in [Releasers -> Drain] /\ "retain" \in Releasers
  BY AfterCycleRests, ProcessFields DEF Releasers
<1>4. A["retain"].rel = {} /\ \A d \in Releasers \ {"retain"} : A[d] = P.drain[d]
  BY <1>3 DEF NotDraining
<1> HIDE DEF r, A
<1>5. /\ q.loop = next /\ q.drain = A /\ q.stopping = P.stopping /\ q.cur = P.cur
      /\ KeepsClaims(P, q) /\ KeepsRequests(P, q)
  BY <1>2, <1>3 DEF Process, KeepsClaims, KeepsRequests
<1> QED  BY <1>2, <1>3, <1>4, <1>5

\* A request advances.
LEMMA MoveFields ==
  ASSUME proc \in [Workers -> Process], NEW w \in Workers, NEW f, NEW g, Move(w, f, g)
  PROVE  /\ proc'[w].flights = (proc[w].flights \ {f}) \cup {g}
         /\ proc'[w].tracked = proc[w].tracked /\ proc'[w].used = proc[w].used
         /\ proc'[w].lused = proc[w].lused /\ proc'[w].loop = proc[w].loop
         /\ proc'[w].at = proc[w].at /\ proc'[w].cur = proc[w].cur
         /\ KeepsClaims(proc[w], proc'[w]) /\ KeepsDrain(proc[w], proc'[w]) /\ Only(w)
<1> DEFINE F == (proc[w].flights \ {f}) \cup {g}
<1>1. proc'[w] = [proc[w] EXCEPT !.flights = F] /\ Only(w)
  BY OthersStay DEF Move
<1>2. proc[w] \in Process
  OBVIOUS
<1> HIDE DEF F
<1>3. /\ proc'[w].flights = F /\ proc'[w].tracked = proc[w].tracked
      /\ proc'[w].used = proc[w].used /\ proc'[w].lused = proc[w].lused
      /\ proc'[w].loop = proc[w].loop /\ proc'[w].at = proc[w].at /\ proc'[w].cur = proc[w].cur
      /\ KeepsClaims(proc[w], proc'[w]) /\ KeepsDrain(proc[w], proc'[w])
  BY <1>1, <1>2 DEF Process, KeepsClaims, KeepsDrain
<1> QED  BY <1>1, <1>3 DEF F

\* A request ends: untracked, and both slots go back.
LEMMA FinishFields ==
  ASSUME proc \in [Workers -> Process], NEW w \in Workers, NEW f, Finish(w, f)
  PROVE  /\ f.stage = "finish" /\ proc'[w].flights = proc[w].flights \ {f}
         /\ \E c \in proc[w].tracked : proc'[w].tracked = proc[w].tracked \ {c}
         /\ proc'[w].used = Released(proc[w].used)
         /\ proc'[w].lused = [proc[w].lused EXCEPT ![ListenerOf[f.c.id]] = Released(@)]
         /\ proc'[w].loop = proc[w].loop /\ proc'[w].at = proc[w].at
         /\ proc'[w].cur = proc[w].cur
         /\ KeepsClaims(proc[w], proc'[w]) /\ KeepsDrain(proc[w], proc'[w]) /\ Only(w)
<1> DEFINE P == proc[w]
           q == proc'[w]
           F == P.flights \ {f}
           U == [P.lused EXCEPT ![ListenerOf[f.c.id]] = Released(@)]
           r == Released(P.used)
<1>1. PICK c \in P.tracked :
        Becomes(w, [P EXCEPT !.flights = @ \ {f}, !.tracked = @ \ {c},
                             !.used = Released(@), !.lused[ListenerOf[f.c.id]] = Released(@)])
  BY DEF Finish
<1> DEFINE T == P.tracked \ {c}
<1>2. /\ q = [P EXCEPT !.flights = F, !.tracked = T, !.used = r, !.lused = U]
      /\ Only(w) /\ f.stage = "finish"
  BY <1>1, OthersStay DEF Finish
<1>3. P \in Process
  OBVIOUS
<1> HIDE DEF F, T, U, r
<1>4. /\ q.flights = F /\ q.tracked = T /\ q.used = r /\ q.lused = U /\ q.loop = P.loop
      /\ q.at = P.at /\ q.cur = P.cur /\ KeepsClaims(P, q) /\ KeepsDrain(P, q)
  BY <1>2, <1>3 DEF Process, KeepsClaims, KeepsDrain
<1> QED  BY <1>2, <1>4 DEF F, T, U, r

\* A drain begins.
LEMMA BeginDrainFields ==
  ASSUME proc \in [Workers -> Process], NEW w \in Workers, NEW d \in Releasers, BeginDrain(w, d)
  PROVE  /\ proc[w].cancelled /\ proc[w].drain[d].st = "off" /\ proc'[w].stopping
         /\ proc'[w].drain[d].st = "wait" /\ proc'[w].drain[d].rel = proc[w].drain[d].rel
         /\ \A b \in Releasers \ {d} : proc'[w].drain[b] = proc[w].drain[b]
         /\ \/ proc'[w].loop = proc[w].loop /\ d # "loop"
            \/ proc[w].loop = "idle" /\ proc'[w].loop = "drain"
         /\ proc'[w].at = proc[w].at /\ proc'[w].cur = proc[w].cur
         /\ KeepsClaims(proc[w], proc'[w]) /\ KeepsRequests(proc[w], proc'[w]) /\ Only(w)
<1> DEFINE P == proc[w]
           q == proc'[w]
           l == IF d = "loop" THEN "drain" ELSE P.loop
           D == [P.drain[d] EXCEPT !.st = "wait"]
           A == [P.drain EXCEPT ![d] = D]
<1>1. /\ q = [P EXCEPT !.stopping = TRUE, !.drain = A, !.loop = l] /\ Only(w)
      /\ P.cancelled /\ P.drain[d].st = "off" /\ (d = "loop" => P.loop = "idle")
  BY OthersStay DEF BeginDrain
<1>2. P \in Process /\ P.drain \in [Releasers -> Drain] /\ P.drain[d] \in Drain
  BY ProcessFields
<1>3. D.st = "wait" /\ D.rel = P.drain[d].rel
  BY <1>2 DEF Drain
<1>4. A[d] = D /\ \A b \in Releasers \ {d} : A[b] = P.drain[b]
  BY <1>2
<1>5. (l = P.loop /\ d # "loop") \/ (P.loop = "idle" /\ l = "drain")
  BY <1>1
<1> HIDE DEF l, D, A
<1>6. /\ q.stopping /\ q.drain = A /\ q.loop = l /\ q.at = P.at /\ q.cur = P.cur
      /\ KeepsClaims(P, q) /\ KeepsRequests(P, q)
  BY <1>1, <1>2 DEF Process, KeepsClaims, KeepsRequests
<1> QED  BY <1>1, <1>3, <1>4, <1>5, <1>6

\* A drain's wait is over: what is tracked or retained is to be released.
LEMMA DrainWaitedFields ==
  ASSUME proc \in [Workers -> Process], faults \in Nat, NEW w \in Workers,
         NEW d \in Releasers, DrainWaited(w, d)
  PROVE  /\ proc[w].drain[d].st = "wait" /\ proc'[w].drain[d].st = "release"
         /\ proc'[w].drain[d].rel = proc[w].tracked \cup proc[w].pending
         /\ proc'[w].drain[d].err = (proc[w].tracked # {})
         /\ proc[w].tracked # {} => faults' # 0
         /\ \A b \in Releasers \ {d} : proc'[w].drain[b] = proc[w].drain[b]
         /\ proc'[w].pending = {} /\ proc'[w].batch = proc[w].batch
         /\ proc'[w].loop = proc[w].loop /\ proc'[w].at = proc[w].at
         /\ proc'[w].cur = proc[w].cur /\ proc'[w].stopping = proc[w].stopping
         /\ KeepsRequests(proc[w], proc'[w]) /\ Only(w)
<1> DEFINE P == proc[w]
           q == proc'[w]
           D == [st |-> "release", rel |-> P.tracked \cup P.pending, err |-> P.tracked # {}]
           A == [P.drain EXCEPT ![d] = D]
<1>1. /\ q = [P EXCEPT !.drain = A, !.pending = {}, !.held = {}] /\ Only(w)
      /\ P.drain[d].st = "wait" /\ (P.tracked # {} => faults' = faults + 1)
  BY OthersStay DEF DrainWaited, Fault
<1>2. P \in Process /\ P.drain \in [Releasers -> Drain]
  BY ProcessFields
<1>3. A[d] = D /\ \A b \in Releasers \ {d} : A[b] = P.drain[b]
  BY <1>2
<1>4. D.st = "release" /\ D.rel = P.tracked \cup P.pending /\ D.err = (P.tracked # {})
  OBVIOUS
<1> HIDE DEF D, A
<1>5. /\ q.drain = A /\ q.pending = {} /\ q.batch = P.batch /\ q.loop = P.loop /\ q.at = P.at
      /\ q.cur = P.cur /\ q.stopping = P.stopping /\ KeepsRequests(P, q)
  BY <1>1, <1>2 DEF Process, KeepsRequests
<1>6. P.tracked # {} => faults' # 0
  BY <1>1
<1> QED  BY <1>1, <1>3, <1>4, <1>5, <1>6

\* One lease is handed back.
HandsBack(w, d, c) ==
    Becomes(w, [proc[w] EXCEPT !.drain[d].rel = {x \in @ : x.id # c.id},
                               !.drain[d].err = @ \/ faults' # faults])

\* It leaves the list, with any other claim of its event.
LEMMA ReleaseFields ==
  ASSUME proc \in [Workers -> Process], NEW w \in Workers, NEW d \in Releasers, NEW c,
         HandsBack(w, d, c)
  PROVE  /\ proc'[w].drain[d].st = proc[w].drain[d].st
         /\ proc'[w].drain[d].rel = {x \in proc[w].drain[d].rel : x.id # c.id}
         /\ proc[w].drain[d].err => proc'[w].drain[d].err
         /\ \A b \in Releasers \ {d} : proc'[w].drain[b] = proc[w].drain[b]
         /\ proc'[w].loop = proc[w].loop /\ proc'[w].at = proc[w].at
         /\ proc'[w].cur = proc[w].cur /\ proc'[w].stopping = proc[w].stopping
         /\ KeepsClaims(proc[w], proc'[w]) /\ KeepsRequests(proc[w], proc'[w]) /\ Only(w)
<1> DEFINE P == proc[w]
           q == proc'[w]
           R == {x \in P.drain[d].rel : x.id # c.id}
           r == P.drain[d].err \/ faults' # faults
           D == [P.drain[d] EXCEPT !.rel = R, !.err = r]
           A == [P.drain EXCEPT ![d] = D]
<1>1. P \in Process /\ P.drain \in [Releasers -> Drain] /\ P.drain[d] \in Drain
  BY ProcessFields
<1>a. Becomes(w, [P EXCEPT !.drain = A])
  BY <1>1 DEF HandsBack
<1>2. q = [P EXCEPT !.drain = A] /\ Only(w)
  BY <1>a, OthersStay
<1>3. P.drain[d].err => r
  OBVIOUS
<1> HIDE DEF R, r
<1>4. D.st = P.drain[d].st /\ D.rel = R /\ D.err = r
  BY <1>1 DEF Drain
<1> HIDE DEF D
<1>5. A[d] = D /\ \A b \in Releasers \ {d} : A[b] = P.drain[b]
  BY <1>1
<1> HIDE DEF A
<1>6. /\ q.drain = A /\ q.loop = P.loop /\ q.at = P.at /\ q.cur = P.cur
      /\ q.stopping = P.stopping /\ KeepsClaims(P, q) /\ KeepsRequests(P, q)
  BY <1>1, <1>2 DEF Process, KeepsClaims, KeepsRequests
<1> QED  BY <1>2, <1>3, <1>4, <1>5, <1>6 DEF R

\* A drain is complete.
LEMMA DrainEndFields ==
  ASSUME proc \in [Workers -> Process], NEW w \in Workers, NEW d \in Releasers, DrainEnd(w, d)
  PROVE  /\ proc[w].drain[d].st = "release" /\ proc'[w].drain[d].st = "done"
         /\ proc[w].drain[d].rel = {} /\ proc'[w].drain[d].rel = {}
         /\ proc[w].drain[d].err => proc'[w].drain[d].err
         /\ \A b \in Releasers \ {d} : proc'[w].drain[b] = proc[w].drain[b]
         /\ IF d = "loop" THEN proc'[w].loop = "ended" ELSE proc'[w].loop = proc[w].loop
         /\ proc'[w].at = proc[w].at
         /\ proc'[w].cur = proc[w].cur /\ proc'[w].stopping = proc[w].stopping
         /\ KeepsClaims(proc[w], proc'[w]) /\ KeepsRequests(proc[w], proc'[w]) /\ Only(w)
<1> DEFINE P == proc[w]
           q == proc'[w]
           r == P.drain[d].err \/ P.relErr
           l == IF d = "loop" THEN "ended" ELSE P.loop
           D == [P.drain[d] EXCEPT !.st = "done", !.err = r]
           A == [P.drain EXCEPT ![d] = D]
<1>1. P \in Process /\ P.drain \in [Releasers -> Drain] /\ P.drain[d] \in Drain
  BY ProcessFields
<1>a. /\ Becomes(w, [P EXCEPT !.drain = A, !.relErr = r, !.loop = l])
      /\ P.drain[d].st = "release" /\ P.drain[d].rel = {}
  BY <1>1, ZenonT(60) DEF DrainEnd
<1>2. q = [P EXCEPT !.drain = A, !.relErr = r, !.loop = l] /\ Only(w)
  BY <1>a, OthersStay
<1>3. (P.drain[d].err => r) /\ (IF d = "loop" THEN l = "ended" ELSE l = P.loop)
  OBVIOUS
<1> HIDE DEF r, l
<1>4. D.st = "done" /\ D.rel = P.drain[d].rel /\ D.err = r
  BY <1>1 DEF Drain
<1> HIDE DEF D
<1>5. A[d] = D /\ \A b \in Releasers \ {d} : A[b] = P.drain[b]
  BY <1>1
<1> HIDE DEF A
<1>6. /\ q.drain = A /\ q.loop = l /\ q.at = P.at /\ q.cur = P.cur
      /\ q.stopping = P.stopping /\ KeepsClaims(P, q) /\ KeepsRequests(P, q)
  BY <1>1, <1>2 DEF Process, KeepsClaims, KeepsRequests
<1> QED  BY <1>a, <1>2, <1>3, <1>4, <1>5, <1>6

\* A process that ends, or starts, remembers nothing.
LEMMA FreshFields ==
  ASSUME NEW s \in LoopStates
  PROVE  /\ Fresh(s).loop = s /\ Fresh(s).batch = {} /\ Fresh(s).pending = {}
         /\ Fresh(s).cur = {} /\ Fresh(s).flights = {} /\ Fresh(s).tracked = {}
         /\ Fresh(s).used = 0 /\ Fresh(s).lused = [l \in Listeners |-> 0]
         /\ Fresh(s).cancelled = FALSE /\ Fresh(s).stopping = FALSE
         /\ \A d \in Releasers : /\ Fresh(s).drain[d].st = "off" /\ Fresh(s).drain[d].rel = {}
                                 /\ Fresh(s).drain[d].err = FALSE
  BY DEF Fresh, NotDraining

\* Starts and ends of a process.
LEMMA FreshStep ==
  ASSUME proc \in [Workers -> Process], NEW w \in Workers,
         exit \in [Workers -> {"none", "clean", "error", "crash"}],
         Start(w) \/ Exit(w) \/ ServerShutdownFails(w) \/ Crash(w)
  PROVE  /\ Only(w)
         /\ \/ proc'[w] = Fresh("idle") /\ proc[w].loop = "down"
            \/ proc'[w] = Fresh("down") /\ exit'[w] # "none"
         /\ \A v \in Workers \ {w} : exit'[v] = exit[v]
<1>1. CASE Start(w)
  BY <1>1, OthersStay DEF Start, Up
<1>2. ASSUME NEW how \in {"clean", "error", "crash"}, Ends(w, how)
      PROVE  /\ Only(w) /\ proc'[w] = Fresh("down") /\ exit'[w] # "none"
             /\ \A v \in Workers \ {w} : exit'[v] = exit[v]
  BY <1>2, OthersStay DEF Ends
<1> QED  BY <1>1, <1>2 DEF Exit, ServerShutdownFails, Crash

-------------------------------------------------------------------------------
(* Where a process keeps its claims, by control point.                     *)

Drainers == {"loop", "cli"}

\* No batch outlives its cycle, nothing is retained within one; the loop
\* stands still while it drains; a release list is filled only while it is
\* being worked off; a slot is held for one event of the visited listener.
TidyClaims(p) ==
    /\ IF p.loop \in Resting THEN p.batch = {} ELSE p.pending = {}
    /\ p.loop = "down" => p = Fresh("down")

TidyDrains(p) ==
    /\ p.loop # "release" => p.drain["retain"].rel = {}
    /\ p.drain["loop"].st \in {"wait", "release"} => p.loop = "drain"
    /\ \A d \in Drainers : /\ p.drain[d].st # "off" => p.stopping
                           /\ p.drain[d].st # "release" => p.drain[d].rel = {}

TidySlot(p) ==
    IF p.loop = "track"
    THEN \E c \in p.batch : p.cur = {c} /\ ListenerOf[c.id] = Order[p.at]
    ELSE p.cur = {}

Tidy(p) == TidyClaims(p) /\ TidyDrains(p) /\ TidySlot(p)

\* A new memory is in order.
LEMMA FreshTidy ==
  ASSUME NEW s \in {"idle", "down"} PROVE Tidy(Fresh(s))
<1>1. s \in LoopStates
  BY DEF LoopStates
<1> QED  BY <1>1, FreshFields DEF Tidy, TidyClaims, TidyDrains, TidySlot, Resting, Drainers, Releasers

\* The steps of the loop keep it in order.
LEMMA LoopTidy ==
  ASSUME proc \in [Workers -> Process], faults \in Nat, NEW w \in Workers,
         Tidy(proc[w]), LoopStep(w)
  PROVE  Tidy(proc'[w])
<1> DEFINE P == proc[w]
           q == proc'[w]
<1>0. "retain" \in Releasers /\ Drainers \subseteq Releasers \ {"retain"}
  BY DEF Releasers, Drainers
<1>1. CASE Turns(P, q)
  <2>1. Still(P, q)
    BY <1>1 DEF Turns
  <2>2. CASE q.loop = P.loop /\ q.at = P.at
    BY <1>1, <2>1, <2>2 DEF Turns, Tidy, TidyClaims, TidyDrains, TidySlot, Still, KeepsClaims, KeepsDrain
  <2>3. CASE /\ P.loop \notin {"track", "release", "drain"}
             /\ q.loop \notin {"track", "release", "drain"}
             /\ P.loop \in Resting <=> q.loop \in Resting
    BY <1>1, <2>1, <2>3 DEF Turns, Tidy, TidyClaims, TidyDrains, TidySlot, Still, KeepsClaims, KeepsDrain
  <2>4. CASE P.loop = "visit" /\ q.loop = "idle" /\ P.batch = {}
    BY <1>1, <2>1, <2>4 DEF Turns, Tidy, TidyClaims, TidyDrains, TidySlot, Still, KeepsClaims, KeepsDrain, Resting
  <2> QED  BY <1>1, <2>2, <2>3, <2>4 DEF Turns
<1>2. CASE TakePending(w)
  BY <1>2, TakeFields DEF Tidy, TidyClaims, TidyDrains, TidySlot, Resting, KeepsDrain
<1>3. CASE ClaimBatch(w)
  <2>1. P.loop = "claim"
    BY <1>3 DEF ClaimBatch
  <2>2. /\ q.loop = "visit" /\ q.pending = P.pending /\ q.cur = P.cur /\ KeepsDrain(P, q)
    BY <1>3, ClaimFields DEF ClaimBatch
  <2> QED  BY <2>1, <2>2 DEF Tidy, TidyClaims, TidyDrains, TidySlot, Resting, KeepsDrain
<1>4. CASE VisitUnknown(w) \/ VisitOversize(w)
  <2>1. P.loop = "visit"
    BY <1>4 DEF VisitUnknown, VisitOversize, Visiting
  <2>2. q.loop = P.loop /\ q.pending = P.pending /\ q.cur = P.cur /\ KeepsDrain(P, q)
    BY <1>4, ConsumeFields DEF VisitUnknown, VisitOversize
  <2> QED  BY <2>1, <2>2 DEF Tidy, TidyClaims, TidyDrains, TidySlot, Resting, KeepsDrain
<1>5. CASE Acquire(w)
  <2>1. /\ P.loop = "visit" /\ q.loop = "track" /\ q.at = P.at
        /\ \E c \in P.batch : ListenerOf[c.id] = Order[P.at] /\ q.cur = {c}
        /\ KeepsClaims(P, q) /\ KeepsDrain(P, q)
    BY <1>5, AcquireFields
  <2>2. TidyClaims(q)
    BY <2>1 DEF Tidy, TidyClaims, Resting, KeepsClaims
  <2>3. TidyDrains(q)
    BY <2>1 DEF Tidy, TidyDrains, KeepsDrain
  <2>4. TidySlot(q)
    BY <2>1 DEF TidySlot, KeepsClaims
  <2> QED  BY <2>2, <2>3, <2>4 DEF Tidy
<1>6. CASE Track(w)
  BY <1>6, TrackFields DEF Tidy, TidyClaims, TidyDrains, TidySlot, Resting, KeepsDrain
<1>7. CASE TrackRefused(w)
  <2>1. /\ P.loop = "track" /\ q.loop = "visit" /\ q.cur = {}
        /\ KeepsClaims(P, q) /\ KeepsDrain(P, q)
    BY <1>7, RefusedFields
  <2>2. TidyClaims(q)
    BY <2>1 DEF Tidy, TidyClaims, Resting, KeepsClaims
  <2>3. TidyDrains(q) /\ TidySlot(q)
    BY <2>1 DEF Tidy, TidyDrains, TidySlot, KeepsDrain
  <2> QED  BY <2>2, <2>3 DEF Tidy
<1>8. CASE RetainCheck(w)
  <2>1. /\ P.loop = "retain" /\ q.stopping = P.stopping /\ q.pending = P.pending
        /\ q.cur = P.cur /\ \A d \in Drainers : q.drain[d] = P.drain[d]
        /\ \/ q.loop = "release" /\ q.batch = {}
           \/ q.loop = "store" /\ q.drain["retain"] = P.drain["retain"]
    BY <1>0, <1>8, RetainFields
  <2>2. TidyClaims(q)
    BY <2>1 DEF Tidy, TidyClaims, Resting
  <2>3. TidyDrains(q) /\ TidySlot(q)
    BY <2>1 DEF Tidy, TidyDrains, TidySlot, Drainers
  <2> QED  BY <2>2, <2>3 DEF Tidy
<1>9. CASE Store(w)
  BY <1>9, StoreFields DEF Tidy, TidyClaims, TidyDrains, TidySlot, Resting, KeepsDrain
<1>10. CASE RetainReleased(w)
  <2>1. /\ P.loop = "release" /\ q.loop \in {"idle", "ended", "backoff"}
        /\ q.drain["retain"].rel = {} /\ \A d \in Drainers : q.drain[d] = P.drain[d]
        /\ q.stopping = P.stopping /\ q.cur = P.cur /\ KeepsClaims(P, q)
    BY <1>0, <1>10, RetainReleasedFields
  <2>2. TidyClaims(q)
    BY <2>1 DEF Tidy, TidyClaims, Resting, KeepsClaims
  <2>3. TidyDrains(q) /\ TidySlot(q)
    BY <2>1 DEF Tidy, TidyDrains, TidySlot, Drainers
  <2> QED  BY <2>2, <2>3 DEF Tidy
<1> QED  BY <1>1, <1>2, <1>3, <1>4, <1>5, <1>6, <1>7, <1>8, <1>9, <1>10, TurnFields
         DEF LoopStep

\* So do requests, drains, signals, starts and ends.
LEMMA OtherTidy ==
  ASSUME proc \in [Workers -> Process], faults \in Nat, NEW w \in Workers, Tidy(proc[w]),
         exit \in [Workers -> {"none", "clean", "error", "crash"}],
         \/ \E f \in proc[w].flights : FlightStep(w, f)
         \/ \E d \in Releasers : DrainStep(w, d)
         \/ ProcessStep(w)
  PROVE  Tidy(proc'[w])
<1> DEFINE P == proc[w]
           q == proc'[w]
<1>0. P.loop = "down" => /\ P.flights = {} /\ P.cancelled = FALSE
                         /\ \A d \in Releasers : P.drain[d].st = "off"
  <2>1. "down" \in LoopStates
    BY DEF LoopStates
  <2>2. LET F == Fresh("down")
        IN  F.flights = {} /\ F.cancelled = FALSE /\ \A d \in Releasers : F.drain[d].st = "off"
    BY <2>1, FreshFields
  <2>3. P.loop = "down" => P = Fresh("down")
    BY DEF Tidy, TidyClaims
  <2> QED  BY <2>2, <2>3
<1>1. CASE \E f \in P.flights : FlightStep(w, f)
  <2>1. PICK f \in P.flights : FlightStep(w, f)
    BY <1>1
  <2>2. /\ q.loop = P.loop /\ q.at = P.at /\ q.cur = P.cur
        /\ KeepsClaims(P, q) /\ KeepsDrain(P, q)
    BY <2>1, MoveFields, FinishFields DEF FlightStep, Refuse, Respond, SettleFlight
  <2> QED  BY <1>0, <2>1, <2>2 DEF Tidy, TidyClaims, TidyDrains, TidySlot, KeepsClaims, KeepsDrain
<1>2. ASSUME NEW d \in Releasers, DrainStep(w, d) PROVE Tidy(q)
  <2>0. "retain" \in Releasers /\ Drainers = Releasers \ {"retain"}
    BY DEF Releasers, Drainers
  <2>1. CASE d # "retain" /\ BeginDrain(w, d)
    <3>1. /\ P.cancelled /\ P.drain[d].st = "off" /\ q.stopping /\ q.drain[d].st = "wait"
          /\ q.drain[d].rel = P.drain[d].rel
          /\ \A b \in Releasers \ {d} : q.drain[b] = P.drain[b]
          /\ q.loop = P.loop \/ (P.loop = "idle" /\ q.loop = "drain")
          /\ d = "loop" => q.loop = "drain"
          /\ q.at = P.at /\ q.cur = P.cur /\ KeepsClaims(P, q)
      BY <2>1, BeginDrainFields
    <3>2. TidyClaims(q)
      BY <1>0, <3>1 DEF Tidy, TidyClaims, Resting, KeepsClaims
    <3>3. TidyDrains(q)
      BY <2>0, <2>1, <3>1 DEF Tidy, TidyDrains, Drainers
    <3>4. TidySlot(q)
      BY <3>1 DEF Tidy, TidySlot, KeepsClaims
    <3> QED  BY <3>2, <3>3, <3>4 DEF Tidy
  <2>2. CASE d # "retain" /\ DrainWaited(w, d)
    BY <1>0, <2>0, <2>2, DrainWaitedFields DEF Tidy, TidyClaims, TidyDrains, TidySlot, Resting, Drainers
  <2>3. CASE d # "retain" /\ DrainEnd(w, d)
    BY <1>0, <2>0, <2>3, DrainEndFields DEF Tidy, TidyClaims, TidyDrains, TidySlot, Resting, KeepsClaims, Drainers
  <2>4. CASE ReleaseOne(w, d)
    <3>1. PICK c \in P.drain[d].rel : HandsBack(w, d, c)
      BY <2>4 DEF ReleaseOne, HandsBack
    <3>2. /\ q.drain[d].st = P.drain[d].st
          /\ q.drain[d].rel = {x \in P.drain[d].rel : x.id # c.id}
          /\ \A b \in Releasers \ {d} : q.drain[b] = P.drain[b]
          /\ q.loop = P.loop /\ q.at = P.at /\ q.cur = P.cur /\ q.stopping = P.stopping
          /\ KeepsClaims(P, q)
      BY <3>1, ReleaseFields
    <3>3. P.drain[d].st = "release"
      BY <2>4 DEF ReleaseOne
    <3>4. TidyClaims(q)
      BY <1>0, <3>2, <3>3 DEF Tidy, TidyClaims, KeepsClaims
    <3>5. TidyDrains(q)
      BY <2>0, <3>2, <3>3 DEF Tidy, TidyDrains, Drainers
    <3>6. TidySlot(q)
      BY <3>2 DEF Tidy, TidySlot, KeepsClaims
    <3> QED  BY <3>4, <3>5, <3>6 DEF Tidy
  <2> QED  BY <1>2, <2>1, <2>2, <2>3, <2>4 DEF DrainStep
<1>3. CASE Shutdown(w)
  <2>1. Turns(P, q)
    BY <1>3, TurnFields
  <2>2. q.loop = P.loop /\ q.at = P.at
    <3>1. P \in Process /\ q = [P EXCEPT !.cancelled = TRUE]
      BY <1>3, OthersStay DEF Shutdown
    <3> QED  BY <3>1 DEF Process
  <2> QED  BY <2>1, <2>2 DEF Turns, Tidy, TidyClaims, TidyDrains, TidySlot, Still, KeepsClaims, KeepsDrain
<1>4. CASE ProcessStep(w) /\ ~Shutdown(w)
  BY <1>4, FreshStep, FreshTidy DEF ProcessStep
<1> QED  BY <1>1, <1>2, <1>3, <1>4

-------------------------------------------------------------------------------
(* The claims a process remembers were granted to it.                      *)

\* A claim anywhere in the memory of a process.
Remembers(p, c) ==
    \/ c \in p.batch \/ c \in p.pending \/ c \in p.tracked
    \/ \E f \in p.flights : f.c = c
    \/ \E d \in Releasers : c \in p.drain[d].rel

\* Its event was logged, it is not ahead of the claims granted so far, and
\* its attempt is one of them.
Granted(c) ==
    /\ c.id \in log \cup dropped
    /\ c.token <= issued[c.id]
    /\ c.attempt \in 1..c.token

\* The one event tryAcquire has taken becomes the one request tracked.
LEMMA TrackedClaim ==
  ASSUME NEW w \in Workers, Tidy(proc[w]), proc[w].loop = "track"
  PROVE  \E c \in proc[w].batch :
            /\ proc[w].cur = {c} /\ ListenerOf[c.id] = Order[proc[w].at]
            /\ Started(proc[w].cur) = {[c |-> c, stage |-> "send", verdict |-> "none"]}
            /\ \A f \in Started(proc[w].cur) : f.c = c
  BY DEF Tidy, TidySlot, Started

\* Only a claim brings new claims into a process.
LEMMA NothingNew ==
  ASSUME proc \in [Workers -> Process], faults \in Nat, NEW w \in Workers, Tidy(proc[w]),
         exit \in [Workers -> {"none", "clean", "error", "crash"}],
         \/ LoopStep(w) /\ ~ClaimBatch(w)
         \/ \E f \in proc[w].flights : FlightStep(w, f)
         \/ \E d \in Releasers : DrainStep(w, d)
         \/ ProcessStep(w),
         NEW c, Remembers(proc'[w], c)
  PROVE  Remembers(proc[w], c)
<1> DEFINE P == proc[w]
           q == proc'[w]
<1>0. "retain" \in Releasers
  BY DEF Releasers
<1>1. CASE Turns(P, q)
  BY <1>1 DEF Turns, Still, KeepsClaims, KeepsRequests, KeepsDrain, Remembers
<1>2. CASE TakePending(w)
  <2>1. /\ q.batch \subseteq P.pending /\ q.pending = {}
        /\ KeepsRequests(P, q) /\ KeepsDrain(P, q)
    BY <1>2, TakeFields
  <2> QED  BY <2>1 DEF Remembers, KeepsRequests, KeepsDrain
<1>3. CASE VisitUnknown(w) \/ VisitOversize(w)
  <2>1. PICK x, reason : Consume(w, x, reason)
    BY <1>3 DEF VisitUnknown, VisitOversize
  <2>2. /\ q.batch = P.batch \ {x} /\ q.pending = P.pending
        /\ KeepsRequests(P, q) /\ KeepsDrain(P, q)
    BY <2>1, ConsumeFields
  <2> QED  BY <2>2 DEF Remembers, KeepsRequests, KeepsDrain
<1>4. CASE Acquire(w) \/ TrackRefused(w)
  <2>1. /\ KeepsClaims(P, q) /\ KeepsDrain(P, q)
        /\ q.flights = P.flights /\ q.tracked = P.tracked
    BY <1>4, AcquireFields, RefusedFields
  <2> QED  BY <2>1 DEF Remembers, KeepsClaims, KeepsDrain
<1>5. CASE Track(w)
  <2>1. /\ P.loop = "track" /\ q.batch = P.batch \ P.cur /\ q.pending = P.pending
        /\ q.flights = P.flights \cup Started(P.cur) /\ q.tracked = P.tracked \cup P.cur
        /\ KeepsDrain(P, q)
    BY <1>5, TrackFields
  <2>2. PICK x \in P.batch : P.cur = {x} /\ \A f \in Started(P.cur) : f.c = x
    BY <2>1, TrackedClaim
  <2>3. \A f \in q.flights : f \in P.flights \/ f.c = x
    BY <2>1, <2>2
  <2> QED  BY <2>1, <2>2, <2>3 DEF Remembers, KeepsDrain
<1>6. CASE RetainCheck(w)
  <2>1. /\ q.pending = P.pending /\ KeepsRequests(P, q)
        /\ \A d \in Releasers \ {"retain"} : q.drain[d] = P.drain[d]
        /\ \/ q.batch = {} /\ q.drain["retain"].rel = P.batch
           \/ q.batch = P.batch /\ q.drain["retain"] = P.drain["retain"]
    BY <1>6, RetainFields
  <2> QED  BY <1>0, <2>1 DEF Remembers, KeepsRequests
<1>7. CASE Store(w)
  <2>1. /\ q.pending = P.pending \cup P.batch /\ q.batch = {}
        /\ KeepsRequests(P, q) /\ KeepsDrain(P, q)
    BY <1>7, StoreFields
  <2> QED  BY <2>1 DEF Remembers, KeepsRequests, KeepsDrain
<1>8. CASE RetainReleased(w)
  <2>1. /\ KeepsClaims(P, q) /\ KeepsRequests(P, q) /\ q.drain["retain"].rel = {}
        /\ \A d \in Releasers \ {"retain"} : q.drain[d] = P.drain[d]
    BY <1>8, RetainReleasedFields
  <2> QED  BY <1>0, <2>1 DEF Remembers, KeepsClaims, KeepsRequests
<1>9. ASSUME NEW f \in P.flights, FlightStep(w, f) PROVE Remembers(P, c)
  <2>1. CASE Finish(w, f)
    <3>1. /\ q.flights = P.flights \ {f} /\ (\E x \in P.tracked : q.tracked = P.tracked \ {x})
          /\ KeepsClaims(P, q) /\ KeepsDrain(P, q)
      BY <2>1, FinishFields
    <3> QED  BY <3>1 DEF Remembers, KeepsClaims, KeepsDrain
  <2>2. ASSUME NEW g, Move(w, f, g), g.c = f.c PROVE Remembers(P, c)
    <3>1. /\ q.flights = (P.flights \ {f}) \cup {g} /\ q.tracked = P.tracked
          /\ KeepsClaims(P, q) /\ KeepsDrain(P, q)
      BY <2>2, MoveFields
    <3> QED  BY <2>2, <3>1 DEF Remembers, KeepsClaims, KeepsDrain
  <2>3. f \in Flight
    BY ProcessFields
  <2>4. CASE Refuse(w, f) \/ Respond(w, f) \/ SettleFlight(w, f)
    <3>1. ASSUME NEW s, NEW v PROVE [f EXCEPT !.stage = s, !.verdict = v].c = f.c
      BY <2>3 DEF Flight
    <3>2. [f EXCEPT !.stage = "finish"].c = f.c
      BY <2>3 DEF Flight
    <3>3. \E g : Move(w, f, g) /\ g.c = f.c
      BY <2>4, <3>1, <3>2 DEF Refuse, Respond, SettleFlight
    <3> QED  BY <2>2, <3>3
  <2> QED  BY <1>9, <2>1, <2>4 DEF FlightStep
<1>10. ASSUME NEW d \in Releasers, DrainStep(w, d) PROVE Remembers(P, c)
  <2>1. CASE BeginDrain(w, d) \/ DrainEnd(w, d)
    <3>1. /\ KeepsClaims(P, q) /\ KeepsRequests(P, q) /\ q.drain[d].rel = P.drain[d].rel
          /\ \A b \in Releasers \ {d} : q.drain[b] = P.drain[b]
      <4>1. CASE BeginDrain(w, d)
        BY <4>1, BeginDrainFields
      <4>2. CASE DrainEnd(w, d)
        <5>1. /\ KeepsClaims(P, q) /\ KeepsRequests(P, q)
              /\ q.drain[d].rel = {} /\ P.drain[d].rel = {}
              /\ \A b \in Releasers \ {d} : q.drain[b] = P.drain[b]
          BY <4>2, DrainEndFields
        <5> QED  BY <5>1
      <4> QED  BY <2>1, <4>1, <4>2
    <3> QED  BY <3>1 DEF Remembers, KeepsClaims, KeepsRequests
  <2>2. CASE DrainWaited(w, d)
    <3>1. /\ q.drain[d].rel = P.tracked \cup P.pending /\ KeepsRequests(P, q)
          /\ \A b \in Releasers \ {d} : q.drain[b] = P.drain[b]
          /\ q.pending = {} /\ q.batch = P.batch
      BY <2>2, DrainWaitedFields
    <3> QED  BY <3>1 DEF Remembers, KeepsRequests
  <2>3. CASE ReleaseOne(w, d)
    <3>1. PICK x : HandsBack(w, d, x)
      BY <2>3 DEF ReleaseOne, HandsBack
    <3>2. /\ q.drain[d].rel = {y \in P.drain[d].rel : y.id # x.id}
          /\ \A b \in Releasers \ {d} : q.drain[b] = P.drain[b]
          /\ KeepsClaims(P, q) /\ KeepsRequests(P, q)
      BY <3>1, ReleaseFields
    <3> QED  BY <3>2 DEF Remembers, KeepsClaims, KeepsRequests
  <2> QED  BY <1>10, <2>1, <2>2, <2>3 DEF DrainStep
<1>11. CASE ProcessStep(w) /\ ~Shutdown(w)
  <2>1. q = Fresh("idle") \/ q = Fresh("down")
    BY <1>11, FreshStep DEF ProcessStep
  <2>2. PICK s \in LoopStates : q = Fresh(s)
    BY <2>1 DEF LoopStates
  <2>3. /\ q.batch = {} /\ q.pending = {} /\ q.flights = {} /\ q.tracked = {}
        /\ \A d \in Releasers : q.drain[d].rel = {}
    BY <2>2, FreshFields
  <2> HIDE DEF q
  <2>4. Remembers(q, c)
    BY DEF q
  <2> QED  BY <2>3, <2>4 DEF Remembers
<1> QED  BY <1>1, <1>2, <1>3, <1>4, <1>5, <1>6, <1>7, <1>8, <1>9, <1>10, <1>11, TurnFields
         DEF LoopStep, ProcessStep

\* Whatever the system does, it does one adapter operation at a time.
LEMMA NextTables ==
  ASSUME IInv, Next
  PROVE  QStep \/ UNCHANGED qvars
<1>1. QInv /\ faults \in Nat /\ proc \in [Workers -> Process]
  BY DEF IInv, TypeOK
<1>2. ASSUME NEW w \in Workers, NEW c \in Claim, NEW v, SettleCall(w, c, v)
      PROVE  QStep \/ UNCHANGED qvars
  <2>1. c.id \in Events /\ c.attempt \in Nat
    BY DEF Claim
  <2> QED  BY <1>1, <1>2, <2>1, SettleEffect DEF Keeping, QStep
<1>3. ASSUME NEW w \in Workers, LoopStep(w) PROVE QStep \/ UNCHANGED qvars
  <2>1. CASE VisitUnknown(w) \/ VisitOversize(w)
    <3>1. PICK c \in Heads(w), reason \in DeadReasons : SettleCall(w, c, reason)
      BY <2>1 DEF VisitUnknown, VisitOversize, Consume, DeadReasons
    <3>2. c \in Claim
      BY <1>1, ProcessFields DEF Heads
    <3> QED  BY <1>2, <3>1, <3>2
  <2>2. CASE Sweep(w)
    BY <2>2 DEF Sweep, QStep
  <2>3. CASE ClaimBatch(w) \/ ClaimLost(w)
    BY <1>1, <2>3, ClaimKeepsRows DEF ClaimBatch, ClaimLost, Keeping
  <2> QED  BY <1>3, <2>1, <2>2, <2>3 DEF LoopStep, Poll, BeginClaim, SkipClaim, VisitNone,
              VisitBlocked, Acquire, Track, TrackRefused, RoundEnd, RetainCheck, Store,
              RetainReleased, Supervise, DatabaseError, TakePending
<1>4. ASSUME NEW w \in Workers, NEW f \in proc[w].flights, FlightStep(w, f)
      PROVE  QStep \/ UNCHANGED qvars
  <2>1. f.c \in Claim
    BY <1>1, ProcessFields DEF Flight
  <2> QED  BY <1>2, <1>4, <2>1 DEF FlightStep, Refuse, Respond, SettleFlight, Finish
<1>5. ASSUME NEW w \in Workers, NEW d \in Releasers, DrainStep(w, d)
      PROVE  QStep \/ UNCHANGED qvars
  <2>1. CASE ReleaseOne(w, d)
    <3>1. PICK c \in proc[w].drain[d].rel : UNCHANGED qvars \/ Nack(w, c.id, c.attempt, TRUE)
      BY <2>1 DEF ReleaseOne
    <3>2. proc[w].drain[d] \in Drain
      BY <1>1, ProcessFields
    <3>3. c.id \in Events /\ c.attempt \in Nat
      BY <3>2 DEF Drain, Claim
    <3> QED  BY <3>1, <3>3 DEF QStep
  <2> QED  BY <1>5, <2>1 DEF DrainStep, BeginDrain, DrainWaited, DrainEnd
<1>6. ASSUME NEW w \in Workers, ProcessStep(w) PROVE UNCHANGED qvars
  BY <1>6 DEF ProcessStep, Start, Shutdown, Exit, ServerShutdownFails, Crash
<1>7. CASE Surroundings \/ \E e \in Events : DueTime(e) \/ LeaseRunsOut(e)
  BY <1>1, <1>7, SurroundingsKeep DEF Surroundings, DueTime, LeaseRunsOut, Keeping
<1> QED  BY <1>3, <1>4, <1>5, <1>6, <1>7 DEF Next

\* An event is either retained or dropped.
KeptOrDropped == log \cap dropped = {}

\* Events are never forgotten altogether, nor claims taken back.
LEMMA TablesGrow ==
  ASSUME QInv, KeptOrDropped, QStep \/ UNCHANGED qvars
  PROVE  /\ log \cup dropped \subseteq log' \cup dropped'
         /\ \A e \in Events : issued[e] <= issued'[e]
         /\ KeptOrDropped'
<1>1. issued \in [Events -> Nat] /\ log \subseteq Events /\ dropped \subseteq Events
  BY DEF QInv, QTypeOK
<1>2. CASE UNCHANGED qvars
  BY <1>1, <1>2 DEF qvars, KeptOrDropped
<1>3. ASSUME NEW w \in Workers, NEW S \in SUBSET Claimable, ClaimRows(w, S)
      PROVE  UNCHANGED <<log, dropped>> /\ \A e \in Events : issued[e] <= issued'[e]
  <2>1. issued' = [e \in Events |-> IF e \in S THEN issued[e] + 1 ELSE issued[e]]
    BY <1>3 DEF ClaimRows
  <2>2. \A e \in Events : issued[e] \in Nat
    BY <1>1
  <2>3. \A e \in Events : issued[e] <= issued'[e]
    BY <2>1, <2>2
  <2> QED  BY <1>3, <2>3 DEF ClaimRows
<1>4. ASSUME NEW e \in Events, Enqueue(e)
      PROVE  log' = log \cup {e} /\ e \notin dropped /\ UNCHANGED <<dropped, issued>>
  BY <1>4 DEF Enqueue
<1>5. ASSUME NEW P \in SUBSET Events, DropPartition(P)
      PROVE  log' = log \ P /\ dropped' = dropped \cup (P \cap log) /\ UNCHANGED issued
  BY <1>5 DEF DropPartition
<1>6. CASE UNCHANGED <<log, dropped, issued>>
  BY <1>1, <1>6 DEF KeptOrDropped
<1>7. QStep => \/ \E w \in Workers, S \in SUBSET Claimable : ClaimRows(w, S)
               \/ \E e \in Events : Enqueue(e)
               \/ \E P \in SUBSET Events : DropPartition(P)
               \/ UNCHANGED <<log, dropped, issued>>
  BY DEF QStep, BecomeDue, LeaseExpires, Ack, Nack, Dead, Settle, ReclaimExpired, RetryBatch
<1> QED  BY <1>1, <1>2, <1>3, <1>4, <1>5, <1>6, <1>7 DEF KeptOrDropped

\* The claims of one process.
AllGranted(p) == \A c : Remembers(p, c) => Granted(c)

\* What Claim answers was granted.
LEMMA ClaimGranted ==
  ASSUME QInv, NEW w \in Workers, NEW S \in ClaimSets, ClaimRows(w, S),
         NEW c \in ClaimedEvents(S)
  PROVE  /\ c \in Claim /\ c.id \in S /\ c.id \in log /\ c.token = issued[c.id] + 1
         /\ c.token = issued'[c.id] /\ Granted(c)'
<1>1. S \subseteq Events /\ issued \in [Events -> Nat] /\ QTypeOK
  BY DEF ClaimSets, Claimable, QInv, QTypeOK
<1>2. PICK e \in S \cap log :
        c = [id |-> e, attempt |-> queue[e].attempts + 1,
             token |-> issued[e] + 1, epoch |-> resets[e]]
  BY DEF ClaimedEvents
<1>3. c.id = e /\ c.token = issued[e] + 1
  BY <1>2
<1>4. log' = log /\ issued'[e] = issued[e] + 1
  BY <1>1, <1>2 DEF ClaimRows
<1>5. c \in Claim
  BY <1>1, ClaimedType
<1>6. issued[e] + 1 \in Nat
  BY <1>1, <1>2
<1>7. c.attempt \in 1..c.token
  <2>1. queue[e] \in Row /\ issued[e] \in Nat /\ queue[e].attempts <= issued[e]
    BY <1>1, <1>2 DEF QInv, QTypeOK, AttemptsAreClaims
  <2>2. queue[e].attempts \in Nat
    BY <2>1 DEF Row
  <2>3. queue[e].attempts + 1 \in 1..(issued[e] + 1)
    BY <2>1, <2>2
  <2> QED  BY <1>2, <2>3
<1> QED  BY <1>2, <1>3, <1>4, <1>5, <1>6, <1>7 DEF Granted

\* Claims stay granted whatever happens to the tables.
LEMMA GrantedStays ==
  ASSUME QInv, KeptOrDropped, QStep \/ UNCHANGED qvars, NEW c \in Claim, Granted(c)
  PROVE  Granted(c)'
<1>1. /\ log \cup dropped \subseteq log' \cup dropped'
      /\ \A e \in Events : issued[e] <= issued'[e]
  BY TablesGrow
<1>2. c.id \in Events /\ c.token \in Nat
  BY DEF Claim
<1>3. issued[c.id] \in Nat /\ issued'[c.id] \in Nat
  <2>1. QInv'
    BY QStepKeeps, StutterKeeps
  <2> QED  BY <1>2, <2>1 DEF QInv, QTypeOK
<1> QED  BY <1>1, <1>2, <1>3 DEF Granted

\* What a process remembers are claims.
LEMMA RemembersClaims ==
  ASSUME NEW p \in Process, NEW c, Remembers(p, c)
  PROVE  c \in Claim
<1>1. \A d \in Releasers : p.drain[d].rel \subseteq Claim
  BY ProcessFields DEF Drain
<1>2. \A f \in p.flights : f.c \in Claim
  BY ProcessFields DEF Flight
<1> QED  BY <1>1, <1>2, ProcessFields DEF Remembers

-------------------------------------------------------------------------------
(* The first layer of the invariant.                                       *)

CInv ==
    /\ IInv
    /\ KeptOrDropped
    /\ \A w \in Workers : Tidy(proc[w]) /\ AllGranted(proc[w])

\* The only steps of the system that change a process.
ProcStep(w) ==
    \/ LoopStep(w)
    \/ \E f \in proc[w].flights : FlightStep(w, f)
    \/ \E d \in Releasers : DrainStep(w, d)
    \/ ProcessStep(w)

Outside == Surroundings \/ \E e \in Events : DueTime(e) \/ LeaseRunsOut(e)

\* A process step changes one process, the rest none.
LEMMA StepKinds ==
  ASSUME Next PROVE Outside \/ \E w \in Workers : ProcStep(w)
  BY DEF Next, Outside, ProcStep

\* Whichever step a process takes.
LEMMA StepIsOwn ==
  ASSUME proc \in [Workers -> Process], NEW w \in Workers, ProcStep(w)
  PROVE  Only(w)
<1>1. ASSUME NEW p, Becomes(w, p) PROVE Only(w)
  BY <1>1, OthersStay
<1>2. \E p : Becomes(w, p)
  <2>1. CASE LoopStep(w)
    BY <2>1 DEF LoopStep, Poll, BeginClaim, SkipClaim, VisitNone, VisitBlocked, Acquire, Track,
       TrackRefused, RoundEnd, RetainCheck, Store, RetainReleased, Supervise, DatabaseError,
       TakePending, Sweep, ClaimBatch, ClaimLost, VisitUnknown, VisitOversize, Consume
  <2>2. CASE \E f \in proc[w].flights : FlightStep(w, f)
    BY <2>2 DEF FlightStep, Refuse, Respond, SettleFlight, Finish, Move
  <2>3. CASE \E d \in Releasers : DrainStep(w, d)
    BY <2>3 DEF DrainStep, BeginDrain, DrainWaited, ReleaseOne, DrainEnd
  <2>4. CASE ProcessStep(w)
    BY <2>4 DEF ProcessStep, Start, Shutdown, Exit, ServerShutdownFails, Crash, Ends
  <2> QED  BY <2>1, <2>2, <2>3, <2>4 DEF ProcStep
<1> QED  BY <1>1, <1>2

\* What the surroundings do, they do to the tables.
LEMMA OutsideLeaves ==
  ASSUME Outside PROVE UNCHANGED <<proc, exit, answers>>
  BY DEF Outside, Surroundings, DueTime, LeaseRunsOut, wvars

\* Steps keep the first layer.
LEMMA CInvStep ==
  ASSUME CInv, [Next]_vars
  PROVE  CInv'
<1>1. IInv /\ KeptOrDropped /\ QInv /\ proc \in [Workers -> Process] /\ faults \in Nat
      /\ exit \in [Workers -> {"none", "clean", "error", "crash"}]
  BY DEF CInv, IInv, TypeOK
<1>2. IInv'
  BY <1>1, InvStep
<1>3. QStep \/ UNCHANGED qvars
  BY <1>1, NextTables DEF vars
<1>4. KeptOrDropped'
  BY <1>1, <1>3, TablesGrow
<1>5. ASSUME NEW v \in Workers, proc'[v] = proc[v] PROVE Tidy(proc'[v]) /\ AllGranted(proc[v])'
  <2>1. Tidy(proc[v]) /\ AllGranted(proc[v])
    BY DEF CInv
  <2>2. ASSUME NEW c, Remembers(proc[v], c) PROVE Granted(c)'
    BY <1>1, <1>3, <2>1, <2>2, RemembersClaims, GrantedStays DEF AllGranted
  <2> QED  BY <1>5, <2>1, <2>2 DEF AllGranted
<1>6. CASE UNCHANGED vars \/ Outside
  <2>1. proc' = proc
    BY <1>6, OutsideLeaves DEF vars, wvars
  <2> QED  BY <1>2, <1>4, <1>5, <2>1 DEF CInv
<1>7. ASSUME NEW w \in Workers, ProcStep(w) PROVE CInv'
  <2>1. \A v \in Workers \ {w} : proc'[v] = proc[v]
    BY <1>1, <1>7, StepIsOwn DEF Only
  <2>2. Tidy(proc[w]) /\ AllGranted(proc[w])
    BY DEF CInv
  <2>3. Tidy(proc'[w])
    BY <1>1, <1>7, <2>2, LoopTidy, OtherTidy DEF ProcStep
  <2>4. ASSUME NEW c, Remembers(proc[w], c) PROVE Granted(c)'
    BY <1>1, <1>3, <2>2, <2>4, RemembersClaims, GrantedStays DEF AllGranted
  <2>5. AllGranted(proc[w])'
    <3>1. CASE ClaimBatch(w)
      <4>1. PICK S \in ClaimSets :
              /\ ClaimRows(w, S)
              /\ Becomes(w, [proc[w] EXCEPT !.batch = @ \cup ClaimedEvents(S), !.loop = "visit"])
        BY <3>1 DEF ClaimBatch
      <4>2. /\ proc'[w].batch = proc[w].batch \cup ClaimedEvents(S)
            /\ proc'[w].pending = proc[w].pending
            /\ KeepsRequests(proc[w], proc'[w]) /\ KeepsDrain(proc[w], proc'[w])
        BY <1>1, <4>1, ClaimFields
      <4>3. ASSUME NEW c, Remembers(proc'[w], c)
            PROVE  Remembers(proc[w], c) \/ c \in ClaimedEvents(S)
        BY <4>2, <4>3 DEF Remembers, KeepsRequests, KeepsDrain
      <4>4. ASSUME NEW c \in ClaimedEvents(S) PROVE Granted(c)'
        BY <1>1, <4>1, ClaimGranted
      <4> QED  BY <2>4, <4>3, <4>4 DEF AllGranted
    <3>2. CASE ~ClaimBatch(w)
      BY <1>1, <1>7, <2>2, <2>4, <3>2, NothingNew DEF ProcStep, AllGranted
    <3> QED  BY <3>1, <3>2
  <2> QED  BY <1>2, <1>4, <1>5, <2>1, <2>3, <2>5 DEF CInv
<1> QED  BY <1>6, <1>7, StepKinds

\* The first layer holds throughout.
THEOREM CustodyInvariant == Spec => []CInv
<1>1. Init => CInv
  <2> SUFFICES ASSUME Init PROVE CInv
    OBVIOUS
  <2>1. IInv /\ KeptOrDropped
    BY InitHolds DEF Init, QInit, KeptOrDropped
  <2>2. \A w \in Workers : proc[w] = Fresh("down")
    BY DEF Init
  <2>3. "down" \in LoopStates
    BY DEF LoopStates
  <2>4. ASSUME NEW c PROVE ~Remembers(Fresh("down"), c)
    BY <2>3, FreshFields DEF Remembers
  <2> QED  BY <2>1, <2>2, <2>4, FreshTidy DEF CInv, AllGranted
<1>2. CInv /\ [Next]_vars => CInv'
  BY CInvStep
<1> QED  BY <1>1, <1>2, PTL DEF Spec

-------------------------------------------------------------------------------
(* A lease is in one place.                                                *)

\* Two claims that stand for the same lease of the same event.
SameLease(c, d) == c.id = d.id /\ c.token = d.token

\* The claims the loop has not dispatched, and the requests, are of
\* different leases, and so are any two of either.
Apart(p) ==
    /\ \A c, d \in p.batch \cup p.pending : SameLease(c, d) => c = d
    /\ \A f, g \in p.flights : SameLease(f.c, g.c) => f = g
    /\ \A c \in p.batch \cup p.pending :
          /\ \A f \in p.flights : ~SameLease(c, f.c)
          /\ \A t \in p.tracked : ~SameLease(c, t)

\* A request keeps its claim as it advances.
LEMMA FlightMoves ==
  ASSUME NEW w \in Workers, NEW f \in Flight,
         Refuse(w, f) \/ Respond(w, f) \/ SettleFlight(w, f)
  PROVE  \E g : g.c = f.c /\ Move(w, f, g)
<1>1. ASSUME NEW s, NEW v PROVE [f EXCEPT !.stage = s, !.verdict = v].c = f.c
  BY DEF Flight
<1>2. [f EXCEPT !.stage = "finish"].c = f.c
  BY DEF Flight
<1> QED  BY <1>1, <1>2 DEF Refuse, Respond, SettleFlight

\* Fewer claims are no nearer to each other.
LEMMA ApartLess ==
  ASSUME NEW p, NEW q, Apart(p), q.flights = p.flights, q.tracked = p.tracked,
         q.batch \cup q.pending \subseteq p.batch \cup p.pending
  PROVE  Apart(q)
  BY DEF Apart

\* The steps of a process keep its claims apart.
LEMMA StepApart ==
  ASSUME CInv, NEW w \in Workers, Apart(proc[w]), ProcStep(w)
  PROVE  Apart(proc'[w])
<1> DEFINE P == proc[w]
           q == proc'[w]
<1>1. /\ proc \in [Workers -> Process] /\ faults \in Nat /\ QInv /\ Tidy(P) /\ AllGranted(P)
      /\ exit \in [Workers -> {"none", "clean", "error", "crash"}]
  BY DEF CInv, IInv, TypeOK
<1>2. CASE Turns(P, q)
  BY <1>2, ApartLess DEF Turns, Still, KeepsClaims, KeepsRequests
<1>3. CASE TakePending(w)
  BY <1>1, <1>3, TakeFields, ApartLess DEF KeepsRequests
<1>4. CASE VisitUnknown(w) \/ VisitOversize(w)
  <2>1. PICK c, reason : Consume(w, c, reason)
    BY <1>4 DEF VisitUnknown, VisitOversize
  <2> QED  BY <1>1, <2>1, ConsumeFields, ApartLess DEF KeepsRequests
<1>5. CASE Acquire(w)
  BY <1>1, <1>5, AcquireFields, ApartLess DEF KeepsClaims
<1>6. CASE TrackRefused(w)
  BY <1>1, <1>6, RefusedFields, ApartLess DEF KeepsClaims
<1>7. CASE RetainCheck(w)
  BY <1>1, <1>7, RetainFields, ApartLess DEF KeepsRequests
<1>8. CASE Store(w)
  BY <1>1, <1>8, StoreFields, ApartLess DEF KeepsRequests
<1>9. CASE RetainReleased(w)
  BY <1>1, <1>9, RetainReleasedFields, ApartLess DEF KeepsRequests, KeepsClaims
<1>10. ASSUME NEW d \in Releasers, DrainStep(w, d) PROVE Apart(q)
  <2>1. CASE BeginDrain(w, d)
    BY <1>1, <2>1, BeginDrainFields, ApartLess DEF KeepsRequests, KeepsClaims
  <2>2. CASE DrainWaited(w, d)
    BY <1>1, <2>2, DrainWaitedFields, ApartLess DEF KeepsRequests
  <2>3. CASE DrainEnd(w, d)
    BY <1>1, <2>3, DrainEndFields, ApartLess DEF KeepsRequests, KeepsClaims
  <2>4. CASE ReleaseOne(w, d)
    <3>1. PICK c : HandsBack(w, d, c)
      BY <2>4 DEF ReleaseOne, HandsBack
    <3> QED  BY <1>1, <3>1, ReleaseFields, ApartLess DEF KeepsRequests, KeepsClaims
  <2> QED  BY <1>10, <2>1, <2>2, <2>3, <2>4 DEF DrainStep
<1>11. CASE ProcessStep(w) /\ ~Shutdown(w)
  <2>1. q = Fresh("idle") \/ q = Fresh("down")
    BY <1>1, <1>11, FreshStep DEF ProcessStep
  <2>2. q.batch = {} /\ q.pending = {} /\ q.flights = {}
    BY <2>1, FreshFields DEF LoopStates
  <2> QED  BY <2>2 DEF Apart
<1>12. CASE ClaimBatch(w)
  <2>1. PICK S \in ClaimSets :
          /\ ClaimRows(w, S)
          /\ Becomes(w, [P EXCEPT !.batch = @ \cup ClaimedEvents(S), !.loop = "visit"])
    BY <1>12 DEF ClaimBatch
  <2>2. /\ q.batch = P.batch \cup ClaimedEvents(S) /\ q.pending = P.pending
        /\ q.flights = P.flights /\ q.tracked = P.tracked
    BY <1>1, <2>1, ClaimFields DEF KeepsRequests
  <2>3. ASSUME NEW c \in ClaimedEvents(S), NEW d, Remembers(P, d) PROVE ~SameLease(c, d)
    <3>1. c.id \in Events /\ c.token = issued[c.id] + 1
      BY <1>1, <2>1, ClaimGranted DEF Claim
    <3>2. d.token <= issued[d.id] /\ issued[c.id] \in Nat /\ d.token \in Nat
      <4>1. d \in Claim /\ Granted(d)
        BY <1>1, <2>3, RemembersClaims DEF AllGranted
      <4> QED  BY <1>1, <3>1, <4>1 DEF Granted, Claim, QInv, QTypeOK
    <3> QED  BY <3>1, <3>2 DEF SameLease
  <2>4. ASSUME NEW c \in ClaimedEvents(S), NEW d \in ClaimedEvents(S), SameLease(c, d)
        PROVE  c = d
    BY <2>4 DEF SameLease, ClaimedEvents
  <2>5. \A d : d \in P.batch \cup P.pending \/ d \in P.tracked \/ (\E f \in P.flights : f.c = d)
               => Remembers(P, d)
    BY DEF Remembers
  <2>6. \A c, d : SameLease(c, d) => SameLease(d, c)
    BY DEF SameLease
  <2>7. \A c, d \in q.batch \cup q.pending : SameLease(c, d) => c = d
    BY <2>2, <2>3, <2>4, <2>5, <2>6 DEF Apart
  <2>8. \A c \in q.batch \cup q.pending :
          /\ \A f \in q.flights : ~SameLease(c, f.c)
          /\ \A t \in q.tracked : ~SameLease(c, t)
    BY <2>2, <2>3, <2>5 DEF Apart
  <2> QED  BY <2>2, <2>7, <2>8 DEF Apart
<1>13. CASE Track(w)
  <2>1. /\ P.loop = "track" /\ q.batch = P.batch \ P.cur /\ q.pending = P.pending
        /\ q.flights = P.flights \cup Started(P.cur) /\ q.tracked = P.tracked \cup P.cur
    BY <1>1, <1>13, TrackFields
  <2>2. PICK x \in P.batch :
          P.cur = {x} /\ Started(P.cur) = {[c |-> x, stage |-> "send", verdict |-> "none"]}
    BY <1>1, <2>1, TrackedClaim
  <2> DEFINE g == [c |-> x, stage |-> "send", verdict |-> "none"]
  <2>3. g.c = x /\ q.flights = P.flights \cup {g} /\ q.tracked = P.tracked \cup {x}
        /\ q.batch \cup q.pending \subseteq P.batch \cup P.pending
    BY <2>1, <2>2
  <2> HIDE DEF g
  <2>4. \A c \in q.batch \cup q.pending : ~SameLease(c, x)
    <3>1. P.pending = {}
      BY <1>1, <2>1 DEF Tidy, TidyClaims, Resting
    <3> QED  BY <2>1, <2>2, <3>1 DEF Apart
  <2>5. \A c, d : SameLease(c, d) => SameLease(d, c)
    BY DEF SameLease
  <2>6. \A f, h \in q.flights : SameLease(f.c, h.c) => f = h
    BY <2>2, <2>3, <2>5 DEF Apart
  <2> QED  BY <2>3, <2>4, <2>6 DEF Apart
<1>14. ASSUME NEW f \in P.flights, FlightStep(w, f) PROVE Apart(q)
  <2>1. CASE Finish(w, f)
    <3>1. /\ q.flights \subseteq P.flights /\ q.tracked \subseteq P.tracked
          /\ KeepsClaims(P, q)
      BY <1>1, <2>1, FinishFields
    <3> QED  BY <3>1 DEF Apart, KeepsClaims
  <2>2. CASE ~Finish(w, f)
    <3>1. f \in Flight
      BY <1>1, ProcessFields
    <3>2. PICK g : g.c = f.c /\ Move(w, f, g)
      BY <1>14, <2>2, <3>1, FlightMoves DEF FlightStep
    <3>3. /\ q.flights = (P.flights \ {f}) \cup {g} /\ q.tracked = P.tracked
          /\ KeepsClaims(P, q)
      BY <1>1, <3>2, MoveFields
    <3>4. \A h, k \in q.flights : SameLease(h.c, k.c) => h = k
      BY <3>2, <3>3 DEF Apart, SameLease
    <3> QED  BY <3>2, <3>3, <3>4 DEF Apart, KeepsClaims
  <2> QED  BY <2>1, <2>2
<1> QED  BY <1>1, <1>2, <1>3, <1>4, <1>5, <1>6, <1>7, <1>8, <1>9, <1>10, <1>11, <1>12, <1>13,
            <1>14, TurnFields DEF ProcStep, LoopStep, ProcessStep

-------------------------------------------------------------------------------
(* Slots and the record of running requests.                               *)

\* The requests, or acquired claims, of one listener.
FlightsOf(F, l) == {f \in F : ListenerOf[f.c.id] = l}
ClaimsOf(C, l)  == {c \in C : ListenerOf[c.id] = l}

\* Every request is tracked by one claim, and holds one slot of the worker
\* and one of its listener, as the acquired event does.
Counted(p) ==
    /\ IsFiniteSet(p.flights) /\ IsFiniteSet(p.tracked)
    /\ Cardinality(p.flights) = Cardinality(p.tracked)
    /\ p.used = Cardinality(p.flights) + Cardinality(p.cur)
    /\ p.used <= GlobalCap
    /\ \A l \in Listeners :
          /\ p.lused[l] = Cardinality(FlightsOf(p.flights, l)) + Cardinality(ClaimsOf(p.cur, l))
          /\ Cap[l] > 0 => p.lused[l] <= Cap[l]

\* A drain that waited without a failure left no request running.
CutsNone(p) ==
    \A d \in Drainers : p.drain[d].st \in {"release", "done"} /\ ~p.drain[d].err
                            => p.flights = {}

\* One request more, or one less.
LEMMA OneMore ==
  ASSUME NEW F, IsFiniteSet(F), NEW g, g \notin F
  PROVE  /\ IsFiniteSet(F \cup {g}) /\ Cardinality(F \cup {g}) = Cardinality(F) + 1
         /\ Cardinality(F) \in Nat
  BY FS_AddElement, FS_CardinalityType

\* It counts for its own listener alone.
LEMMA OneMoreOf ==
  ASSUME NEW F, IsFiniteSet(F), NEW g, g \notin F, NEW l \in Listeners
  PROVE  /\ Cardinality(FlightsOf(F, l)) \in Nat
         /\ Cardinality(FlightsOf(F \cup {g}, l)) =
               Cardinality(FlightsOf(F, l)) + (IF ListenerOf[g.c.id] = l THEN 1 ELSE 0)
<1>1. FlightsOf(F, l) \subseteq F
  BY DEF FlightsOf
<1>2. IsFiniteSet(FlightsOf(F, l))
  BY <1>1, FS_Subset
<1>3. FlightsOf(F \cup {g}, l) =
        IF ListenerOf[g.c.id] = l THEN FlightsOf(F, l) \cup {g} ELSE FlightsOf(F, l)
  BY DEF FlightsOf
<1>4. g \notin FlightsOf(F, l)
  BY <1>1
<1>5. Cardinality(FlightsOf(F, l) \cup {g}) = Cardinality(FlightsOf(F, l)) + 1
  BY <1>2, <1>4, FS_AddElement
<1>6. Cardinality(FlightsOf(F, l)) \in Nat
  BY <1>2, FS_CardinalityType
<1> QED  BY <1>3, <1>5, <1>6

\* Without an acquired event there is nothing to count.
LEMMA NoneAcquired ==
  ASSUME NEW C, C = {}
  PROVE  Cardinality(C) = 0 /\ \A l \in Listeners : Cardinality(ClaimsOf(C, l)) = 0
<1>1. \A l \in Listeners : ClaimsOf(C, l) = {}
  BY DEF ClaimsOf
<1> QED  BY <1>1, FS_EmptySet

\* The acquired event counts once, for its own listener.
LEMMA OneAcquired ==
  ASSUME NEW c
  PROVE  /\ Cardinality({c}) = 1
         /\ \A l \in Listeners :
               Cardinality(ClaimsOf({c}, l)) = IF ListenerOf[c.id] = l THEN 1 ELSE 0
<1>1. \A l \in Listeners : ClaimsOf({c}, l) = IF ListenerOf[c.id] = l THEN {c} ELSE {}
  BY DEF ClaimsOf
<1>2. Cardinality({c}) = 1 /\ Cardinality({}) = 0
  BY FS_Singleton, FS_EmptySet
<1> QED  BY <1>1, <1>2

\* Counting looks at requests, slots and the acquired event alone.
LEMMA CountedSame ==
  ASSUME NEW p, NEW q, Counted(p), KeepsRequests(p, q), q.cur = p.cur
  PROVE  Counted(q)
  BY DEF Counted, KeepsRequests

\* tryAcquire, track and its refusal, the progress of a request and its end.
LEMMA SlotSteps ==
  ASSUME CInv, NEW w \in Workers, Apart(proc[w]), Counted(proc[w]),
         \/ Acquire(w) \/ Track(w) \/ TrackRefused(w)
         \/ \E f \in proc[w].flights : FlightStep(w, f)
  PROVE  Counted(proc'[w])
<1> DEFINE P == proc[w]
           q == proc'[w]
<1>1. /\ proc \in [Workers -> Process] /\ Tidy(P)
      /\ P.lused \in [Listeners -> Nat] /\ P.used \in Nat
      /\ P.flights \subseteq Flight
  BY ProcessFields DEF CInv, IInv, TypeOK
<1>2. /\ IsFiniteSet(P.flights) /\ Cardinality(P.flights) \in Nat
      /\ \A l \in Listeners : Cardinality(FlightsOf(P.flights, l)) \in Nat
  <2>1. IsFiniteSet(P.flights)
    BY DEF Counted
  <2>2. \A l \in Listeners : FlightsOf(P.flights, l) \subseteq P.flights
    BY DEF FlightsOf
  <2>3. \A l \in Listeners : IsFiniteSet(FlightsOf(P.flights, l))
    BY <2>1, <2>2, FS_Subset
  <2> QED  BY <2>1, <2>3, FS_CardinalityType
<1>3. CASE Acquire(w)
  <2>1. /\ P.loop = "visit" /\ q.flights = P.flights /\ q.tracked = P.tracked
        /\ P.used < GlobalCap /\ q.used = P.used + 1 /\ ~ListenerFull(w, Order[P.at])
        /\ q.lused = [P.lused EXCEPT ![Order[P.at]] = @ + 1]
    BY <1>1, <1>3, AcquireFields
  <2>2. PICK c \in P.batch : ListenerOf[c.id] = Order[P.at] /\ q.cur = {c}
    BY <1>1, <1>3, AcquireFields
  <2>3. P.cur = {}
    BY <1>1, <2>1 DEF Tidy, TidySlot
  <2>4. q.used = Cardinality(q.flights) + Cardinality(q.cur) /\ q.used <= GlobalCap
    <3>1. P.used = Cardinality(P.flights)
      BY <1>2, <2>3, NoneAcquired DEF Counted
    <3>2. Cardinality(q.cur) = 1
      BY <2>2, OneAcquired
    <3>3. GlobalCap \in Nat
      BY WorkerAssumption
    <3> QED  BY <1>1, <1>2, <2>1, <3>1, <3>2, <3>3
  <2>5. ASSUME NEW l \in Listeners
        PROVE  /\ q.lused[l] = Cardinality(FlightsOf(q.flights, l))
                                 + Cardinality(ClaimsOf(q.cur, l))
               /\ Cap[l] > 0 => q.lused[l] <= Cap[l]
    <3>1. P.lused[l] = Cardinality(FlightsOf(P.flights, l)) /\ (Cap[l] > 0 => P.lused[l] <= Cap[l])
      <4>1. Cardinality(ClaimsOf(P.cur, l)) = 0
        BY <2>3, NoneAcquired
      <4> QED  BY <1>2, <4>1 DEF Counted
    <3>2. Cardinality(ClaimsOf(q.cur, l)) = IF Order[P.at] = l THEN 1 ELSE 0
      BY <2>2, OneAcquired
    <3>3. q.lused[l] = IF Order[P.at] = l THEN P.lused[l] + 1 ELSE P.lused[l]
      BY <1>1, <2>1
    <3>4. Cap[l] \in Nat /\ P.lused[l] \in Nat
      BY <1>1, WorkerAssumption
    <3>5. Order[P.at] = l /\ Cap[l] > 0 => P.lused[l] < Cap[l]
      BY <2>1, <3>4 DEF ListenerFull
    <3>6. FlightsOf(q.flights, l) = FlightsOf(P.flights, l)
      BY <2>1
    <3>7. CASE Order[P.at] = l
      <4>1. /\ Cardinality(ClaimsOf(q.cur, l)) = 1 /\ q.lused[l] = P.lused[l] + 1
            /\ Cap[l] > 0 => P.lused[l] < Cap[l]
        BY <3>2, <3>3, <3>5, <3>7
      <4>2. Cap[l] > 0 => P.lused[l] + 1 <= Cap[l]
        BY <3>4, <4>1
      <4> QED  BY <3>1, <3>6, <4>1, <4>2
    <3>8. CASE Order[P.at] # l
      <4>1. Cardinality(ClaimsOf(q.cur, l)) = 0 /\ q.lused[l] = P.lused[l]
        BY <3>2, <3>3, <3>8
      <4>2. P.lused[l] = P.lused[l] + 0
        BY <3>4
      <4> QED  BY <3>1, <3>6, <4>1, <4>2
    <3> QED  BY <3>7, <3>8
  <2> QED
    <3>1. IsFiniteSet(q.flights) /\ IsFiniteSet(q.tracked)
             /\ Cardinality(q.flights) = Cardinality(q.tracked)
      BY <2>1 DEF Counted
    <3> QED  BY <2>4, <2>5, <3>1 DEF Counted
<1>4. CASE Track(w) \/ TrackRefused(w)
  <2>1. P.loop = "track" /\ q.cur = {}
    BY <1>1, <1>4, TrackFields, RefusedFields
  <2>2. PICK x \in P.batch :
          /\ P.cur = {x} /\ ListenerOf[x.id] = Order[P.at]
          /\ Started(P.cur) = {[c |-> x, stage |-> "send", verdict |-> "none"]}
    BY <1>1, <2>1, TrackedClaim
  <2>a. Cardinality(P.cur) = 1
    BY <2>2, OneAcquired
  <2>b. ASSUME NEW l \in Listeners
        PROVE  Cardinality(ClaimsOf(P.cur, l)) = IF Order[P.at] = l THEN 1 ELSE 0
    BY <2>2, OneAcquired
  <2>3. P.used = Cardinality(P.flights) + 1
    BY <2>a DEF Counted
  <2>4. \A l \in Listeners :
          /\ P.lused[l] = Cardinality(FlightsOf(P.flights, l))
                            + (IF Order[P.at] = l THEN 1 ELSE 0)
          /\ Cap[l] > 0 => P.lused[l] <= Cap[l]
    BY <2>b DEF Counted
  <2>5. CASE Track(w)
    <3> DEFINE g == [c |-> x, stage |-> "send", verdict |-> "none"]
    <3>1. /\ q.flights = P.flights \cup {g} /\ q.tracked = P.tracked \cup {x}
          /\ q.used = P.used /\ q.lused = P.lused /\ g.c = x
      BY <1>1, <2>2, <2>5, TrackFields
    <3> HIDE DEF g
    <3>2. g \notin P.flights /\ x \notin P.tracked
      BY <3>1 DEF Apart, SameLease
    <3>3. /\ IsFiniteSet(q.flights) /\ Cardinality(q.flights) = Cardinality(P.flights) + 1
          /\ \A l \in Listeners :
                Cardinality(FlightsOf(q.flights, l)) =
                    Cardinality(FlightsOf(P.flights, l)) + (IF ListenerOf[x.id] = l THEN 1 ELSE 0)
      <4>1. IsFiniteSet(q.flights) /\ Cardinality(q.flights) = Cardinality(P.flights) + 1
        BY <1>2, <3>1, <3>2, OneMore
      <4>2. ASSUME NEW l \in Listeners
            PROVE  Cardinality(FlightsOf(q.flights, l)) =
                     Cardinality(FlightsOf(P.flights, l)) + (IF ListenerOf[x.id] = l THEN 1 ELSE 0)
        BY <1>2, <3>1, <3>2, OneMoreOf
      <4> QED  BY <4>1, <4>2
    <3>4. IsFiniteSet(q.tracked) /\ Cardinality(q.tracked) = Cardinality(P.tracked) + 1
      <4>1. IsFiniteSet(P.tracked)
        BY DEF Counted
      <4> QED  BY <3>1, <3>2, <4>1, OneMore
    <3>5. Cardinality(q.cur) = 0 /\ \A l \in Listeners : Cardinality(ClaimsOf(q.cur, l)) = 0
      BY <2>1, NoneAcquired
    <3>6. Cardinality(q.flights) = Cardinality(q.tracked)
      BY <3>3, <3>4 DEF Counted
    <3>7. q.used = Cardinality(q.flights) + Cardinality(q.cur) /\ q.used <= GlobalCap
      BY <1>2, <2>3, <3>1, <3>3, <3>5 DEF Counted
    <3>8. ASSUME NEW l \in Listeners
          PROVE  /\ q.lused[l] = Cardinality(FlightsOf(q.flights, l))
                                   + Cardinality(ClaimsOf(q.cur, l))
                 /\ Cap[l] > 0 => q.lused[l] <= Cap[l]
      <4>1. /\ q.lused[l] = Cardinality(FlightsOf(P.flights, l))
                                + (IF Order[P.at] = l THEN 1 ELSE 0)
            /\ Cap[l] > 0 => q.lused[l] <= Cap[l]
        BY <2>4, <3>1
      <4>2. q.lused[l] = Cardinality(FlightsOf(q.flights, l))
        BY <2>2, <3>3, <4>1
      <4>3. q.lused[l] \in Nat /\ Cardinality(ClaimsOf(q.cur, l)) = 0
        BY <1>1, <3>1, <3>5
      <4> QED  BY <4>1, <4>2, <4>3
    <3> QED  BY <3>3, <3>4, <3>6, <3>7, <3>8 DEF Counted
  <2>6. CASE TrackRefused(w)
    <3>1. /\ q.flights = P.flights /\ q.tracked = P.tracked /\ q.used = Released(P.used)
          /\ q.lused = [P.lused EXCEPT ![Order[P.at]] = Released(@)]
      BY <1>1, <2>6, RefusedFields
    <3>2. Cardinality(q.cur) = 0 /\ \A l \in Listeners : Cardinality(ClaimsOf(q.cur, l)) = 0
      BY <2>1, NoneAcquired
    <3>3. q.used = Cardinality(P.flights) /\ q.used <= GlobalCap
      <4>1. P.used <= GlobalCap /\ GlobalCap \in Nat
        BY WorkerAssumption DEF Counted
      <4> QED  BY <1>2, <2>3, <3>1, <4>1 DEF Released
    <3>4. ASSUME NEW l \in Listeners
          PROVE  /\ q.lused[l] = Cardinality(FlightsOf(q.flights, l))
                                   + Cardinality(ClaimsOf(q.cur, l))
                 /\ Cap[l] > 0 => q.lused[l] <= Cap[l]
      <4>1. q.lused[l] = IF Order[P.at] = l THEN Released(P.lused[l]) ELSE P.lused[l]
        BY <1>1, <3>1
      <4>2. Cap[l] \in Nat /\ P.lused[l] \in Nat
        BY <1>1, WorkerAssumption
      <4> QED  BY <1>2, <2>4, <3>1, <3>2, <4>1, <4>2 DEF Released
    <3> QED  BY <1>2, <3>1, <3>2, <3>3, <3>4 DEF Counted
  <2> QED  BY <1>4, <2>5, <2>6
<1>5. ASSUME NEW f \in P.flights, FlightStep(w, f) PROVE Counted(q)
  <2> DEFINE F == P.flights \ {f}
  <2>1. f \in Flight /\ f \notin F /\ P.flights = F \cup {f}
    BY <1>1
  <2>2. IsFiniteSet(F)
    BY <1>2, FS_RemoveElement
  <2>3. /\ Cardinality(P.flights) = Cardinality(F) + 1 /\ Cardinality(F) \in Nat
        /\ \A l \in Listeners :
              /\ Cardinality(FlightsOf(F, l)) \in Nat
              /\ Cardinality(FlightsOf(P.flights, l)) =
                    Cardinality(FlightsOf(F, l)) + (IF ListenerOf[f.c.id] = l THEN 1 ELSE 0)
    <3>1. Cardinality(P.flights) = Cardinality(F) + 1 /\ Cardinality(F) \in Nat
      BY <2>1, <2>2, OneMore
    <3> HIDE DEF F
    <3>2. ASSUME NEW l \in Listeners
          PROVE  /\ Cardinality(FlightsOf(F, l)) \in Nat
                 /\ Cardinality(FlightsOf(P.flights, l)) =
                      Cardinality(FlightsOf(F, l)) + (IF ListenerOf[f.c.id] = l THEN 1 ELSE 0)
      BY <2>1, <2>2, OneMoreOf
    <3> QED  BY <3>1, <3>2
  <2>4. CASE Finish(w, f)
    <3>1. /\ q.flights = F /\ q.used = Released(P.used) /\ q.cur = P.cur
          /\ q.lused = [P.lused EXCEPT ![ListenerOf[f.c.id]] = Released(@)]
      BY <1>1, <2>4, FinishFields
    <3>2. PICK c \in P.tracked : q.tracked = P.tracked \ {c}
      BY <1>1, <2>4, FinishFields
    <3>3. IsFiniteSet(q.tracked) /\ Cardinality(q.tracked) = Cardinality(P.tracked) - 1
      <4>1. IsFiniteSet(P.tracked)
        BY DEF Counted
      <4> QED  BY <3>2, <4>1, FS_RemoveElement
    <3>a. Cardinality(q.flights) = Cardinality(q.tracked)
      <4>1. Cardinality(P.flights) = Cardinality(P.tracked)
        BY DEF Counted
      <4> QED  BY <2>3, <3>1, <3>3, <4>1
    <3> HIDE DEF F
    <3>b. /\ Cardinality(P.cur) \in Nat
          /\ \A l \in Listeners : Cardinality(ClaimsOf(P.cur, l)) \in Nat
      <4>1. P.cur = {} \/ \E x \in P.batch : P.cur = {x}
        BY <1>1 DEF Tidy, TidySlot
      <4>2. CASE P.cur = {}
        BY <4>2, NoneAcquired
      <4>3. ASSUME NEW x \in P.batch, P.cur = {x}
            PROVE  /\ Cardinality(P.cur) \in Nat
                   /\ \A l \in Listeners : Cardinality(ClaimsOf(P.cur, l)) \in Nat
        BY <4>3, OneAcquired
      <4> QED  BY <4>1, <4>2, <4>3
    <3>4. q.used = Cardinality(q.flights) + Cardinality(q.cur) /\ q.used <= GlobalCap
      <4>1. P.used = Cardinality(F) + 1 + Cardinality(P.cur) /\ P.used <= GlobalCap
        <5>1. P.used = Cardinality(P.flights) + Cardinality(P.cur) /\ P.used <= GlobalCap
          BY DEF Counted
        <5> QED  BY <2>3, <5>1
      <4>2. GlobalCap \in Nat
        BY WorkerAssumption
      <4> QED  BY <2>3, <3>1, <3>b, <4>1, <4>2 DEF Released
    <3>5. ASSUME NEW l \in Listeners
          PROVE  /\ q.lused[l] = Cardinality(FlightsOf(q.flights, l))
                                   + Cardinality(ClaimsOf(q.cur, l))
                 /\ Cap[l] > 0 => q.lused[l] <= Cap[l]
      <4>1. q.lused[l] = IF ListenerOf[f.c.id] = l THEN Released(P.lused[l]) ELSE P.lused[l]
        BY <1>1, <3>1
      <4>2. Cap[l] \in Nat
        BY WorkerAssumption
      <4>3. /\ P.lused[l] = Cardinality(FlightsOf(P.flights, l)) + Cardinality(ClaimsOf(P.cur, l))
            /\ Cap[l] > 0 => P.lused[l] <= Cap[l]
        BY DEF Counted
      <4>4. /\ Cardinality(FlightsOf(F, l)) \in Nat /\ Cardinality(ClaimsOf(P.cur, l)) \in Nat
            /\ Cardinality(FlightsOf(P.flights, l)) =
                  Cardinality(FlightsOf(F, l)) + (IF ListenerOf[f.c.id] = l THEN 1 ELSE 0)
        BY <2>3, <3>b
      <4> QED  BY <3>1, <4>1, <4>2, <4>3, <4>4 DEF Released
    <3> QED  BY <2>2, <3>1, <3>3, <3>a, <3>4, <3>5 DEF Counted
  <2>5. CASE ~Finish(w, f)
    <3>1. PICK g : g.c = f.c /\ Move(w, f, g)
      BY <1>5, <2>1, <2>5, FlightMoves DEF FlightStep
    <3>2. /\ q.flights = F \cup {g} /\ q.tracked = P.tracked /\ q.used = P.used
          /\ q.lused = P.lused /\ q.cur = P.cur
      BY <1>1, <3>1, MoveFields
    <3>3. g \notin F
      BY <3>1 DEF Apart, SameLease
    <3> HIDE DEF F
    <3>4. /\ IsFiniteSet(q.flights) /\ Cardinality(q.flights) = Cardinality(P.flights)
          /\ \A l \in Listeners :
                Cardinality(FlightsOf(q.flights, l)) = Cardinality(FlightsOf(P.flights, l))
      <4>1. IsFiniteSet(q.flights) /\ Cardinality(q.flights) = Cardinality(F) + 1
        BY <2>2, <3>2, <3>3, OneMore
      <4>2. ASSUME NEW l \in Listeners
            PROVE  Cardinality(FlightsOf(q.flights, l)) =
                      Cardinality(FlightsOf(F, l)) + (IF ListenerOf[f.c.id] = l THEN 1 ELSE 0)
        BY <2>2, <3>1, <3>2, <3>3, OneMoreOf
      <4> QED  BY <2>3, <4>1, <4>2
    <3> QED  BY <3>2, <3>4 DEF Counted
  <2> QED  BY <2>4, <2>5
<1> QED  BY <1>3, <1>4, <1>5

\* The steps that neither take nor give back a slot.
SlotStep(w) ==
    \/ Acquire(w) \/ Track(w) \/ TrackRefused(w)
    \/ \E f \in proc[w].flights : FlightStep(w, f)

\* They leave requests and slots alone, or start a process afresh.
LEMMA QuietSteps ==
  ASSUME CInv, NEW w \in Workers, ProcStep(w), ~SlotStep(w)
  PROVE  \/ KeepsRequests(proc[w], proc'[w]) /\ proc'[w].cur = proc[w].cur
         \/ \E s \in {"idle", "down"} : proc'[w] = Fresh(s)
<1> DEFINE P == proc[w]
           q == proc'[w]
<1>1. /\ proc \in [Workers -> Process] /\ faults \in Nat
      /\ exit \in [Workers -> {"none", "clean", "error", "crash"}]
  BY DEF CInv, IInv, TypeOK
<1>2. CASE Turns(P, q)
  BY <1>2 DEF Turns, Still
<1>3. CASE TakePending(w)
  BY <1>1, <1>3, TakeFields
<1>4. CASE VisitUnknown(w) \/ VisitOversize(w)
  BY <1>1, <1>4, ConsumeFields DEF VisitUnknown, VisitOversize
<1>5. CASE ClaimBatch(w)
  BY <1>1, <1>5, ClaimFields DEF ClaimBatch
<1>6. CASE RetainCheck(w)
  BY <1>1, <1>6, RetainFields
<1>7. CASE Store(w)
  BY <1>1, <1>7, StoreFields
<1>8. CASE RetainReleased(w)
  BY <1>1, <1>8, RetainReleasedFields
<1>9. ASSUME NEW d \in Releasers, DrainStep(w, d)
      PROVE  KeepsRequests(P, q) /\ q.cur = P.cur
  <2>1. CASE BeginDrain(w, d)
    BY <1>1, <2>1, BeginDrainFields
  <2>2. CASE DrainWaited(w, d)
    BY <1>1, <2>2, DrainWaitedFields
  <2>3. CASE DrainEnd(w, d)
    BY <1>1, <2>3, DrainEndFields
  <2>4. CASE ReleaseOne(w, d)
    <3>1. PICK c : HandsBack(w, d, c)
      BY <2>4 DEF ReleaseOne, HandsBack
    <3> QED  BY <1>1, <3>1, ReleaseFields
  <2> QED  BY <1>9, <2>1, <2>2, <2>3, <2>4 DEF DrainStep
<1>10. CASE ProcessStep(w) /\ ~Shutdown(w)
  BY <1>1, <1>10, FreshStep DEF ProcessStep
<1> QED  BY <1>1, <1>2, <1>3, <1>4, <1>5, <1>6, <1>7, <1>8, <1>9, <1>10, TurnFields
         DEF ProcStep, SlotStep, LoopStep, ProcessStep

\* A process that has just started, or ended, holds no slot.
LEMMA FreshCounted ==
  ASSUME NEW s \in {"idle", "down"}
  PROVE  Counted(Fresh(s))
<1> DEFINE F == Fresh(s)
<1>1. /\ F.flights = {} /\ F.tracked = {} /\ F.cur = {} /\ F.used = 0
      /\ F.lused = [l \in Listeners |-> 0]
  BY FreshFields DEF LoopStates
<1> HIDE DEF F
<1>2. IsFiniteSet({}) /\ Cardinality({}) = 0
  BY FS_EmptySet
<1>3. \A l \in Listeners : FlightsOf({}, l) = {} /\ ClaimsOf({}, l) = {}
  BY DEF FlightsOf, ClaimsOf
<1>4. GlobalCap \in Nat /\ \A l \in Listeners : Cap[l] \in Nat
  BY WorkerAssumption
<1>5. F.used = Cardinality(F.flights) + Cardinality(F.cur) /\ F.used <= GlobalCap
  BY <1>1, <1>2, <1>4
<1>6. ASSUME NEW l \in Listeners
      PROVE  /\ F.lused[l] = Cardinality(FlightsOf(F.flights, l)) + Cardinality(ClaimsOf(F.cur, l))
             /\ Cap[l] > 0 => F.lused[l] <= Cap[l]
  <2>1. FlightsOf(F.flights, l) = {} /\ ClaimsOf(F.cur, l) = {} /\ F.lused[l] = 0
    BY <1>1, <1>3
  <2> QED  BY <1>2, <1>4, <2>1
<1>7. Counted(F)
  BY <1>1, <1>2, <1>5, <1>6 DEF Counted
<1> QED  BY <1>7 DEF F

\* Every step of a process keeps the account.
LEMMA StepCounted ==
  ASSUME CInv, NEW w \in Workers, Apart(proc[w]), Counted(proc[w]), ProcStep(w)
  PROVE  Counted(proc'[w])
<1>1. CASE SlotStep(w)
  BY <1>1, SlotSteps DEF SlotStep
<1>2. CASE KeepsRequests(proc[w], proc'[w]) /\ proc'[w].cur = proc[w].cur
  BY <1>2, CountedSame
<1>3. CASE \E s \in {"idle", "down"} : proc'[w] = Fresh(s)
  BY <1>3, FreshCounted
<1> QED  BY <1>1, <1>2, <1>3, QuietSteps

\* A drain's answer once it is past its wait is the wait's own.
LEMMA DrainAnswers ==
  ASSUME CInv, NEW w \in Workers, ProcStep(w), NEW d \in Drainers,
         proc'[w].drain[d].st \in {"release", "done"}, ~proc'[w].drain[d].err
  PROVE  \/ proc[w].drain[d].st \in {"release", "done"} /\ ~proc[w].drain[d].err
         \/ proc[w].drain[d].st = "wait" /\ proc[w].tracked = {}
<1> DEFINE P == proc[w]
           q == proc'[w]
<1>1. /\ proc \in [Workers -> Process] /\ faults \in Nat
      /\ exit \in [Workers -> {"none", "clean", "error", "crash"}]
      /\ d \in Releasers /\ d \in Releasers \ {"retain"}
  BY DEF CInv, IInv, TypeOK, Drainers, Releasers
<1>2. CASE q.drain[d] = P.drain[d]
  BY <1>2
<1>3. CASE KeepsDrain(P, q)
  BY <1>2, <1>3 DEF KeepsDrain
<1>4. CASE LoopStep(w)
  <2>1. CASE Turns(P, q)
    BY <1>3, <2>1 DEF Turns, Still
  <2>2. CASE TakePending(w)
    BY <1>1, <1>3, <2>2, TakeFields
  <2>3. CASE VisitUnknown(w) \/ VisitOversize(w)
    BY <1>1, <1>3, <2>3, ConsumeFields DEF VisitUnknown, VisitOversize
  <2>4. CASE ClaimBatch(w)
    BY <1>1, <1>3, <2>4, ClaimFields DEF ClaimBatch
  <2>5. CASE RetainCheck(w) \/ RetainReleased(w)
    BY <1>1, <1>2, <2>5, RetainFields, RetainReleasedFields
  <2>6. CASE Store(w)
    BY <1>1, <1>3, <2>6, StoreFields
  <2>7. CASE Acquire(w) \/ Track(w) \/ TrackRefused(w)
    BY <1>1, <1>3, <2>7, AcquireFields, TrackFields, RefusedFields
  <2> QED  BY <1>1, <1>4, <2>1, <2>2, <2>3, <2>4, <2>5, <2>6, <2>7, TurnFields DEF LoopStep
<1>5. ASSUME NEW f \in P.flights, FlightStep(w, f) PROVE KeepsDrain(P, q)
  BY <1>1, <1>5, MoveFields, FinishFields DEF FlightStep, Refuse, Respond, SettleFlight
<1>6. ASSUME NEW b \in Releasers, DrainStep(w, b)
      PROVE  \/ P.drain[d].st \in {"release", "done"} /\ ~P.drain[d].err
             \/ P.drain[d].st = "wait" /\ P.tracked = {}
  <2>1. CASE b # d
    <3>1. q.drain[d] = P.drain[d]
      <4>1. CASE BeginDrain(w, b)
        BY <1>1, <2>1, <4>1, BeginDrainFields
      <4>2. CASE DrainWaited(w, b)
        BY <1>1, <2>1, <4>2, DrainWaitedFields
      <4>3. CASE DrainEnd(w, b)
        BY <1>1, <2>1, <4>3, DrainEndFields
      <4>4. CASE ReleaseOne(w, b)
        <5>1. PICK c : HandsBack(w, b, c)
          BY <4>4 DEF ReleaseOne, HandsBack
        <5> QED  BY <1>1, <2>1, <5>1, ReleaseFields
      <4> QED  BY <1>6, <4>1, <4>2, <4>3, <4>4 DEF DrainStep
    <3> QED  BY <3>1
  <2>2. CASE b = d
    <3>1. CASE BeginDrain(w, d)
      BY <1>1, <3>1, BeginDrainFields
    <3>2. CASE DrainWaited(w, d)
      <4>1. P.drain[d].st = "wait" /\ q.drain[d].err = (P.tracked # {})
        BY <1>1, <3>2, DrainWaitedFields
      <4> QED  BY <4>1
    <3>3. CASE DrainEnd(w, d)
      <4>1. P.drain[d].st = "release" /\ (P.drain[d].err => q.drain[d].err)
        BY <1>1, <3>3, DrainEndFields
      <4> QED  BY <4>1
    <3>4. CASE ReleaseOne(w, d)
      <4>1. PICK c : HandsBack(w, d, c)
        BY <3>4 DEF ReleaseOne, HandsBack
      <4>2. P.drain[d].st = "release"
        BY <3>4 DEF ReleaseOne
      <4>3. P.drain[d].err => q.drain[d].err
        BY <1>1, <4>1, ReleaseFields
      <4> QED  BY <4>2, <4>3
    <3> QED  BY <1>6, <2>2, <3>1, <3>2, <3>3, <3>4 DEF DrainStep
  <2> QED  BY <2>1, <2>2
<1>7. CASE Shutdown(w)
  BY <1>1, <1>3, <1>7, TurnFields DEF Turns, Still
<1>8. CASE ProcessStep(w) /\ ~Shutdown(w)
  <2>1. q = Fresh("idle") \/ q = Fresh("down")
    BY <1>1, <1>8, FreshStep DEF ProcessStep
  <2>2. PICK s \in LoopStates : q = Fresh(s)
    BY <2>1 DEF LoopStates
  <2>3. q.drain[d].st = "off"
    BY <1>1, <2>2, FreshFields
  <2> QED  BY <2>3
<1> QED  BY <1>3, <1>4, <1>5, <1>6, <1>7, <1>8 DEF ProcStep

\* A draining worker starts no request.
LEMMA NoneStarted ==
  ASSUME CInv, NEW w \in Workers, ProcStep(w), proc[w].stopping, proc[w].flights = {}
  PROVE  proc'[w].flights = {}
<1>1. proc \in [Workers -> Process]
  BY DEF CInv, IInv, TypeOK
<1>2. CASE SlotStep(w)
  BY <1>1, <1>2, AcquireFields, TrackFields, RefusedFields DEF SlotStep
<1>3. CASE KeepsRequests(proc[w], proc'[w])
  BY <1>3 DEF KeepsRequests
<1>4. CASE \E s \in {"idle", "down"} : proc'[w] = Fresh(s)
  BY <1>4, FreshFields DEF LoopStates
<1> QED  BY <1>2, <1>3, <1>4, QuietSteps

\* A drain that did not fail has waited for every request.
LEMMA StepCutsNone ==
  ASSUME CInv, NEW w \in Workers, Counted(proc[w]), CutsNone(proc[w]), ProcStep(w)
  PROVE  CutsNone(proc'[w])
<1> SUFFICES ASSUME NEW d \in Drainers, proc'[w].drain[d].st \in {"release", "done"},
                    ~proc'[w].drain[d].err
             PROVE  proc'[w].flights = {}
  BY DEF CutsNone
<1>1. \/ proc[w].drain[d].st \in {"release", "done"} /\ ~proc[w].drain[d].err
      \/ proc[w].drain[d].st = "wait" /\ proc[w].tracked = {}
  BY DrainAnswers
<1>2. proc[w].stopping
  BY <1>1 DEF CInv, Tidy, TidyDrains
<1>3. proc[w].tracked = {} => proc[w].flights = {}
  <2>1. IsFiniteSet(proc[w].flights) /\ Cardinality(proc[w].flights) = Cardinality(proc[w].tracked)
    BY DEF Counted
  <2> QED  BY <2>1, FS_EmptySet
<1>4. proc[w].flights = {}
  BY <1>1, <1>3 DEF CutsNone
<1> QED  BY <1>2, <1>4, NoneStarted

-------------------------------------------------------------------------------
(* The second layer of the invariant.                                      *)

SInv ==
    /\ CInv
    /\ \A w \in Workers : Apart(proc[w]) /\ Counted(proc[w]) /\ CutsNone(proc[w])

\* Steps keep the second layer.
LEMMA SInvStep ==
  ASSUME SInv, [Next]_vars
  PROVE  SInv'
<1>1. CInv /\ CInv' /\ proc \in [Workers -> Process]
  BY CInvStep DEF SInv, CInv, IInv, TypeOK
<1>2. CASE UNCHANGED vars \/ Outside
  <2>1. proc' = proc
    BY <1>2, OutsideLeaves DEF vars, wvars
  <2> QED  BY <1>1, <2>1 DEF SInv
<1>3. ASSUME NEW w \in Workers, ProcStep(w) PROVE SInv'
  <2>1. \A v \in Workers \ {w} : proc'[v] = proc[v]
    BY <1>1, <1>3, StepIsOwn DEF Only
  <2>2. Apart(proc[w]) /\ Counted(proc[w]) /\ CutsNone(proc[w])
    BY DEF SInv
  <2>3. Apart(proc'[w]) /\ Counted(proc'[w]) /\ CutsNone(proc'[w])
    BY <1>1, <1>3, <2>2, StepApart, StepCounted, StepCutsNone
  <2>4. \A v \in Workers : Apart(proc'[v]) /\ Counted(proc'[v]) /\ CutsNone(proc'[v])
    BY <2>1, <2>3 DEF SInv
  <2> QED  BY <1>1, <2>4 DEF SInv
<1> QED  BY <1>2, <1>3, StepKinds

\* The second layer holds throughout.
THEOREM SlotInvariant == Spec => []SInv
<1>1. Init /\ CInv => SInv
  <2> SUFFICES ASSUME Init, CInv PROVE SInv
    OBVIOUS
  <2>1. \A w \in Workers : proc[w] = Fresh("down")
    BY DEF Init
  <2>2. Counted(Fresh("down"))
    BY FreshCounted
  <2>3. Apart(Fresh("down")) /\ CutsNone(Fresh("down"))
    BY FreshFields DEF Apart, CutsNone, LoopStates
  <2> QED  BY <2>1, <2>2, <2>3 DEF SInv
<1>2. SInv /\ [Next]_vars => SInv'
  BY SInvStep
<1> QED  BY <1>1, <1>2, CustodyInvariant, PTL DEF Spec

\* Admission, for any capacity and any listeners: every slot of the worker's
\* and the listeners' semaphores is held by one request in flight, or by the
\* event between tryAcquire and track, and no cap is exceeded.
THEOREM SlotsAlwaysAccounted == Spec => []SlotsAccounted
<1>1. SInv => SlotsAccounted
  BY DEF SInv, Counted, FlightsOf, ClaimsOf, SlotsAccounted
<1> QED  BY <1>1, SlotInvariant, PTL

\* Drain: once a wait ended without an error, no request of the process is
\* running, and none starts before it exits.
THEOREM DrainCutsNoRequest == Spec => []NoRequestCutOff
<1>1. SInv => NoRequestCutOff
  BY DEF SInv, CutsNone, NoRequestCutOff, Drainers
<1> QED  BY <1>1, SlotInvariant, PTL

-------------------------------------------------------------------------------
(* Leases and the hands they are in, as long as nothing fails.             *)

\* A process would still act on this claim.
Holds(p, c) ==
    \/ c \in p.batch \/ c \in p.pending
    \/ \E f \in p.flights : f.stage # "finish" /\ f.c = c
    \/ \E d \in Releasers : c \in p.drain[d].rel

\* The same, as InHand collects it.
LEMMA InHandHolds ==
  ASSUME NEW w \in Workers, NEW c
  PROVE  c \in InHand(w) <=> Holds(proc[w], c)
<1>1. c \in {f.c : f \in {g \in proc[w].flights : g.stage # "finish"}}
        <=> \E f \in proc[w].flights : f.stage # "finish" /\ f.c = c
  OBVIOUS
<1>2. c \in UNION {proc[w].drain[d].rel : d \in Releasers}
        <=> \E d \in Releasers : c \in proc[w].drain[d].rel
  OBVIOUS
<1> QED  BY <1>1, <1>2 DEF InHand, Holds

\* A new memory holds no claim.
LEMMA FreshHoldsNone ==
  ASSUME NEW s \in LoopStates, NEW c PROVE ~Holds(Fresh(s), c)
<1> DEFINE p == Fresh(s)
<1>1. /\ p.batch = {} /\ p.pending = {} /\ p.flights = {} /\ p.tracked = {}
      /\ \A d \in Releasers : p.drain[d].rel = {}
  BY FreshFields
<1> HIDE DEF p
<1>2. ~Holds(p, c)
  BY <1>1 DEF Holds
<1> QED  BY <1>2 DEF p

\* Whoever holds a claim remembers it.
LEMMA HoldsRemembers ==
  ASSUME NEW p, NEW c, Holds(p, c) PROVE Remembers(p, c)
  BY DEF Holds, Remembers

\* A count of failures that is still zero has seen none.
LEMMA NoFault ==
  ASSUME faults \in Nat, faults' = 0 PROVE ~Fault
  BY DEF Fault

\* Failures are never forgotten.
LEMMA FaultsGrow ==
  ASSUME proc \in [Workers -> Process], faults \in Nat, [Next]_vars PROVE faults <= faults'
<1>1. Fault => faults <= faults'
  BY DEF Fault
<1>2. UNCHANGED faults => faults <= faults'
  OBVIOUS
<1>3. ASSUME NEW w, NEW c, NEW v, SettleCall(w, c, v) PROVE faults <= faults'
  BY <1>1, <1>2, <1>3 DEF SettleCall
<1>4. ASSUME NEW w \in Workers, LoopStep(w) PROVE faults <= faults'
  <2>1. CASE TakePending(w)
    BY <2>1, TakeFields
  <2>2. CASE VisitUnknown(w) \/ VisitOversize(w)
    BY <1>3, <2>2 DEF VisitUnknown, VisitOversize, Consume
  <2> QED  BY <1>1, <1>2, <1>4, <2>1, <2>2 DEF LoopStep, Poll, Sweep, BeginClaim, SkipClaim,
              ClaimBatch, ClaimLost, DatabaseError, VisitNone, VisitBlocked, Acquire, Track,
              TrackRefused, RoundEnd, RetainCheck, Store, RetainReleased, Supervise
<1>5. ASSUME NEW w \in Workers, NEW f, FlightStep(w, f) PROVE faults <= faults'
  BY <1>2, <1>3, <1>5 DEF FlightStep, Refuse, Respond, SettleFlight, Finish
<1>6. ASSUME NEW w \in Workers, NEW d, DrainStep(w, d) PROVE faults <= faults'
  BY <1>1, <1>2, <1>6 DEF DrainStep, BeginDrain, DrainWaited, ReleaseOne, DrainEnd
<1>7. ASSUME NEW w \in Workers, ProcessStep(w) PROVE faults <= faults'
  BY <1>1, <1>2, <1>7 DEF ProcessStep, Start, Shutdown, Exit, ServerShutdownFails, Crash
<1>8. Outside => faults <= faults'
  BY <1>1, <1>2 DEF Outside, Surroundings, DueTime, LeaseRunsOut, wvars
<1>9. UNCHANGED vars => faults <= faults'
  BY <1>2 DEF vars, wvars
<1> QED  BY <1>4, <1>5, <1>6, <1>7, <1>8, <1>9, StepKinds DEF ProcStep

\* A settlement rewrites one row, and takes it out of delivery.
LEMMA SettledRow ==
  ASSUME QInv, NEW w, NEW e \in Events, NEW a,
         \/ Ack(w, e, a)
         \/ \E due \in BOOLEAN : Nack(w, e, a, due)
         \/ \E reason : Dead(w, e, a, reason)
  PROVE  /\ queue'[e].status # "delivering" /\ Leased(w, e)
         /\ \A x \in Events \ {e} : queue'[x] = queue[x]
         /\ UNCHANGED <<log, dropped, issued, resets>>
<1>1. queue \in [Events -> Row] /\ queue[e] \in Row
  BY DEF QInv, QTypeOK
<1>2. ASSUME NEW row, NEW ok, Settle(e, row, a, ok), row.status # "delivering"
      PROVE  /\ queue'[e].status # "delivering" /\ \A x \in Events \ {e} : queue'[x] = queue[x]
             /\ UNCHANGED <<log, dropped, issued, resets>>
  BY <1>1, <1>2 DEF Settle
<1>3. CASE Ack(w, e, a)
  BY <1>2, <1>3 DEF Ack, Absent
<1>4. ASSUME NEW due \in BOOLEAN, Nack(w, e, a, due)
      PROVE  /\ queue'[e].status # "delivering" /\ \A x \in Events \ {e} : queue'[x] = queue[x]
             /\ Leased(w, e) /\ UNCHANGED <<log, dropped, issued, resets>>
  <2> DEFINE row == [queue[e] EXCEPT !.status = "pending", !.due = due,
                                     !.leased_by = NoWorker, !.expired = FALSE]
  <2>1. row.status = "pending"
    BY <1>1 DEF Row
  <2>2. Leased(w, e) /\ Settle(e, row, a, FALSE)
    BY <1>4 DEF Nack
  <2> HIDE DEF row
  <2> QED  BY <1>2, <2>1, <2>2
<1>5. ASSUME NEW reason, Dead(w, e, a, reason)
      PROVE  /\ queue'[e].status # "delivering" /\ \A x \in Events \ {e} : queue'[x] = queue[x]
             /\ Leased(w, e) /\ UNCHANGED <<log, dropped, issued, resets>>
  <2> DEFINE row == [queue[e] EXCEPT !.status = "dead", !.dead_reason = reason,
                                     !.leased_by = NoWorker, !.expired = FALSE]
  <2>1. row.status = "dead"
    BY <1>1 DEF Row
  <2>2. Leased(w, e) /\ Settle(e, row, a, FALSE)
    BY <1>5 DEF Dead
  <2> HIDE DEF row
  <2> QED  BY <1>2, <2>1, <2>2
<1> QED  BY <1>3, <1>4, <1>5 DEF Ack

\* A settlement that does not fail ends the lease it is made under, whether
\* the guard matched it or not.
LEMMA SettledIsNotLeased ==
  ASSUME QInv, faults \in Nat, faults' = 0, NEW w \in Workers, NEW c \in Claim, NEW v,
         SettleCall(w, c, v)
  PROVE  ~Leased(w, c.id)'
<1>1. c.id \in Events /\ queue \in [Events -> Row]
  BY DEF Claim, QInv, QTypeOK
<1>2. CASE Transition(w, c, v)
  BY <1>1, <1>2, SettledRow DEF Transition, Leased
<1>3. CASE ~Leased(w, c.id) /\ UNCHANGED qvars
  BY <1>3 DEF Leased, qvars
<1> QED  BY <1>2, <1>3, NoFault DEF SettleCall

\* So does a release.
LEMMA ReleasedIsNotLeased ==
  ASSUME QInv, proc \in [Workers -> Process], faults \in Nat, faults' = 0,
         NEW w \in Workers, NEW d \in Releasers, ReleaseOne(w, d)
  PROVE  \E c \in proc[w].drain[d].rel : HandsBack(w, d, c) /\ ~Leased(w, c.id)'
<1>1. PICK c \in proc[w].drain[d].rel :
        /\ \/ Nack(w, c.id, c.attempt, TRUE)
           \/ ~Leased(w, c.id) /\ UNCHANGED qvars
        /\ HandsBack(w, d, c)
  BY NoFault DEF ReleaseOne, HandsBack
<1>2. c.id \in Events /\ queue \in [Events -> Row]
  <2>1. proc[w].drain[d] \in Drain
    BY ProcessFields
  <2> QED  BY <2>1 DEF Drain, Claim, QInv, QTypeOK
<1>3. CASE Nack(w, c.id, c.attempt, TRUE)
  BY <1>1, <1>2, <1>3, SettledRow DEF Leased
<1>4. CASE ~Leased(w, c.id) /\ UNCHANGED qvars
  BY <1>1, <1>4 DEF Leased, qvars
<1> QED  BY <1>1, <1>3, <1>4

\* Without a claim, no row becomes leased and no lease changes hands.
LEMMA RowKept ==
  ASSUME QInv, QStep \/ UNCHANGED qvars, issued' = issued, NEW e \in Events,
         queue'[e].status = "delivering"
  PROVE  queue[e].status = "delivering" /\ queue'[e].leased_by = queue[e].leased_by
<1>1. queue \in [Events -> Row] /\ issued \in [Events -> Nat]
  BY DEF QInv, QTypeOK
<1>2. CASE UNCHANGED qvars
  BY <1>2 DEF qvars
<1>3. ASSUME NEW x \in Events, Enqueue(x) \/ BecomeDue(x) \/ LeaseExpires(x)
      PROVE  queue[e].status = "delivering" /\ queue'[e].leased_by = queue[e].leased_by
  <2>1. CASE Enqueue(x)
    BY <1>1, <2>1 DEF Enqueue, Absent
  <2>2. CASE BecomeDue(x)
    <3>1. queue[x] \in Row /\ queue' = [queue EXCEPT ![x].due = TRUE]
      BY <1>1, <2>2 DEF BecomeDue
    <3>2. \A y \in Events \ {x} : queue'[y] = queue[y]
      BY <1>1, <3>1
    <3>3. queue'[x] = [queue[x] EXCEPT !.due = TRUE]
      BY <1>1, <3>1
    <3> QED  BY <3>1, <3>2, <3>3 DEF Row
  <2>3. CASE LeaseExpires(x)
    <3>1. queue[x] \in Row /\ queue' = [queue EXCEPT ![x].expired = TRUE]
      BY <1>1, <2>3 DEF LeaseExpires
    <3>2. \A y \in Events \ {x} : queue'[y] = queue[y]
      BY <1>1, <3>1
    <3>3. queue'[x] = [queue[x] EXCEPT !.expired = TRUE]
      BY <1>1, <3>1
    <3> QED  BY <3>1, <3>2, <3>3 DEF Row
  <2> QED  BY <1>3, <2>1, <2>2, <2>3
<1>4. ASSUME NEW w \in Workers, NEW S \in SUBSET Claimable, ClaimRows(w, S)
      PROVE  queue'[e] = queue[e]
  <2>1. e \notin S
    <3>1. e \in S => issued'[e] = issued[e] + 1
      BY <1>4 DEF ClaimRows
    <3>2. issued[e] \in Nat
      BY <1>1
    <3> QED  BY <3>1, <3>2
  <2> QED  BY <1>4, <2>1 DEF ClaimRows
<1>5. ASSUME NEW w \in Workers, NEW x \in Events, NEW a \in Nat,
             \/ Ack(w, x, a)
             \/ \E due \in BOOLEAN : Nack(w, x, a, due)
             \/ \E reason \in DeadReasons : Dead(w, x, a, reason)
      PROVE  queue'[e] = queue[e]
  BY <1>5, SettledRow
<1>6. CASE ReclaimExpired
  BY <1>1, <1>6 DEF ReclaimExpired, Row
<1>7. ASSUME NEW sel, NEW S \in SUBSET Events, RetryBatch(sel, S)
      PROVE  queue'[e] = queue[e]
  BY <1>1, <1>7 DEF RetryBatch, Row
<1>8. ASSUME NEW P \in SUBSET Events, DropPartition(P)
      PROVE  queue'[e] = queue[e]
  BY <1>1, <1>8 DEF DropPartition, Absent
<1> QED  BY <1>2, <1>3, <1>4, <1>5, <1>6, <1>7, <1>8 DEF QStep

\* Only a worker's claim grants.
LEMMA IssuedStays ==
  ASSUME Next, \A w \in Workers : ~ClaimBatch(w) /\ ~ClaimLost(w)
  PROVE  issued' = issued
<1>1. ASSUME NEW w, NEW c, NEW v, SettleCall(w, c, v) PROVE issued' = issued
  BY <1>1 DEF SettleCall, Transition, Ack, Nack, Dead, Settle, qvars
<1>2. ASSUME NEW w \in Workers, LoopStep(w) PROVE issued' = issued
  BY <1>1, <1>2 DEF LoopStep, Poll, Sweep, BeginClaim, SkipClaim, TakePending, DatabaseError,
     VisitNone, VisitUnknown, VisitOversize, Consume, VisitBlocked, Acquire, Track,
     TrackRefused, RoundEnd, RetainCheck, Store, RetainReleased, Supervise, ReclaimExpired, qvars
<1>3. ASSUME NEW w \in Workers, NEW f, FlightStep(w, f) PROVE issued' = issued
  BY <1>1, <1>3 DEF FlightStep, Refuse, Respond, SettleFlight, Finish, qvars
<1>4. ASSUME NEW w \in Workers, NEW d, DrainStep(w, d) PROVE issued' = issued
  BY <1>4 DEF DrainStep, BeginDrain, DrainWaited, ReleaseOne, DrainEnd, Nack, Settle, qvars
<1>5. ASSUME NEW w \in Workers, ProcessStep(w) PROVE issued' = issued
  BY <1>5 DEF ProcessStep, Start, Shutdown, Exit, ServerShutdownFails, Crash, qvars
<1>6. Outside => issued' = issued
  BY DEF Outside, Surroundings, DueTime, LeaseRunsOut, Enqueue, RetryBatch, DropPartition,
     BecomeDue, LeaseExpires
<1> QED  BY <1>2, <1>3, <1>4, <1>5, <1>6, StepKinds DEF ProcStep

\* Without a failure a process lets go of no claim whose lease goes on.
LEMMA HoldsOn ==
  ASSUME CInv, NEW w \in Workers, ProcStep(w), faults' = 0, exit'[w] = "none",
         NEW c, Holds(proc[w], c), Leased(w, c.id)'
  PROVE  Holds(proc'[w], c)
<1> DEFINE P == proc[w]
           q == proc'[w]
<1>1. /\ proc \in [Workers -> Process] /\ faults \in Nat /\ QInv /\ Tidy(P)
      /\ exit \in [Workers -> {"none", "clean", "error", "crash"}]
      /\ "retain" \in Releasers /\ P \in Process
  BY DEF CInv, IInv, TypeOK, Releasers
<1>2. CASE Turns(P, q)
  BY <1>2 DEF Turns, Still, KeepsClaims, KeepsRequests, KeepsDrain, Holds
<1>3. CASE TakePending(w)
  <2>1. /\ P.loop = "take" /\ q.batch = P.pending
        /\ KeepsRequests(P, q) /\ KeepsDrain(P, q)
    BY <1>1, <1>3, TakeFields
  <2>2. P.batch = {}
    BY <1>1, <2>1 DEF Tidy, TidyClaims, Resting
  <2> QED  BY <2>1, <2>2 DEF Holds, KeepsRequests, KeepsDrain
<1>4. CASE ClaimBatch(w)
  <2>1. /\ P.batch \subseteq q.batch /\ q.pending = P.pending
        /\ KeepsRequests(P, q) /\ KeepsDrain(P, q)
    <3>1. PICK S : Becomes(w, [P EXCEPT !.batch = @ \cup ClaimedEvents(S), !.loop = "visit"])
      BY <1>4 DEF ClaimBatch
    <3>2. /\ q.batch = P.batch \cup ClaimedEvents(S) /\ q.pending = P.pending
          /\ KeepsRequests(P, q) /\ KeepsDrain(P, q)
      BY <1>1, <3>1, ClaimFields
    <3> QED  BY <3>2
  <2> QED  BY <2>1 DEF Holds, KeepsRequests, KeepsDrain
<1>5. CASE VisitUnknown(w) \/ VisitOversize(w)
  <2>1. PICK x \in P.batch, reason \in DeadReasons : Consume(w, x, reason)
    BY <1>5 DEF VisitUnknown, VisitOversize, Heads, DeadReasons
  <2>2. /\ q.batch = P.batch \ {x} /\ q.pending = P.pending
        /\ KeepsRequests(P, q) /\ KeepsDrain(P, q)
    BY <1>1, <2>1, ConsumeFields
  <2>3. ~Leased(w, x.id)'
    <3>1. x \in Claim /\ SettleCall(w, x, reason)
      BY <1>1, <2>1, ProcessFields DEF Consume
    <3> QED  BY <1>1, <3>1, SettledIsNotLeased
  <2>4. c # x
    BY <2>3
  <2> QED  BY <2>2, <2>4 DEF Holds, KeepsRequests, KeepsDrain
<1>6. CASE Acquire(w) \/ TrackRefused(w)
  <2>1. KeepsClaims(P, q) /\ KeepsDrain(P, q) /\ q.flights = P.flights
    BY <1>1, <1>6, AcquireFields, RefusedFields
  <2> QED  BY <2>1 DEF Holds, KeepsClaims, KeepsDrain
<1>7. CASE Track(w)
  <2>1. /\ P.loop = "track" /\ q.batch = P.batch \ P.cur /\ q.pending = P.pending
        /\ q.flights = P.flights \cup Started(P.cur) /\ KeepsDrain(P, q)
    BY <1>1, <1>7, TrackFields
  <2>2. \A x \in P.cur : \E f \in Started(P.cur) : f.stage # "finish" /\ f.c = x
    <3> TAKE x \in P.cur
    <3> DEFINE g == [c |-> x, stage |-> "send", verdict |-> "none"]
    <3>1. g \in Started(P.cur)
      BY DEF Started
    <3>2. g.stage # "finish" /\ g.c = x
      OBVIOUS
    <3> QED  BY <3>1, <3>2
  <2> QED  BY <2>1, <2>2 DEF Holds, KeepsDrain
<1>8. CASE RetainCheck(w)
  <2>1. /\ P.loop = "retain" /\ q.pending = P.pending /\ KeepsRequests(P, q)
        /\ \A d \in Releasers \ {"retain"} : q.drain[d] = P.drain[d]
        /\ \/ q.drain["retain"].rel = P.batch
           \/ q.batch = P.batch /\ q.drain["retain"] = P.drain["retain"]
    BY <1>1, <1>8, RetainFields
  <2>2. P.drain["retain"].rel = {}
    BY <1>1, <2>1 DEF Tidy, TidyDrains
  <2> QED  BY <1>1, <2>1, <2>2 DEF Holds, KeepsRequests
<1>9. CASE Store(w)
  <2>1. /\ q.pending = P.pending \cup P.batch /\ KeepsRequests(P, q) /\ KeepsDrain(P, q)
    BY <1>1, <1>9, StoreFields
  <2> QED  BY <2>1 DEF Holds, KeepsRequests, KeepsDrain
<1>10. CASE RetainReleased(w)
  <2>1. /\ KeepsClaims(P, q) /\ KeepsRequests(P, q) /\ P.drain["retain"].rel = {}
        /\ \A d \in Releasers \ {"retain"} : q.drain[d] = P.drain[d]
    BY <1>1, <1>10, RetainReleasedFields
  <2> QED  BY <2>1 DEF Holds, KeepsClaims, KeepsRequests
<1>11. ASSUME NEW f \in P.flights, FlightStep(w, f) PROVE Holds(q, c)
  <2>1. f \in Flight /\ f.c \in Claim
    BY <1>1, ProcessFields DEF Flight
  <2>2. CASE Finish(w, f)
    <3>1. /\ f.stage = "finish" /\ q.flights = P.flights \ {f}
          /\ KeepsClaims(P, q) /\ KeepsDrain(P, q)
      BY <1>1, <2>2, FinishFields
    <3> QED  BY <3>1 DEF Holds, KeepsClaims, KeepsDrain
  <2>3. ASSUME NEW g, Move(w, f, g), g.c = f.c, g.stage = "settle" PROVE Holds(q, c)
    <3>1. /\ q.flights = (P.flights \ {f}) \cup {g} /\ KeepsClaims(P, q) /\ KeepsDrain(P, q)
      BY <1>1, <2>3, MoveFields
    <3> QED  BY <2>3, <3>1 DEF Holds, KeepsClaims, KeepsDrain
  <2>4. CASE Refuse(w, f) \/ Respond(w, f)
    <3>1. ASSUME NEW v
          PROVE  LET g == [f EXCEPT !.stage = "settle", !.verdict = v]
                 IN  g.c = f.c /\ g.stage = "settle"
      BY <2>1 DEF Flight
    <3> QED  BY <2>3, <2>4, <3>1 DEF Refuse, Respond
  <2>5. CASE SettleFlight(w, f)
    <3>1. ~Leased(w, f.c.id)'
      BY <1>1, <2>1, <2>5, SettledIsNotLeased DEF SettleFlight
    <3>2. PICK g : q.flights = (P.flights \ {f}) \cup {g} /\ KeepsClaims(P, q) /\ KeepsDrain(P, q)
      BY <1>1, <2>5, MoveFields DEF SettleFlight
    <3>3. c # f.c
      BY <3>1
    <3> QED  BY <3>2, <3>3 DEF Holds, KeepsClaims, KeepsDrain
  <2> QED  BY <1>11, <2>2, <2>4, <2>5 DEF FlightStep
<1>12. ASSUME NEW d \in Releasers, DrainStep(w, d) PROVE Holds(q, c)
  <2>1. CASE BeginDrain(w, d) \/ DrainEnd(w, d)
    <3>1. /\ KeepsClaims(P, q) /\ KeepsRequests(P, q) /\ q.drain[d].rel = P.drain[d].rel
          /\ \A b \in Releasers \ {d} : q.drain[b] = P.drain[b]
      <4>1. CASE BeginDrain(w, d)
        BY <1>1, <4>1, BeginDrainFields
      <4>2. CASE DrainEnd(w, d)
        <5>1. q.drain[d].rel = {} /\ P.drain[d].rel = {}
          BY <1>1, <4>2, DrainEndFields
        <5> QED  BY <1>1, <4>2, <5>1, DrainEndFields
      <4> QED  BY <2>1, <4>1, <4>2
    <3> QED  BY <3>1 DEF Holds, KeepsClaims, KeepsRequests
  <2>2. CASE DrainWaited(w, d) /\ d # "retain"
    <3>1. /\ P.drain[d].st = "wait" /\ q.drain[d].rel = P.tracked \cup P.pending
          /\ KeepsRequests(P, q) /\ q.batch = P.batch
          /\ \A b \in Releasers \ {d} : q.drain[b] = P.drain[b]
      BY <1>1, <2>2, DrainWaitedFields
    <3>2. P.drain[d].rel = {}
      BY <1>1, <2>2, <3>1 DEF Tidy, TidyDrains, Drainers, Releasers
    <3> QED  BY <3>1, <3>2 DEF Holds, KeepsRequests
  <2>3. CASE ReleaseOne(w, d)
    <3>1. PICK x \in P.drain[d].rel : HandsBack(w, d, x) /\ ~Leased(w, x.id)'
      BY <1>1, <2>3, ReleasedIsNotLeased
    <3>2. /\ q.drain[d].rel = {y \in P.drain[d].rel : y.id # x.id}
          /\ \A b \in Releasers \ {d} : q.drain[b] = P.drain[b]
          /\ KeepsClaims(P, q) /\ KeepsRequests(P, q)
      BY <1>1, <3>1, ReleaseFields
    <3>3. c.id # x.id
      BY <3>1
    <3> QED  BY <3>2, <3>3 DEF Holds, KeepsClaims, KeepsRequests
  <2> QED  BY <1>12, <2>1, <2>2, <2>3 DEF DrainStep
<1>13. CASE ProcessStep(w) /\ ~Shutdown(w)
  <2>1. P.loop = "down"
    BY <1>1, <1>13, FreshStep DEF ProcessStep
  <2>2. P = Fresh("down")
    BY <1>1, <2>1 DEF Tidy, TidyClaims
  <2>3. ~Holds(P, c)
    BY <2>2, FreshFields DEF Holds, LoopStates
  <2> QED  BY <2>3
<1> QED  BY <1>1, <1>2, <1>3, <1>4, <1>5, <1>6, <1>7, <1>8, <1>9, <1>10, <1>11, <1>12, <1>13,
            TurnFields DEF ProcStep, LoopStep, ProcessStep

\* An identity whose process has ended keeps its exit status until another
\* process of that identity ends.
LEMMA ExitKept ==
  ASSUME exit \in [Workers -> {"none", "clean", "error", "crash"}],
         [Next]_vars, NEW u \in Workers, exit'[u] = "none"
  PROVE  exit[u] = "none"
<1>1. CASE exit' = exit
  BY <1>1
<1>2. ASSUME NEW w \in Workers, NEW how \in {"clean", "error", "crash"}, Ends(w, how)
      PROVE  exit[u] = "none"
  BY <1>2 DEF Ends
<1>3. ASSUME NEW w \in Workers, LoopStep(w) PROVE exit' = exit
  BY <1>3 DEF LoopStep, Poll, Sweep, BeginClaim, SkipClaim, TakePending, DatabaseError,
     ClaimBatch, ClaimLost, VisitNone, VisitUnknown, VisitOversize, Consume, VisitBlocked,
     Acquire, Track, TrackRefused, RoundEnd, RetainCheck, Store, RetainReleased, Supervise
<1>4. ASSUME NEW w \in Workers, NEW f, FlightStep(w, f) PROVE exit' = exit
  BY <1>4 DEF FlightStep, Refuse, Respond, SettleFlight, Finish
<1>5. ASSUME NEW w \in Workers, NEW d, DrainStep(w, d) PROVE exit' = exit
  BY <1>5 DEF DrainStep, BeginDrain, DrainWaited, ReleaseOne, DrainEnd
<1>6. ASSUME NEW w \in Workers, ProcessStep(w) PROVE exit[u] = "none"
  <2>1. CASE Start(w) \/ Shutdown(w)
    BY <1>1, <2>1 DEF Start, Shutdown
  <2>2. CASE Exit(w) \/ ServerShutdownFails(w) \/ Crash(w)
    <3>1. \E how \in {"clean", "error", "crash"} : Ends(w, how)
      BY <2>2 DEF Exit, ServerShutdownFails, Crash
    <3> QED  BY <1>2, <3>1
  <2> QED  BY <1>6, <2>1, <2>2 DEF ProcessStep
<1>7. Outside => exit' = exit
  BY OutsideLeaves
<1>8. UNCHANGED vars => exit' = exit
  BY DEF vars, wvars
<1> QED  BY <1>1, <1>3, <1>4, <1>5, <1>6, <1>7, <1>8, StepKinds DEF ProcStep

\* A claim puts the lease it takes into the batch.
LEMMA ClaimHolds ==
  ASSUME QInv, proc \in [Workers -> Process], NEW w \in Workers, ClaimBatch(w),
         NEW e \in Events, issued'[e] # issued[e]
  PROVE  /\ queue'[e].leased_by = w
         /\ \E c \in proc'[w].batch : c.id = e /\ c.token = issued'[e]
<1>1. PICK S \in ClaimSets :
        /\ ClaimRows(w, S)
        /\ Becomes(w, [proc[w] EXCEPT !.batch = @ \cup ClaimedEvents(S), !.loop = "visit"])
  BY DEF ClaimBatch
<1>2. S \subseteq Claimable /\ queue[e] \in Row
  BY DEF ClaimSets, QInv, QTypeOK
<1>3. e \in S
  BY <1>1 DEF ClaimRows
<1>4. e \in log
  BY <1>2, <1>3 DEF Claimable, QInv, RowsAreLogged
<1>5. queue'[e].leased_by = w /\ issued'[e] = issued[e] + 1
  BY <1>1, <1>2, <1>3 DEF ClaimRows, Row
<1>6. proc'[w].batch = proc[w].batch \cup ClaimedEvents(S)
  BY <1>1, ClaimFields
<1> DEFINE c == [id |-> e, attempt |-> queue[e].attempts + 1,
                 token |-> issued[e] + 1, epoch |-> resets[e]]
<1>7. c \in ClaimedEvents(S)
  BY <1>3, <1>4 DEF ClaimedEvents
<1>8. c.id = e /\ c.token = issued[e] + 1
  OBVIOUS
<1> QED  BY <1>5, <1>6, <1>7, <1>8

\* The holder of a lease has the claim that took it.
HasClaim(u, e) == \E c : Holds(proc[u], c) /\ c.id = e /\ c.token = issued[e]

LeasesHeld ==
    faults = 0 =>
        \A e \in Events, u \in Workers : Leased(u, e) /\ exit[u] = "none" => HasClaim(u, e)

\* Steps forget no lease.
LEMMA ForgetsNone ==
  ASSUME CInv, LeasesHeld, [Next]_vars
  PROVE  LeasesHeld'
<1>1. /\ proc \in [Workers -> Process] /\ faults \in Nat /\ QInv /\ IInv
      /\ exit \in [Workers -> {"none", "clean", "error", "crash"}]
  BY DEF CInv, IInv, TypeOK
<1>2. CInv' /\ QInv' /\ faults' \in Nat
  BY CInvStep DEF CInv, IInv, TypeOK
<1> SUFFICES ASSUME faults' = 0, NEW e \in Events, NEW u \in Workers, Leased(u, e)',
                    exit'[u] = "none"
             PROVE  HasClaim(u, e)'
  BY DEF LeasesHeld
<1>3. queue'[e].status = "delivering" /\ queue'[e].leased_by = u
  BY DEF Leased
<1>4. faults = 0 /\ exit[u] = "none"
  <2>1. faults <= faults'
    BY <1>1, FaultsGrow
  <2> QED  BY <1>1, <2>1, ExitKept
<1>5. ASSUME issued' = issued
      PROVE  HasClaim(u, e)'
  <2>1. QStep \/ UNCHANGED qvars
    BY <1>1, NextTables DEF vars
  <2>2. Leased(u, e)
    BY <1>1, <1>3, <1>5, <2>1, RowKept DEF Leased
  <2>5. PICK c : Holds(proc[u], c) /\ c.id = e /\ c.token = issued[e]
    BY <1>4, <2>2 DEF LeasesHeld, HasClaim
  <2>6. CASE proc'[u] = proc[u]
    BY <1>5, <2>5, <2>6 DEF HasClaim
  <2>7. CASE ProcStep(u)
    <3>2. Holds(proc'[u], c)
      BY <2>5, <2>7, HoldsOn
    <3> QED  BY <1>5, <2>5, <3>2 DEF HasClaim
  <2>8. proc'[u] = proc[u] \/ ProcStep(u)
    <3>1. Outside \/ UNCHANGED vars => proc' = proc
      BY OutsideLeaves DEF vars, wvars
    <3>2. ASSUME NEW w \in Workers, ProcStep(w), w # u PROVE proc'[u] = proc[u]
      BY <1>1, <3>2, StepIsOwn DEF Only
    <3> QED  BY <3>1, <3>2, StepKinds
  <2> QED  BY <2>6, <2>7, <2>8
<1>6. CASE Next /\ \A w \in Workers : ~ClaimBatch(w) /\ ~ClaimLost(w)
  BY <1>5, <1>6, IssuedStays
<1>7. CASE UNCHANGED vars
  BY <1>5, <1>7 DEF vars, qvars
<1>8. ASSUME NEW w \in Workers, ClaimLost(w) PROVE FALSE
  BY <1>1, <1>8, NoFault DEF ClaimLost
<1>9. ASSUME NEW w \in Workers, ClaimBatch(w)
      PROVE  HasClaim(u, e)'
  <2>1. CASE issued'[e] # issued[e]
    BY <1>1, <1>3, <1>9, <2>1, ClaimHolds DEF HasClaim, Holds
  <2>2. CASE issued'[e] = issued[e]
    <3>1. PICK S \in ClaimSets : ClaimRows(w, S)
      BY <1>9 DEF ClaimBatch
    <3>2. e \notin S
      <4>1. e \in S => issued'[e] = issued[e] + 1
        BY <3>1 DEF ClaimRows
      <4>2. issued[e] \in Nat
        BY <1>1 DEF QInv, QTypeOK
      <4> QED  BY <2>2, <4>1, <4>2
    <3>3. queue'[e] = queue[e]
      BY <3>1, <3>2 DEF ClaimRows
    <3>6. PICK c : Holds(proc[u], c) /\ c.id = e /\ c.token = issued[e]
      BY <1>3, <1>4, <3>3 DEF LeasesHeld, HasClaim, Leased
    <3>7. ProcStep(w)
      BY <1>9 DEF ProcStep, LoopStep
    <3>8. CASE u = w
      <4>2. Holds(proc'[u], c)
        BY <3>6, <3>7, <3>8, HoldsOn
      <4> QED  BY <2>2, <3>6, <4>2 DEF HasClaim
    <3>9. CASE u # w
      <4>1. proc'[u] = proc[u]
        BY <1>1, <3>7, <3>9, StepIsOwn DEF Only
      <4> QED  BY <2>2, <3>6, <4>1 DEF HasClaim
    <3> QED  BY <3>8, <3>9
  <2> QED  BY <2>1, <2>2
<1> QED  BY <1>6, <1>7, <1>8, <1>9

\* The worker's bookkeeping, for any number of workers and events: while
\* nothing has failed, a leased row whose holder has not exited is in that
\* process's hands under the claim the row carries.
THEOREM NoLeaseForgotten == Spec => []NoForgottenLease
<1>1. Init => LeasesHeld
  BY DEF Init, QInit, LeasesHeld, Leased, Absent
<1>2. CInv /\ LeasesHeld /\ [Next]_vars => LeasesHeld'
  BY ForgetsNone
<1>3. CInv /\ LeasesHeld => NoForgottenLease
  <2> SUFFICES ASSUME CInv, LeasesHeld, faults = 0, NEW e \in Events,
                      queue[e].status = "delivering", exit[queue[e].leased_by] = "none"
               PROVE  \E c \in InHand(queue[e].leased_by) : c.id = e /\ c.token = issued[e]
    BY DEF NoForgottenLease
  <2>1. queue[e].leased_by \in Workers
    BY DEF CInv, IInv, QInv, DeliveringIsOwned
  <2>2. HasClaim(queue[e].leased_by, e)
    BY <2>1 DEF LeasesHeld, Leased
  <2> QED  BY <2>1, <2>2, InHandHolds DEF HasClaim
<1> QED  BY <1>1, <1>2, <1>3, CustodyInvariant, PTL DEF Spec

-------------------------------------------------------------------------------
(* A request under way holds its event's lease, as long as nothing fails   *)
(* and no operator resets the event.                                       *)

\* What is on a release list is nowhere else, and on no other list.
RelApart(p) ==
    \A d \in Releasers : \A r \in p.drain[d].rel :
        /\ \A c \in p.batch \cup p.pending : ~SameLease(c, r)
        /\ \A f \in p.flights : ~SameLease(f.c, r)
        /\ \A b \in Releasers \ {d} : \A s \in p.drain[b].rel : ~SameLease(r, s)

\* Fewer claims on shorter lists are no nearer to each other.
LEMMA RelApartLess ==
  ASSUME NEW p, NEW q, RelApart(p),
         q.batch \cup q.pending \subseteq p.batch \cup p.pending,
         \A f \in q.flights : \/ \E g \in p.flights : g.c = f.c
                              \/ f.c \in p.batch \cup p.pending,
         \A d \in Releasers : q.drain[d].rel \subseteq p.drain[d].rel
  PROVE  RelApart(q)
<1> SUFFICES ASSUME NEW d \in Releasers, NEW r \in q.drain[d].rel
             PROVE  /\ \A c \in q.batch \cup q.pending : ~SameLease(c, r)
                    /\ \A f \in q.flights : ~SameLease(f.c, r)
                    /\ \A b \in Releasers \ {d} : \A s \in q.drain[b].rel : ~SameLease(r, s)
  BY DEF RelApart
<1>1. r \in p.drain[d].rel
  OBVIOUS
<1>2. /\ \A c \in p.batch \cup p.pending : ~SameLease(c, r)
      /\ \A f \in p.flights : ~SameLease(f.c, r)
      /\ \A b \in Releasers \ {d} : \A s \in p.drain[b].rel : ~SameLease(r, s)
  BY <1>1 DEF RelApart
<1>3. \A c \in q.batch \cup q.pending : ~SameLease(c, r)
  BY <1>2
<1>4. \A f \in q.flights : ~SameLease(f.c, r)
  BY <1>2 DEF SameLease
<1>5. \A b \in Releasers \ {d} : \A s \in q.drain[b].rel : ~SameLease(r, s)
  BY <1>2
<1> QED  BY <1>3, <1>4, <1>5

\* A list filled with what the loop has let go of is apart from the rest.
LEMMA RelApartMoved ==
  ASSUME NEW p, NEW q, Apart(p), RelApart(p), NEW d \in Releasers,
         q.drain[d].rel \subseteq p.batch \cup p.pending,
         \A b \in Releasers \ {d} : q.drain[b] = p.drain[b],
         q.batch \cup q.pending \subseteq p.batch \cup p.pending,
         q.flights = p.flights,
         \A c \in q.batch \cup q.pending : c \notin q.drain[d].rel
  PROVE  RelApart(q)
<1>0. \A c, s : SameLease(c, s) => SameLease(s, c)
  BY DEF SameLease
<1> SUFFICES ASSUME NEW a \in Releasers, NEW r \in q.drain[a].rel
             PROVE  /\ \A c \in q.batch \cup q.pending : ~SameLease(c, r)
                    /\ \A f \in q.flights : ~SameLease(f.c, r)
                    /\ \A b \in Releasers \ {a} : \A s \in q.drain[b].rel : ~SameLease(r, s)
  BY DEF RelApart
<1>1. CASE a = d
  <2>1. r \in p.batch \cup p.pending
    BY <1>1
  <2>2. \A c \in q.batch \cup q.pending : ~SameLease(c, r)
    BY <1>1, <2>1 DEF Apart
  <2>3. \A f \in q.flights : ~SameLease(f.c, r)
    BY <1>0, <2>1 DEF Apart
  <2>4. ASSUME NEW b \in Releasers \ {a}, NEW s \in q.drain[b].rel PROVE ~SameLease(r, s)
    <3>1. s \in p.drain[b].rel
      BY <1>1
    <3> QED  BY <2>1, <3>1 DEF RelApart
  <2> QED  BY <2>2, <2>3, <2>4
<1>2. CASE a # d
  <2>1. r \in p.drain[a].rel
    BY <1>2
  <2>2. /\ \A c \in p.batch \cup p.pending : ~SameLease(c, r)
        /\ \A f \in p.flights : ~SameLease(f.c, r)
        /\ \A b \in Releasers \ {a} : \A s \in p.drain[b].rel : ~SameLease(r, s)
    BY <2>1 DEF RelApart
  <2>3. ASSUME NEW b \in Releasers \ {a}, NEW s \in q.drain[b].rel PROVE ~SameLease(r, s)
    <3>1. CASE b = d
      BY <1>0, <2>2, <3>1
    <3>2. CASE b # d
      BY <2>2, <3>2
    <3> QED  BY <3>1, <3>2
  <2> QED  BY <2>2, <2>3
<1> QED  BY <1>1, <1>2

\* The steps of a process keep its release lists apart.
LEMMA StepRelApart ==
  ASSUME SInv, NEW w \in Workers, RelApart(proc[w]), ProcStep(w), faults' = 0
  PROVE  RelApart(proc'[w])
<1> DEFINE P == proc[w]
           q == proc'[w]
<1>1. /\ proc \in [Workers -> Process] /\ faults \in Nat /\ QInv /\ Tidy(P) /\ AllGranted(P)
      /\ exit \in [Workers -> {"none", "clean", "error", "crash"}]
      /\ "retain" \in Releasers /\ P \in Process /\ Apart(P)
  BY DEF SInv, CInv, IInv, TypeOK, Releasers
<1>2. CASE Turns(P, q)
  <2>1. KeepsClaims(P, q) /\ KeepsRequests(P, q) /\ KeepsDrain(P, q)
    BY <1>2 DEF Turns, Still
  <2> QED  BY <2>1, RelApartLess DEF KeepsClaims, KeepsRequests, KeepsDrain
<1>3. CASE TakePending(w)
  <2>1. /\ q.batch \subseteq P.pending /\ q.pending = {}
        /\ KeepsRequests(P, q) /\ KeepsDrain(P, q)
    BY <1>1, <1>3, TakeFields
  <2> QED  BY <2>1, RelApartLess DEF KeepsRequests, KeepsDrain
<1>4. CASE VisitUnknown(w) \/ VisitOversize(w)
  <2>1. PICK c, reason : Consume(w, c, reason)
    BY <1>4 DEF VisitUnknown, VisitOversize
  <2>2. /\ q.batch = P.batch \ {c} /\ q.pending = P.pending
        /\ KeepsRequests(P, q) /\ KeepsDrain(P, q)
    BY <1>1, <2>1, ConsumeFields
  <2> QED  BY <2>2, RelApartLess DEF KeepsRequests, KeepsDrain
<1>5. CASE Acquire(w) \/ TrackRefused(w)
  <2>1. KeepsClaims(P, q) /\ KeepsDrain(P, q) /\ q.flights = P.flights
    BY <1>1, <1>5, AcquireFields, RefusedFields
  <2> QED  BY <2>1, RelApartLess DEF KeepsClaims, KeepsDrain
<1>6. CASE Store(w)
  <2>1. /\ q.pending = P.pending \cup P.batch /\ q.batch = {}
        /\ KeepsRequests(P, q) /\ KeepsDrain(P, q)
    BY <1>1, <1>6, StoreFields
  <2> QED  BY <2>1, RelApartLess DEF KeepsRequests, KeepsDrain
<1>7. CASE RetainReleased(w)
  <2>1. /\ KeepsClaims(P, q) /\ KeepsRequests(P, q) /\ q.drain["retain"].rel = {}
        /\ \A d \in Releasers \ {"retain"} : q.drain[d] = P.drain[d]
    BY <1>1, <1>7, RetainReleasedFields
  <2>2. \A d \in Releasers : q.drain[d].rel \subseteq P.drain[d].rel
    BY <2>1
  <2> QED  BY <2>1, <2>2, RelApartLess DEF KeepsClaims, KeepsRequests
<1>8. CASE RetainCheck(w)
  <2>1. /\ P.loop = "retain" /\ q.pending = P.pending /\ KeepsRequests(P, q)
        /\ \A d \in Releasers \ {"retain"} : q.drain[d] = P.drain[d]
        /\ \/ q.batch = {} /\ q.drain["retain"].rel = P.batch
           \/ q.batch = P.batch /\ q.drain["retain"] = P.drain["retain"]
    BY <1>1, <1>8, RetainFields
  <2>2. P.drain["retain"].rel = {} /\ P.pending = {}
    BY <1>1, <2>1 DEF Tidy, TidyClaims, TidyDrains, Resting
  <2>3. /\ q.drain["retain"].rel \subseteq P.batch \cup P.pending
        /\ \A c \in q.batch \cup q.pending : c \notin q.drain["retain"].rel
        /\ q.batch \cup q.pending \subseteq P.batch \cup P.pending
    BY <2>1, <2>2
  <2> QED  BY <1>1, <2>1, <2>3, RelApartMoved DEF KeepsRequests
<1>9. ASSUME NEW d \in Releasers, DrainStep(w, d) PROVE RelApart(q)
  <2>1. CASE BeginDrain(w, d)
    <3>1. /\ KeepsClaims(P, q) /\ KeepsRequests(P, q) /\ q.drain[d].rel = P.drain[d].rel
          /\ \A b \in Releasers \ {d} : q.drain[b] = P.drain[b]
      BY <1>1, <2>1, BeginDrainFields
    <3>2. \A b \in Releasers : q.drain[b].rel \subseteq P.drain[b].rel
      BY <3>1
    <3> QED  BY <3>1, <3>2, RelApartLess DEF KeepsClaims, KeepsRequests
  <2>2. CASE DrainEnd(w, d)
    <3>1. /\ KeepsClaims(P, q) /\ KeepsRequests(P, q) /\ q.drain[d].rel = {}
          /\ \A b \in Releasers \ {d} : q.drain[b] = P.drain[b]
      BY <1>1, <2>2, DrainEndFields
    <3>2. \A b \in Releasers : q.drain[b].rel \subseteq P.drain[b].rel
      BY <3>1
    <3> QED  BY <3>1, <3>2, RelApartLess DEF KeepsClaims, KeepsRequests
  <2>3. CASE DrainWaited(w, d)
    <3>1. /\ q.drain[d].rel = P.tracked \cup P.pending /\ P.tracked = {}
          /\ KeepsRequests(P, q) /\ q.batch = P.batch /\ q.pending = {}
          /\ \A b \in Releasers \ {d} : q.drain[b] = P.drain[b]
      BY <1>1, <2>3, DrainWaitedFields
    <3>2. P.batch = {} \/ P.pending = {}
      BY <1>1 DEF Tidy, TidyClaims
    <3>3. /\ q.drain[d].rel \subseteq P.batch \cup P.pending
          /\ \A c \in q.batch \cup q.pending : c \notin q.drain[d].rel
          /\ q.batch \cup q.pending \subseteq P.batch \cup P.pending
      BY <3>1, <3>2
    <3> QED  BY <1>1, <3>1, <3>3, RelApartMoved DEF KeepsRequests
  <2>4. CASE ReleaseOne(w, d)
    <3>1. PICK x : HandsBack(w, d, x)
      BY <2>4 DEF ReleaseOne, HandsBack
    <3>2. /\ q.drain[d].rel = {y \in P.drain[d].rel : y.id # x.id}
          /\ \A b \in Releasers \ {d} : q.drain[b] = P.drain[b]
          /\ KeepsClaims(P, q) /\ KeepsRequests(P, q)
      BY <1>1, <3>1, ReleaseFields
    <3>3. \A b \in Releasers : q.drain[b].rel \subseteq P.drain[b].rel
      BY <3>2
    <3> QED  BY <3>2, <3>3, RelApartLess DEF KeepsClaims, KeepsRequests
  <2> QED  BY <1>9, <2>1, <2>2, <2>3, <2>4 DEF DrainStep
<1>10. CASE ProcessStep(w) /\ ~Shutdown(w)
  <2>1. q = Fresh("idle") \/ q = Fresh("down")
    BY <1>1, <1>10, FreshStep DEF ProcessStep
  <2>2. \A d \in Releasers : q.drain[d].rel = {}
    BY <2>1, FreshFields DEF LoopStates
  <2> QED  BY <2>2 DEF RelApart
<1>11. CASE Track(w)
  <2>1. /\ P.loop = "track" /\ q.batch = P.batch \ P.cur /\ q.pending = P.pending
        /\ q.flights = P.flights \cup Started(P.cur) /\ KeepsDrain(P, q)
    BY <1>1, <1>11, TrackFields
  <2>2. PICK x \in P.batch : P.cur = {x} /\ \A f \in Started(P.cur) : f.c = x
    BY <1>1, <2>1, TrackedClaim
  <2>3. \A f \in q.flights : \/ \E g \in P.flights : g.c = f.c
                             \/ f.c \in P.batch \cup P.pending
    BY <2>1, <2>2
  <2> QED  BY <2>1, <2>3, RelApartLess DEF KeepsDrain
<1>12. ASSUME NEW f \in P.flights, FlightStep(w, f) PROVE RelApart(q)
  <2>1. CASE Finish(w, f)
    <3>1. q.flights = P.flights \ {f} /\ KeepsClaims(P, q) /\ KeepsDrain(P, q)
      BY <1>1, <2>1, FinishFields
    <3> QED  BY <3>1, RelApartLess DEF KeepsClaims, KeepsDrain
  <2>2. CASE ~Finish(w, f)
    <3>1. f \in Flight
      BY <1>1, ProcessFields
    <3>2. PICK g : g.c = f.c /\ Move(w, f, g)
      BY <1>12, <2>2, <3>1, FlightMoves DEF FlightStep
    <3>3. /\ q.flights = (P.flights \ {f}) \cup {g} /\ KeepsClaims(P, q) /\ KeepsDrain(P, q)
      BY <1>1, <3>2, MoveFields
    <3>4. \A h \in q.flights : \E k \in P.flights : k.c = h.c
      BY <3>2, <3>3
    <3> QED  BY <3>3, <3>4, RelApartLess DEF KeepsClaims, KeepsDrain
  <2> QED  BY <2>1, <2>2
<1>13. CASE ClaimBatch(w)
  <2>1. PICK S \in ClaimSets :
          /\ ClaimRows(w, S)
          /\ Becomes(w, [P EXCEPT !.batch = @ \cup ClaimedEvents(S), !.loop = "visit"])
    BY <1>13 DEF ClaimBatch
  <2>2. /\ q.batch = P.batch \cup ClaimedEvents(S) /\ q.pending = P.pending
        /\ q.flights = P.flights /\ q.drain = P.drain
    BY <1>1, <2>1, ClaimFields DEF KeepsRequests, KeepsDrain
  <2>3. ASSUME NEW c \in ClaimedEvents(S), NEW d \in Releasers, NEW r \in P.drain[d].rel
        PROVE  ~SameLease(c, r)
    <3>1. c.id \in Events /\ c.token = issued[c.id] + 1
      BY <1>1, <2>1, ClaimGranted DEF Claim
    <3>2. r.token <= issued[r.id] /\ issued[c.id] \in Nat /\ r.token \in Nat
      <4>1. Remembers(P, r)
        BY DEF Remembers
      <4>2. r \in Claim /\ Granted(r)
        BY <1>1, <4>1, RemembersClaims DEF AllGranted
      <4> QED  BY <1>1, <3>1, <4>2 DEF Granted, Claim, QInv, QTypeOK
    <3> QED  BY <3>1, <3>2 DEF SameLease
  <2> QED  BY <2>2, <2>3 DEF RelApart
<1> QED  BY <1>1, <1>2, <1>3, <1>4, <1>5, <1>6, <1>7, <1>8, <1>9, <1>10, <1>11, <1>12, <1>13,
            TurnFields DEF ProcStep, LoopStep, ProcessStep

\* Without a failure a process comes to hold a claim by claiming alone.
LEMMA HeldBefore ==
  ASSUME CInv, NEW w \in Workers, ProcStep(w), faults' = 0, ~ClaimBatch(w),
         NEW c, Holds(proc'[w], c)
  PROVE  Holds(proc[w], c)
<1> DEFINE P == proc[w]
           q == proc'[w]
<1>1. /\ proc \in [Workers -> Process] /\ faults \in Nat /\ QInv /\ Tidy(P)
      /\ exit \in [Workers -> {"none", "clean", "error", "crash"}]
      /\ "retain" \in Releasers /\ P \in Process
  BY DEF CInv, IInv, TypeOK, Releasers
<1>2. CASE Turns(P, q)
  BY <1>2 DEF Turns, Still, KeepsClaims, KeepsRequests, KeepsDrain, Holds
<1>3. CASE TakePending(w)
  <2>1. /\ q.batch \subseteq P.pending /\ q.pending = {}
        /\ KeepsRequests(P, q) /\ KeepsDrain(P, q)
    BY <1>1, <1>3, TakeFields
  <2> QED  BY <2>1 DEF Holds, KeepsRequests, KeepsDrain
<1>4. CASE VisitUnknown(w) \/ VisitOversize(w)
  <2>1. PICK x, reason : Consume(w, x, reason)
    BY <1>4 DEF VisitUnknown, VisitOversize
  <2>2. /\ q.batch = P.batch \ {x} /\ q.pending = P.pending
        /\ KeepsRequests(P, q) /\ KeepsDrain(P, q)
    BY <1>1, <2>1, ConsumeFields
  <2> QED  BY <2>2 DEF Holds, KeepsRequests, KeepsDrain
<1>5. CASE Acquire(w) \/ TrackRefused(w)
  <2>1. KeepsClaims(P, q) /\ KeepsDrain(P, q) /\ q.flights = P.flights
    BY <1>1, <1>5, AcquireFields, RefusedFields
  <2> QED  BY <2>1 DEF Holds, KeepsClaims, KeepsDrain
<1>6. CASE Track(w)
  <2>1. /\ P.loop = "track" /\ q.batch = P.batch \ P.cur /\ q.pending = P.pending
        /\ q.flights = P.flights \cup Started(P.cur) /\ KeepsDrain(P, q)
    BY <1>1, <1>6, TrackFields
  <2>2. PICK x \in P.batch : P.cur = {x} /\ \A f \in Started(P.cur) : f.c = x
    BY <1>1, <2>1, TrackedClaim
  <2> QED  BY <2>1, <2>2 DEF Holds, KeepsDrain
<1>7. CASE RetainCheck(w)
  <2>1. /\ q.pending = P.pending /\ KeepsRequests(P, q)
        /\ \A d \in Releasers \ {"retain"} : q.drain[d] = P.drain[d]
        /\ \/ q.batch = {} /\ q.drain["retain"].rel = P.batch
           \/ q.batch = P.batch /\ q.drain["retain"] = P.drain["retain"]
    BY <1>1, <1>7, RetainFields
  <2> QED  BY <1>1, <2>1 DEF Holds, KeepsRequests
<1>8. CASE Store(w)
  <2>1. /\ q.pending = P.pending \cup P.batch /\ q.batch = {}
        /\ KeepsRequests(P, q) /\ KeepsDrain(P, q)
    BY <1>1, <1>8, StoreFields
  <2> QED  BY <2>1 DEF Holds, KeepsRequests, KeepsDrain
<1>9. CASE RetainReleased(w)
  <2>1. /\ KeepsClaims(P, q) /\ KeepsRequests(P, q) /\ q.drain["retain"].rel = {}
        /\ \A d \in Releasers \ {"retain"} : q.drain[d] = P.drain[d]
    BY <1>1, <1>9, RetainReleasedFields
  <2> QED  BY <2>1 DEF Holds, KeepsClaims, KeepsRequests
<1>10. ASSUME NEW f \in P.flights, FlightStep(w, f) PROVE Holds(P, c)
  <2>1. f \in Flight
    BY <1>1, ProcessFields
  <2>2. CASE Finish(w, f)
    <3>1. q.flights = P.flights \ {f} /\ KeepsClaims(P, q) /\ KeepsDrain(P, q)
      BY <1>1, <2>2, FinishFields
    <3> QED  BY <3>1 DEF Holds, KeepsClaims, KeepsDrain
  <2>3. ASSUME NEW g, Move(w, f, g), g.c = f.c, f.stage # "finish" PROVE Holds(P, c)
    <3>1. /\ q.flights = (P.flights \ {f}) \cup {g} /\ KeepsClaims(P, q) /\ KeepsDrain(P, q)
      BY <1>1, <2>3, MoveFields
    <3> QED  BY <2>3, <3>1 DEF Holds, KeepsClaims, KeepsDrain
  <2>4. CASE Refuse(w, f) \/ Respond(w, f) \/ SettleFlight(w, f)
    <3>1. f.stage # "finish"
      BY <2>4 DEF Refuse, Respond, SettleFlight
    <3> QED  BY <2>1, <2>3, <2>4, <3>1, FlightMoves
  <2> QED  BY <1>10, <2>2, <2>4 DEF FlightStep
<1>11. ASSUME NEW d \in Releasers, DrainStep(w, d) PROVE Holds(P, c)
  <2>1. CASE BeginDrain(w, d)
    BY <1>1, <2>1, BeginDrainFields DEF Holds, KeepsClaims, KeepsRequests
  <2>2. CASE DrainEnd(w, d)
    BY <1>1, <2>2, DrainEndFields DEF Holds, KeepsClaims, KeepsRequests
  <2>3. CASE DrainWaited(w, d)
    <3>1. /\ q.drain[d].rel = P.tracked \cup P.pending /\ P.tracked = {}
          /\ KeepsRequests(P, q) /\ q.batch = P.batch /\ q.pending = {}
          /\ \A b \in Releasers \ {d} : q.drain[b] = P.drain[b]
      BY <1>1, <2>3, DrainWaitedFields
    <3> QED  BY <3>1 DEF Holds, KeepsRequests
  <2>4. CASE ReleaseOne(w, d)
    <3>1. PICK x : HandsBack(w, d, x)
      BY <2>4 DEF ReleaseOne, HandsBack
    <3>2. /\ q.drain[d].rel = {y \in P.drain[d].rel : y.id # x.id}
          /\ \A b \in Releasers \ {d} : q.drain[b] = P.drain[b]
          /\ KeepsClaims(P, q) /\ KeepsRequests(P, q)
      BY <1>1, <3>1, ReleaseFields
    <3> QED  BY <3>2 DEF Holds, KeepsClaims, KeepsRequests
  <2> QED  BY <1>11, <2>1, <2>2, <2>3, <2>4 DEF DrainStep
<1>12. CASE ProcessStep(w) /\ ~Shutdown(w)
  <2>1. q = Fresh("idle") \/ q = Fresh("down")
    BY <1>1, <1>12, FreshStep DEF ProcessStep
  <2>2. ~Holds(q, c)
    BY <2>1, FreshHoldsNone DEF LoopStates
  <2> QED  BY <2>2
<1> QED  BY <1>1, <1>2, <1>3, <1>4, <1>5, <1>6, <1>7, <1>8, <1>9, <1>10, <1>11, <1>12,
            TurnFields DEF ProcStep, LoopStep, ProcessStep

\* A process lets go of a claim: dead-lettered, settled or released.
LetsGo(w, c) ==
    \/ c \in proc[w].batch /\ proc[w].loop = "visit" /\ \E reason : Consume(w, c, reason)
    \/ \E f \in proc[w].flights : f.c = c /\ SettleFlight(w, f)
    \/ \E d \in Releasers : c \in proc[w].drain[d].rel /\ HandsBack(w, d, c)

\* The row of a lease that has not expired changes by its holder's own
\* settlement, as far as processes are concerned.
LEMMA RowTouched ==
  ASSUME CInv, NEW v \in Workers, ProcStep(v), NEW w \in Workers, NEW e \in Events,
         Leased(w, e), ~queue[e].expired
  PROVE  \/ queue'[e] = queue[e] /\ issued'[e] = issued[e] /\ resets' = resets
         \/ v = w /\ \E c \in Claim : c.id = e /\ LetsGo(w, c)
<1> DEFINE Untouched == queue'[e] = queue[e] /\ issued'[e] = issued[e] /\ resets' = resets
<1>1. /\ proc \in [Workers -> Process] /\ faults \in Nat /\ QInv
      /\ queue[e].status = "delivering" /\ queue[e].leased_by = w
  BY DEF CInv, IInv, TypeOK, Leased
<1>2. ASSUME UNCHANGED qvars PROVE Untouched
  BY <1>2 DEF qvars
<1>3. ASSUME NEW x \in Events, NEW a,
             \/ Ack(v, x, a) \/ (\E due \in BOOLEAN : Nack(v, x, a, due))
             \/ \E reason : Dead(v, x, a, reason)
      PROVE  Untouched \/ (v = w /\ x = e)
  <2>1. /\ Leased(v, x) /\ (\A y \in Events \ {x} : queue'[y] = queue[y])
        /\ UNCHANGED <<issued, resets>>
    BY <1>1, <1>3, SettledRow
  <2> QED  BY <1>1, <2>1 DEF Leased
<1>4. ASSUME NEW c \in Claim, NEW verdict, SettleCall(v, c, verdict)
      PROVE  Untouched \/ (v = w /\ c.id = e)
  <2>1. c.id \in Events
    BY DEF Claim
  <2> QED  BY <1>2, <1>3, <1>4, <2>1 DEF SettleCall, Transition
<1>5. ASSUME NEW S \in ClaimSets, ClaimRows(v, S) PROVE Untouched
  <2>1. e \notin S
    BY <1>1 DEF ClaimSets, Claimable
  <2> QED  BY <1>5, <2>1 DEF ClaimRows
<1>6. CASE LoopStep(v)
  <2>1. CASE VisitUnknown(v) \/ VisitOversize(v)
    <3>1. PICK c \in proc[v].batch, reason \in DeadReasons : Consume(v, c, reason)
      BY <2>1 DEF VisitUnknown, VisitOversize, Heads, DeadReasons
    <3>2. c \in Claim /\ SettleCall(v, c, reason) /\ proc[v].loop = "visit"
      BY <1>1, <2>1, <3>1, ProcessFields DEF Consume, VisitUnknown, VisitOversize, Visiting
    <3>3. Untouched \/ (v = w /\ c.id = e)
      BY <1>4, <3>2
    <3> QED  BY <3>1, <3>2, <3>3 DEF LetsGo
  <2>2. CASE Sweep(v)
    <3>1. e \notin ExpiredLeases
      BY DEF ExpiredLeases
    <3> QED  BY <2>2, <3>1 DEF Sweep, ReclaimExpired
  <2>3. CASE ClaimBatch(v) \/ ClaimLost(v)
    BY <1>5, <2>3 DEF ClaimBatch, ClaimLost
  <2> QED  BY <1>2, <1>6, <2>1, <2>2, <2>3 DEF LoopStep, Poll, BeginClaim, SkipClaim, VisitNone,
              VisitBlocked, Acquire, Track, TrackRefused, RoundEnd, RetainCheck, Store,
              RetainReleased, Supervise, DatabaseError, TakePending
<1>7. ASSUME NEW f \in proc[v].flights, FlightStep(v, f)
      PROVE  Untouched \/ (v = w /\ \E c \in Claim : c.id = e /\ LetsGo(w, c))
  <2>1. f.c \in Claim
    BY <1>1, ProcessFields DEF Flight
  <2>2. CASE SettleFlight(v, f)
    <3>1. Untouched \/ (v = w /\ f.c.id = e)
      BY <1>4, <2>1, <2>2 DEF SettleFlight
    <3> QED  BY <2>1, <2>2, <3>1 DEF LetsGo
  <2> QED  BY <1>2, <1>7, <2>2 DEF FlightStep, Refuse, Respond, Finish
<1>8. ASSUME NEW d \in Releasers, DrainStep(v, d)
      PROVE  Untouched \/ (v = w /\ \E c \in Claim : c.id = e /\ LetsGo(w, c))
  <2>1. CASE ReleaseOne(v, d)
    <3>1. PICK c \in proc[v].drain[d].rel :
            HandsBack(v, d, c) /\ (UNCHANGED qvars \/ Nack(v, c.id, c.attempt, TRUE))
      BY <2>1 DEF ReleaseOne, HandsBack
    <3>2. proc[v].drain[d] \in Drain
      BY <1>1, ProcessFields
    <3>3. c \in Claim /\ c.id \in Events
      BY <3>2 DEF Drain, Claim
    <3>4. Untouched \/ (v = w /\ c.id = e)
      BY <1>2, <1>3, <3>1, <3>3
    <3> QED  BY <3>1, <3>3, <3>4 DEF LetsGo
  <2> QED  BY <1>2, <1>8, <2>1 DEF DrainStep, BeginDrain, DrainWaited, DrainEnd
<1>9. CASE ProcessStep(v)
  BY <1>2, <1>9 DEF ProcessStep, Start, Shutdown, Exit, ServerShutdownFails, Crash
<1> QED  BY <1>6, <1>7, <1>8, <1>9 DEF ProcStep

\* What a process lets go of is in none of its other hands.
LEMMA LetGoIsGone ==
  ASSUME SInv, NEW w \in Workers, RelApart(proc[w]), NEW x, LetsGo(w, x), NEW c, SameLease(c, x)
  PROVE  ~Holds(proc'[w], c)
<1> DEFINE P == proc[w]
           q == proc'[w]
<1>0. \A a, b : SameLease(a, b) => SameLease(b, a)
  BY DEF SameLease
<1>b. SameLease(x, c)
  BY <1>0
<1>1. /\ proc \in [Workers -> Process] /\ Tidy(P) /\ P \in Process /\ Apart(P)
  BY DEF SInv, CInv, IInv, TypeOK
<1>2. ASSUME x \in P.batch, P.loop = "visit", NEW reason, Consume(w, x, reason)
      PROVE  ~Holds(q, c)
  <2>1. /\ q.batch = P.batch \ {x} /\ q.pending = P.pending
        /\ KeepsRequests(P, q) /\ KeepsDrain(P, q)
    BY <1>1, <1>2, ConsumeFields
  <2>2. c \notin q.batch /\ c \notin q.pending
    <3>1. P.pending = {}
      BY <1>1, <1>2 DEF Tidy, TidyClaims, Resting
    <3> QED  BY <1>1, <1>2, <2>1, <3>1 DEF Apart
  <2>3. \A f \in q.flights : f.c # c
    BY <1>1, <1>2, <1>b, <2>1 DEF Apart, KeepsRequests
  <2>4. \A d \in Releasers : c \notin q.drain[d].rel
    BY <1>2, <1>b, <2>1 DEF RelApart, KeepsDrain
  <2> QED  BY <2>2, <2>3, <2>4 DEF Holds
<1>3. ASSUME NEW f \in P.flights, f.c = x, SettleFlight(w, f) PROVE ~Holds(q, c)
  <2>0. f \in Flight
    BY <1>1, ProcessFields
  <2>1. /\ q.flights = (P.flights \ {f}) \cup {[f EXCEPT !.stage = "finish"]}
        /\ KeepsClaims(P, q) /\ KeepsDrain(P, q)
    BY <1>1, <1>3, MoveFields DEF SettleFlight
  <2>2. [f EXCEPT !.stage = "finish"].stage = "finish"
    BY <2>0 DEF Flight
  <2>3. ASSUME NEW h \in q.flights, h.stage # "finish" PROVE h.c # c
    <3>1. h \in P.flights /\ h # f
      BY <2>1, <2>2, <2>3
    <3>2. ~SameLease(h.c, f.c)
      BY <1>1, <3>1 DEF Apart
    <3> QED  BY <1>3, <3>2
  <2>4. c \notin q.batch /\ c \notin q.pending
    BY <1>1, <1>3, <2>1 DEF Apart, KeepsClaims
  <2>5. \A d \in Releasers : c \notin q.drain[d].rel
    BY <1>3, <1>b, <2>1 DEF RelApart, KeepsDrain
  <2> QED  BY <2>3, <2>4, <2>5 DEF Holds
<1>4. ASSUME NEW d \in Releasers, x \in P.drain[d].rel, HandsBack(w, d, x) PROVE ~Holds(q, c)
  <2>1. /\ q.drain[d].rel = {y \in P.drain[d].rel : y.id # x.id}
        /\ \A b \in Releasers \ {d} : q.drain[b] = P.drain[b]
        /\ KeepsClaims(P, q) /\ KeepsRequests(P, q)
    BY <1>1, <1>4, ReleaseFields
  <2>2. /\ \A y \in P.batch \cup P.pending : ~SameLease(y, x)
        /\ \A f \in P.flights : ~SameLease(f.c, x)
        /\ \A b \in Releasers \ {d} : \A s \in P.drain[b].rel : ~SameLease(x, s)
    BY <1>4 DEF RelApart
  <2>3. c.id = x.id
    BY DEF SameLease
  <2>4. \A b \in Releasers : c \notin q.drain[b].rel
    BY <1>b, <2>1, <2>2, <2>3
  <2>5. c \notin q.batch /\ c \notin q.pending /\ \A f \in q.flights : f.c # c
    BY <2>1, <2>2 DEF KeepsClaims, KeepsRequests
  <2> QED  BY <2>4, <2>5 DEF Holds
<1> QED  BY <1>2, <1>3, <1>4 DEF LetsGo

\* No process resets an event.
LEMMA StepResets ==
  ASSUME NEW w \in Workers, ProcStep(w)
  PROVE  resets' = resets
<1>1. ASSUME NEW c, NEW v, SettleCall(w, c, v) PROVE resets' = resets
  BY <1>1 DEF SettleCall, Transition, Ack, Nack, Dead, Settle, qvars
<1>2. CASE LoopStep(w)
  BY <1>1, <1>2 DEF LoopStep, Poll, Sweep, BeginClaim, SkipClaim, TakePending, DatabaseError,
     ClaimBatch, ClaimLost, ClaimRows, VisitNone, VisitUnknown, VisitOversize, Consume,
     VisitBlocked, Acquire, Track, TrackRefused, RoundEnd, RetainCheck, Store, RetainReleased,
     Supervise, ReclaimExpired, qvars
<1>3. ASSUME NEW f, FlightStep(w, f) PROVE resets' = resets
  BY <1>1, <1>3 DEF FlightStep, Refuse, Respond, SettleFlight, Finish, qvars
<1>4. ASSUME NEW d, DrainStep(w, d) PROVE resets' = resets
  BY <1>4 DEF DrainStep, BeginDrain, DrainWaited, ReleaseOne, DrainEnd, Nack, Settle, qvars
<1>5. CASE ProcessStep(w)
  BY <1>5 DEF ProcessStep, Start, Shutdown, Exit, ServerShutdownFails, Crash, qvars
<1> QED  BY <1>2, <1>3, <1>4, <1>5 DEF ProcStep

\* Letting go takes a claim that was held.
LEMMA LetGoWasHeld ==
  ASSUME NEW w, NEW x, LetsGo(w, x)
  PROVE  Holds(proc[w], x)
  BY DEF LetsGo, Holds, SettleFlight

\* The claim stands for a running lease of w, the last one granted.
Rightful(w, c) ==
    Leased(w, c.id) /\ ~queue[c.id].expired /\ c.token = issued[c.id]

HeldIsRightful(w) ==
    \A c : Holds(proc[w], c) /\ resets[c.id] = 0 => Rightful(w, c)

\* The third layer of the invariant.
HInv ==
    /\ SInv
    /\ faults = 0 => \A w \in Workers : RelApart(proc[w]) /\ HeldIsRightful(w)

\* What surrounds the workers leaves a held lease alone, unless the lease
\* runs out in their hands or an operator resets the event.
LEMMA OutsideTouches ==
  ASSUME CInv, Outside, NEW w \in Workers, NEW e \in Events, Leased(w, e),
         \E c : Holds(proc[w], c) /\ c.id = e, faults' = 0, resets'[e] = 0
  PROVE  queue'[e] = queue[e] /\ issued'[e] = issued[e] /\ resets'[e] = resets[e]
<1>1. /\ faults \in Nat /\ QInv /\ queue[e].status = "delivering" /\ queue[e].leased_by = w
      /\ queue \in [Events -> Row] /\ resets[e] \in Nat
  BY DEF CInv, IInv, TypeOK, Leased, QInv, QTypeOK
<1>2. ASSUME NEW x \in Events, Enqueue(x) PROVE queue'[e] = queue[e] /\ UNCHANGED <<issued, resets>>
  <2>1. e # x
    BY <1>1, <1>2 DEF Enqueue, QInv, RowsAreLogged
  <2> QED  BY <1>1, <1>2, <2>1 DEF Enqueue
<1>3. ASSUME NEW sel, NEW S, RetryBatch(sel, S)
      PROVE  queue'[e] = queue[e] /\ UNCHANGED issued /\ resets'[e] = resets[e]
  <2>1. e \notin S
    <3>1. e \in S => resets'[e] = resets[e] + 1
      BY <1>3 DEF RetryBatch
    <3> QED  BY <1>1, <3>1
  <2> QED  BY <1>3, <2>1 DEF RetryBatch
<1>4. ASSUME NEW P, DropPartition(P) PROVE queue'[e] = queue[e] /\ UNCHANGED <<issued, resets>>
  <2>1. e \notin P
    BY <1>1, <1>4 DEF DropPartition
  <2> QED  BY <1>4, <2>1 DEF DropPartition
<1>5. ASSUME NEW x \in Events, DueTime(x) PROVE queue'[e] = queue[e] /\ UNCHANGED <<issued, resets>>
  <2>1. e # x
    BY <1>1, <1>5 DEF DueTime, BecomeDue
  <2> QED  BY <1>1, <1>5, <2>1 DEF DueTime, BecomeDue
<1>6. ASSUME NEW x \in Events, LeaseRunsOut(x)
      PROVE  queue'[e] = queue[e] /\ UNCHANGED <<issued, resets>>
  <2>1. e # x
    <3>1. \E c \in InHand(queue[e].leased_by) : c.id = e
      BY <1>1, InHandHolds
    <3> QED  BY <1>1, <1>6, <3>1, NoFault DEF LeaseRunsOut
  <2> QED  BY <1>1, <1>6, <2>1 DEF LeaseRunsOut, LeaseExpires
<1> QED  BY <1>2, <1>3, <1>4, <1>5, <1>6 DEF Outside, Surroundings

\* Claimed rows carry the lease their claim stands for.
LEMMA ClaimIsRightful ==
  ASSUME QInv, NEW w \in Workers, NEW S \in ClaimSets, ClaimRows(w, S), NEW c \in ClaimedEvents(S)
  PROVE  Rightful(w, c)'
<1>1. c \in Claim /\ c.id \in S /\ c.token = issued'[c.id]
  BY ClaimGranted
<1>2. c.id \in Events /\ queue[c.id] \in Row
  BY <1>1 DEF Claim, QInv, QTypeOK
<1> DEFINE row == [queue[c.id] EXCEPT !.status = "delivering", !.attempts = @ + 1,
                                      !.leased_by = w, !.expired = FALSE]
<1>3. queue'[c.id] = row
  BY <1>1, <1>2 DEF ClaimRows
<1>4. row.status = "delivering" /\ row.leased_by = w /\ row.expired = FALSE
  BY <1>2 DEF Row
<1> QED  BY <1>1, <1>3, <1>4 DEF Rightful, Leased

\* Steps keep the third layer.
LEMMA HInvStep ==
  ASSUME HInv, [Next]_vars
  PROVE  HInv'
<1>1. /\ SInv /\ CInv /\ proc \in [Workers -> Process] /\ faults \in Nat /\ QInv
      /\ resets \in [Events -> Nat]
  BY DEF HInv, SInv, CInv, IInv, TypeOK, QInv, QTypeOK
<1>2. SInv' /\ proc' \in [Workers -> Process] /\ resets' \in [Events -> Nat]
  BY <1>1, SInvStep DEF SInv, CInv, IInv, TypeOK, QInv, QTypeOK
<1> SUFFICES ASSUME faults' = 0, NEW w \in Workers
             PROVE  RelApart(proc[w])' /\ HeldIsRightful(w)'
  BY <1>2 DEF HInv
<1>3. faults = 0
  <2>1. faults <= faults'
    BY <1>1, FaultsGrow
  <2> QED  BY <1>1, <2>1
<1>4. RelApart(proc[w]) /\ HeldIsRightful(w)
  BY <1>3 DEF HInv
<1>5. proc'[w] = proc[w] \/ ProcStep(w)
  <2>1. Outside \/ UNCHANGED vars => proc' = proc
    BY OutsideLeaves DEF vars, wvars
  <2>2. ASSUME NEW v \in Workers, ProcStep(v), v # w PROVE proc'[w] = proc[w]
    BY <1>1, <2>2, StepIsOwn DEF Only
  <2> QED  BY <2>1, <2>2, StepKinds
<1>6. RelApart(proc'[w])
  BY <1>1, <1>4, <1>5, StepRelApart
<1>7. ASSUME NEW c, Holds(proc'[w], c), resets'[c.id] = 0 PROVE Rightful(w, c)'
  <2>1. c \in Claim /\ c.id \in Events
    <3>1. c \in Claim
      BY <1>2, <1>7, HoldsRemembers, RemembersClaims
    <3> QED  BY <3>1 DEF Claim
  <2>2. ASSUME Holds(proc[w], c) PROVE Rightful(w, c)'
    <3>1. ASSUME resets[c.id] = 0, queue'[c.id] = queue[c.id], issued'[c.id] = issued[c.id]
          PROVE  Rightful(w, c)'
      <4>1. Rightful(w, c)
        BY <1>4, <2>2, <3>1 DEF HeldIsRightful
      <4> QED  BY <3>1, <4>1 DEF Rightful, Leased
    <3>2. CASE UNCHANGED vars
      BY <1>7, <3>1, <3>2 DEF vars, qvars
    <3>3. ASSUME resets[c.id] = 0 PROVE Leased(w, c.id) /\ ~queue[c.id].expired
      BY <1>4, <2>2, <3>3 DEF HeldIsRightful, Rightful
    <3>4. CASE Outside
      <4>1. resets[c.id] = 0
        <5>1. resets[c.id] \in Nat /\ (resets'[c.id] = resets[c.id] \/ resets'[c.id] = resets[c.id] + 1)
          BY <1>1, <2>1, <3>4 DEF Outside, Surroundings, DueTime, LeaseRunsOut, Enqueue,
             RetryBatch, DropPartition, BecomeDue, LeaseExpires
        <5> QED  BY <1>7, <5>1
      <4>2. queue'[c.id] = queue[c.id] /\ issued'[c.id] = issued[c.id]
        BY <1>1, <1>7, <2>1, <2>2, <3>3, <3>4, <4>1, OutsideTouches
      <4> QED  BY <3>1, <4>1, <4>2
    <3>5. ASSUME NEW v \in Workers, ProcStep(v) PROVE Rightful(w, c)'
      <4>0. resets' = resets
        BY <3>5, StepResets
      <4>1. resets[c.id] = 0
        BY <1>7, <4>0
      <4>2. \/ queue'[c.id] = queue[c.id] /\ issued'[c.id] = issued[c.id] /\ resets' = resets
            \/ v = w /\ \E x \in Claim : x.id = c.id /\ LetsGo(w, x)
        BY <1>1, <2>1, <3>3, <3>5, <4>1, RowTouched
      <4>3. ASSUME NEW x \in Claim, x.id = c.id, LetsGo(w, x) PROVE FALSE
        <5>1. Rightful(w, x) /\ Rightful(w, c)
          BY <1>4, <2>2, <4>1, <4>3, LetGoWasHeld DEF HeldIsRightful
        <5>2. SameLease(c, x)
          BY <4>3, <5>1 DEF Rightful, SameLease
        <5> QED  BY <1>1, <1>4, <1>7, <4>3, <5>2, LetGoIsGone
      <4> QED  BY <3>1, <4>1, <4>2, <4>3
    <3> QED  BY <3>2, <3>4, <3>5, StepKinds
  <2>3. CASE ClaimBatch(w)
    <3>1. PICK S \in ClaimSets :
            /\ ClaimRows(w, S)
            /\ Becomes(w, [proc[w] EXCEPT !.batch = @ \cup ClaimedEvents(S), !.loop = "visit"])
      BY <2>3 DEF ClaimBatch
    <3>2. /\ proc'[w].batch = proc[w].batch \cup ClaimedEvents(S)
          /\ proc'[w].pending = proc[w].pending
          /\ KeepsRequests(proc[w], proc'[w]) /\ KeepsDrain(proc[w], proc'[w])
      BY <1>1, <3>1, ClaimFields
    <3>3. Holds(proc[w], c) \/ c \in ClaimedEvents(S)
      BY <1>7, <3>2 DEF Holds, KeepsRequests, KeepsDrain
    <3> QED  BY <1>1, <2>2, <3>1, <3>3, ClaimIsRightful
  <2>4. CASE ProcStep(w) /\ ~ClaimBatch(w)
    BY <1>1, <1>7, <2>2, <2>4, HeldBefore
  <2> QED  BY <1>5, <1>7, <2>2, <2>3, <2>4
<1> QED  BY <1>6, <1>7 DEF HeldIsRightful

\* The third layer holds throughout.
THEOREM LeaseInvariant == Spec => []HInv
<1>1. Init /\ SInv => HInv
  <2> SUFFICES ASSUME Init, SInv, NEW w \in Workers PROVE RelApart(proc[w]) /\ HeldIsRightful(w)
    BY DEF HInv
  <2>1. proc[w] = Fresh("down")
    BY DEF Init
  <2>2. ASSUME NEW c PROVE ~Holds(Fresh("down"), c)
    BY FreshHoldsNone DEF LoopStates
  <2>3. RelApart(Fresh("down"))
    <3> DEFINE p == Fresh("down")
    <3>1. "down" \in LoopStates
      BY DEF LoopStates
    <3>2. /\ p.batch = {} /\ p.pending = {} /\ p.flights = {} /\ p.tracked = {}
          /\ \A d \in Releasers : p.drain[d].rel = {}
      BY <3>1, FreshFields
    <3> HIDE DEF p
    <3>3. RelApart(p)
      BY <3>2 DEF RelApart
    <3> QED  BY <3>3 DEF p
  <2> QED  BY <2>1, <2>2, <2>3 DEF HeldIsRightful
<1>2. HInv /\ [Next]_vars => HInv'
  BY HInvStep
<1> QED  BY <1>1, <1>2, SlotInvariant, PTL DEF Spec

\* Duplicates have a cause, for any number of workers: while nothing has
\* failed and no operator has reset an event, at most one request for it is
\* under way.
THEOREM OneRequestOnly == Spec => []OneRequestAtATime
<1>1. HInv => OneRequestAtATime
  <2> SUFFICES ASSUME HInv, NEW e \in Events, faults = 0, resets[e] = 0
               PROVE  Cardinality(Requests(e)) <= 1
    BY DEF OneRequestAtATime
  <2>1. ASSUME NEW w \in Workers, NEW f \in proc[w].flights, f.c.id = e, f.stage = "send"
        PROVE  queue[e].leased_by = w /\ f.c.token = issued[e]
    <3>1. Holds(proc[w], f.c)
      BY <2>1 DEF Holds
    <3>2. Rightful(w, f.c)
      BY <2>1, <3>1 DEF HInv, HeldIsRightful
    <3> QED  BY <2>1, <3>2 DEF Rightful, Leased
  <2>2. ASSUME NEW r \in Requests(e), NEW s \in Requests(e) PROVE r = s
    <3>a. PICK w \in Workers : \E f \in proc[w].flights :
            r = <<w, f>> /\ f.c.id = e /\ f.stage = "send"
      BY DEF Requests
    <3>1. PICK f \in proc[w].flights :
            r = <<w, f>> /\ f.c.id = e /\ f.stage = "send"
      BY <3>a
    <3>b. PICK v \in Workers : \E g \in proc[v].flights :
            s = <<v, g>> /\ g.c.id = e /\ g.stage = "send"
      BY DEF Requests
    <3>2. PICK g \in proc[v].flights :
            s = <<v, g>> /\ g.c.id = e /\ g.stage = "send"
      BY <3>b
    <3>3. w = v /\ SameLease(f.c, g.c)
      BY <2>1, <3>1, <3>2 DEF SameLease
    <3>4. f = g
      BY <3>3 DEF HInv, SInv, Apart
    <3> QED  BY <3>1, <3>2, <3>3, <3>4
  <2>3. CASE Requests(e) = {}
    BY <2>3, FS_EmptySet
  <2>4. ASSUME NEW r \in Requests(e) PROVE Cardinality(Requests(e)) <= 1
    <3>1. Requests(e) = {r}
      BY <2>2
    <3>2. Cardinality({r}) = 1
      BY FS_Singleton
    <3> QED  BY <3>1, <3>2
  <2> QED  BY <2>3, <2>4
<1> QED  BY <1>1, LeaseInvariant, PTL

\* This step settles the event of a request only under that request's own claim,
\* unless an operator has reset the event.
SettlesOwnClaims ==
    \A w \in Workers : \A f \in proc[w].flights :
        /\ f.stage = "settle" /\ resets[f.c.id] = 0
        /\ [f EXCEPT !.stage = "finish"] \in proc'[w].flights
        /\ queue'[f.c.id] # queue[f.c.id]
        => f.c.token = issued[f.c.id]

\* A stale settlement has a cause: while nothing has failed and no operator has
\* reset the event, Ack, Nack and Dead are applied to the claim their request was
\* sent under, as source/doc.go says. What breaks it is a lease that runs out
\* under a request, never the order of the loop, the requests and the drains.
THEOREM StaleSettleNeedsFailure == Spec => [][faults = 0 => SettlesOwnClaims]_vars
<1>1. HInv /\ [Next]_vars => (faults = 0 => SettlesOwnClaims)
  <2> SUFFICES ASSUME HInv, faults = 0, NEW w \in Workers, NEW f \in proc[w].flights,
                      f.stage = "settle", resets[f.c.id] = 0
               PROVE  f.c.token = issued[f.c.id]
    BY DEF SettlesOwnClaims
  <2>1. Holds(proc[w], f.c)
    BY DEF Holds
  <2>2. Rightful(w, f.c)
    BY <2>1 DEF HInv, HeldIsRightful
  <2> QED  BY <2>2 DEF Rightful
<1> QED  BY <1>1, LeaseInvariant, PTL DEF Spec

-------------------------------------------------------------------------------
(* Dead letters and their causes.                                          *)

\* A destination has refused the event for good.
Refused(e) == \E s \in answers[e] : s # TransportError /\ ClassifyStatus(s) = "terminal"

\* Why an event may be set aside; an exhausted attempt is one on record.
Cause(e, reason) ==
    CASE reason = "unknown listener" -> ListenerOf[e] \notin Configured
      [] reason = "payload size"     -> e \in Oversize
      [] reason = "envelope"         -> e \in Unbuildable
      [] reason = "attempt"          ->
            \/ Refused(e)
            \/ \E d \in deliveries : /\ d.event_id = e
                                     /\ Terminal(MaxAttempts[ListenerOf[e]], d.attempt)

\* Why a request may carry a dead letter's verdict before it is recorded.
FlightCaused(f) ==
    f.verdict \in DeadReasons =>
        \/ f.verdict = "envelope" /\ f.c.id \in Unbuildable
        \/ /\ f.verdict = "attempt"
           /\ Refused(f.c.id) \/ Terminal(MaxAttempts[ListenerOf[f.c.id]], f.c.attempt)

\* The judgement of an answer: only a final refusal or a spent budget is a
\* dead letter.
LEMMA VerdictCause ==
  ASSUME NEW c, NEW answer, Verdict(c, answer) \in DeadReasons
  PROVE  /\ Verdict(c, answer) = "attempt"
         /\ \/ answer # TransportError /\ ClassifyStatus(answer) = "terminal"
            \/ Terminal(MaxAttempts[ListenerOf[c.id]], c.attempt)
<1> DEFINE outcome == classifyAttempt(MaxAttempts[ListenerOf[c.id]], c.attempt, answer)
<1>1. ClassifyStatus(answer) \in {"success", "retryable", "terminal"}
  BY DEF ClassifyStatus
<1>2. /\ outcome \in {"success", "retryable", "terminal"}
      /\ outcome = "terminal" =>
            \/ answer # TransportError /\ ClassifyStatus(answer) = "terminal"
            \/ Terminal(MaxAttempts[ListenerOf[c.id]], c.attempt)
  BY <1>1 DEF classifyAttempt, ShouldRetry
<1> HIDE DEF outcome
<1>3. Verdict(c, answer) = CASE outcome = "success"   -> "success"
                             [] outcome = "retryable" -> "retry"
                             [] outcome = "terminal"  -> "attempt"
  BY DEF Verdict, outcome
<1> QED  BY <1>2, <1>3 DEF DeadReasons

\* Answers are never taken back.
LEMMA AnswersGrow ==
  ASSUME answers \in [Events -> SUBSET Answers], [Next]_vars, NEW e \in Events
  PROVE  answers[e] \subseteq answers'[e]
<1>1. ASSUME NEW w \in Workers, LoopStep(w) PROVE answers' = answers
  BY <1>1 DEF LoopStep, Poll, Sweep, BeginClaim, SkipClaim, TakePending, DatabaseError,
     ClaimBatch, ClaimLost, VisitNone, VisitUnknown, VisitOversize, Consume, VisitBlocked,
     Acquire, Track, TrackRefused, RoundEnd, RetainCheck, Store, RetainReleased, Supervise
<1>2. ASSUME NEW w \in Workers, NEW f, FlightStep(w, f) PROVE answers[e] \subseteq answers'[e]
  <2>1. CASE Respond(w, f)
    BY <2>1 DEF Respond
  <2> QED  BY <1>2, <2>1 DEF FlightStep, Refuse, SettleFlight, Finish
<1>3. ASSUME NEW w \in Workers, NEW d, DrainStep(w, d) PROVE answers' = answers
  BY <1>3 DEF DrainStep, BeginDrain, DrainWaited, ReleaseOne, DrainEnd
<1>4. ASSUME NEW w \in Workers, ProcessStep(w) PROVE answers' = answers
  BY <1>4 DEF ProcessStep, Start, Shutdown, Exit, ServerShutdownFails, Crash
<1>5. Outside \/ UNCHANGED vars => answers' = answers
  BY OutsideLeaves DEF vars, wvars
<1> QED  BY <1>1, <1>2, <1>3, <1>4, <1>5, StepKinds DEF ProcStep

\* An attempt on record stays on record; a later outcome may replace its own.
LEMMA RecordsStay ==
  ASSUME QInv, QStep \/ UNCHANGED qvars, NEW d \in deliveries
  PROVE  \E r \in deliveries' : r.event_id = d.event_id /\ r.attempt = d.attempt
<1>1. CASE UNCHANGED deliveries
  BY <1>1
<1>2. ASSUME NEW e \in Events, NEW a \in Nat, NEW ok \in BOOLEAN, deliveries' = Recorded(e, a, ok)
      PROVE  \E r \in deliveries' : r.event_id = d.event_id /\ r.attempt = d.attempt
  <2> DEFINE n == [event_id |-> e, attempt |-> a, ok |-> ok]
  <2>1. n \in deliveries' /\ n.event_id = e /\ n.attempt = a
    BY <1>2 DEF Recorded
  <2>2. (d.event_id = e /\ d.attempt = a) \/ d \in deliveries'
    BY <1>2 DEF Recorded
  <2> HIDE DEF n
  <2> QED  BY <2>1, <2>2
<1>3. QStep => \/ UNCHANGED deliveries
               \/ \E e \in Events, a \in Nat, ok \in BOOLEAN : deliveries' = Recorded(e, a, ok)
  BY DEF QStep, Enqueue, BecomeDue, LeaseExpires, ClaimRows, Ack, Nack, Dead, Settle,
     ReclaimExpired, RetryBatch, DropPartition
<1> QED  BY <1>1, <1>2, <1>3 DEF qvars

\* So a cause, once there, stays.
LEMMA CauseStays ==
  ASSUME IInv, [Next]_vars, NEW e \in Events, NEW reason \in DeadReasons, Cause(e, reason)
  PROVE  Cause(e, reason)'
<1>1. QInv /\ answers \in [Events -> SUBSET Answers]
  BY DEF IInv, TypeOK
<1>2. Refused(e) => Refused(e)'
  <2>1. answers[e] \subseteq answers'[e]
    BY <1>1, AnswersGrow
  <2> QED  BY <2>1 DEF Refused
<1>3. ASSUME NEW d \in deliveries, d.event_id = e, Terminal(MaxAttempts[ListenerOf[e]], d.attempt)
      PROVE  \E r \in deliveries' : r.event_id = e /\ Terminal(MaxAttempts[ListenerOf[e]], r.attempt)
  <2>1. QStep \/ UNCHANGED qvars
    BY NextTables DEF vars
  <2>2. PICK r \in deliveries' : r.event_id = d.event_id /\ r.attempt = d.attempt
    BY <1>1, <2>1, RecordsStay
  <2> QED  BY <1>3, <2>2
<1>4. CASE reason = "unknown listener"
  BY <1>4 DEF Cause
<1>5. CASE reason = "payload size"
  BY <1>5 DEF Cause
<1>6. CASE reason = "envelope"
  BY <1>6 DEF Cause
<1>7. CASE reason = "attempt"
  <2>1. \/ Refused(e)
        \/ \E d \in deliveries : d.event_id = e /\ Terminal(MaxAttempts[ListenerOf[e]], d.attempt)
    BY <1>7 DEF Cause
  <2>2. \/ Refused(e)'
        \/ \E d \in deliveries' : d.event_id = e /\ Terminal(MaxAttempts[ListenerOf[e]], d.attempt)
    BY <1>2, <1>3, <2>1
  <2> QED  BY <1>7, <2>2 DEF Cause
<1> QED  BY <1>4, <1>5, <1>6, <1>7 DEF DeadReasons

\* A request keeps its verdict, is new, refused or judged.
LEMMA FlightOrigin ==
  ASSUME CInv, NEW w \in Workers, ProcStep(w), NEW f \in proc'[w].flights
  PROVE  \/ \E g \in proc[w].flights : g.c = f.c /\ g.verdict = f.verdict
         \/ f.verdict = "none"
         \/ f.verdict = "envelope" /\ f.c.id \in Unbuildable
         \/ \E answer \in Answers : f.verdict = Verdict(f.c, answer) /\ answer \in answers'[f.c.id]
<1> DEFINE P == proc[w]
           q == proc'[w]
<1>1. /\ proc \in [Workers -> Process] /\ P \in Process /\ P.flights \subseteq Flight /\ Tidy(P)
      /\ answers \in [Events -> SUBSET Answers]
  BY ProcessFields DEF CInv, IInv, TypeOK
<1>2. CASE q.flights \subseteq P.flights
  BY <1>2
<1>3. CASE ~SlotStep(w)
  <2>1. CASE KeepsRequests(P, q)
    BY <1>2, <2>1 DEF KeepsRequests
  <2>2. CASE \E s \in {"idle", "down"} : q = Fresh(s)
    BY <2>2, FreshFields DEF LoopStates
  <2> QED  BY <1>3, <2>1, <2>2, QuietSteps
<1>4. CASE Acquire(w) \/ TrackRefused(w)
  BY <1>1, <1>2, <1>4, AcquireFields, RefusedFields
<1>5. CASE Track(w)
  <2>1. q.flights = P.flights \cup Started(P.cur)
    BY <1>1, <1>5, TrackFields
  <2>2. \A g \in Started(P.cur) : g.verdict = "none"
    BY DEF Started
  <2> QED  BY <2>1, <2>2
<1>6. ASSUME NEW g \in P.flights, FlightStep(w, g)
      PROVE  \/ \E h \in P.flights : h.c = f.c /\ h.verdict = f.verdict
             \/ f.verdict = "envelope" /\ f.c.id \in Unbuildable
             \/ \E answer \in Answers : f.verdict = Verdict(f.c, answer) /\ answer \in answers'[f.c.id]
  <2>1. g \in Flight /\ g.c.id \in Events
    BY <1>1 DEF Flight, Claim
  <2>2. CASE Finish(w, g)
    <3>1. q.flights = P.flights \ {g}
      BY <1>1, <2>2, FinishFields
    <3> QED  BY <3>1
  <2>3. CASE Refuse(w, g)
    <3> DEFINE h == [g EXCEPT !.stage = "settle", !.verdict = "envelope"]
    <3>1. q.flights = (P.flights \ {g}) \cup {h} /\ g.c.id \in Unbuildable
      BY <1>1, <2>3, MoveFields DEF Refuse
    <3>2. h.c = g.c /\ h.verdict = "envelope"
      BY <2>1 DEF Flight
    <3> HIDE DEF h
    <3> QED  BY <3>1, <3>2
  <2>4. CASE Respond(w, g)
    <3>1. PICK answer \in Answers :
            /\ Move(w, g, [g EXCEPT !.stage = "settle", !.verdict = Verdict(g.c, answer)])
            /\ answers' = [answers EXCEPT ![g.c.id] = @ \cup {answer}]
      BY <2>4 DEF Respond
    <3> DEFINE v == Verdict(g.c, answer)
               h == [g EXCEPT !.stage = "settle", !.verdict = v]
    <3>2. q.flights = (P.flights \ {g}) \cup {h}
      BY <1>1, <3>1, MoveFields
    <3> HIDE DEF v
    <3>3. h.c = g.c /\ h.verdict = v
      BY <2>1 DEF Flight
    <3>4. answer \in answers'[g.c.id]
      BY <1>1, <2>1, <3>1
    <3> HIDE DEF h
    <3>5. CASE f = h
      BY <3>3, <3>4, <3>5 DEF v
    <3> QED  BY <3>2, <3>5
  <2>5. CASE SettleFlight(w, g)
    <3> DEFINE h == [g EXCEPT !.stage = "finish"]
    <3>1. q.flights = (P.flights \ {g}) \cup {h}
      BY <1>1, <2>5, MoveFields DEF SettleFlight
    <3>2. h.c = g.c /\ h.verdict = g.verdict
      BY <2>1 DEF Flight
    <3> HIDE DEF h
    <3> QED  BY <3>1, <3>2
  <2> QED  BY <1>6, <2>2, <2>3, <2>4, <2>5 DEF FlightStep
<1> QED  BY <1>3, <1>4, <1>5, <1>6 DEF SlotStep

\* The row is the dead letter it was.
StillDead(e) ==
    queue[e].status = "dead" /\ queue'[e].dead_reason = queue[e].dead_reason

\* A settlement makes a dead letter only of its own event, by its verdict.
LEMMA SettledDead ==
  ASSUME QInv, NEW w \in Workers, NEW c \in Claim, NEW v, SettleCall(w, c, v),
         NEW e \in Events, queue'[e].status = "dead"
  PROVE  StillDead(e) \/ (c.id = e /\ v \in DeadReasons /\ Dead(w, e, c.attempt, v))
<1>1. c.id \in Events /\ queue \in [Events -> Row]
  BY DEF Claim, QInv, QTypeOK
<1>2. CASE UNCHANGED qvars
  BY <1>2 DEF StillDead, qvars
<1>3. CASE Transition(w, c, v)
  <2>1. CASE c.id # e
    <3>1. queue'[e] = queue[e]
      BY <1>1, <1>3, <2>1, SettledRow DEF Transition
    <3> QED  BY <3>1 DEF StillDead
  <2>2. CASE c.id = e
    <3>1. CASE Ack(w, c.id, c.attempt)
      BY <1>1, <2>2, <3>1 DEF Ack, Settle, Absent
    <3>2. ASSUME NEW due \in BOOLEAN, Nack(w, c.id, c.attempt, due) PROVE FALSE
      <4> DEFINE row == [queue[e] EXCEPT !.status = "pending", !.due = due,
                                         !.leased_by = NoWorker, !.expired = FALSE]
      <4>1. row.status = "pending"
        BY <1>1 DEF Row
      <4>2. queue'[e] = row
        BY <1>1, <2>2, <3>2 DEF Nack, Settle
      <4> QED  BY <4>1, <4>2
    <3> QED  BY <1>3, <2>2, <3>1, <3>2 DEF Transition
  <2> QED  BY <2>1, <2>2
<1> QED  BY <1>2, <1>3 DEF SettleCall

\* No other operation on the tables makes one.
LEMMA OtherwiseDead ==
  ASSUME QInv, NEW e \in Events, queue'[e].status = "dead",
         \/ UNCHANGED qvars
         \/ \E x \in Events : Enqueue(x) \/ BecomeDue(x) \/ LeaseExpires(x)
         \/ \E w \in Workers, S \in ClaimSets : ClaimRows(w, S)
         \/ \E w \in Workers, x \in Events : \E a, due : Nack(w, x, a, due)
         \/ ReclaimExpired
         \/ \E sel, S : RetryBatch(sel, S)
         \/ \E P : DropPartition(P)
  PROVE  StillDead(e)
<1>1. queue \in [Events -> Row] /\ queue[e] \in Row
  BY DEF QInv, QTypeOK
<1>2. CASE queue'[e] = queue[e]
  BY <1>2 DEF StillDead
<1>3. CASE UNCHANGED qvars
  BY <1>2, <1>3 DEF qvars
<1>4. ASSUME NEW x \in Events, Enqueue(x) PROVE StillDead(e)
  BY <1>1, <1>2, <1>4 DEF Enqueue, Absent
<1>5. ASSUME NEW x \in Events, BecomeDue(x) \/ LeaseExpires(x) PROVE StillDead(e)
  <2>1. CASE x # e
    BY <1>1, <1>2, <1>5, <2>1 DEF BecomeDue, LeaseExpires
  <2>2. CASE x = e
    <3>1. \/ queue[e].status = "pending" /\ queue'[e] = [queue[e] EXCEPT !.due = TRUE]
          \/ queue[e].status = "delivering" /\ queue'[e] = [queue[e] EXCEPT !.expired = TRUE]
      BY <1>1, <1>5, <2>2 DEF BecomeDue, LeaseExpires
    <3> QED  BY <1>1, <3>1 DEF Row
  <2> QED  BY <2>1, <2>2
<1>6. ASSUME NEW w \in Workers, NEW S \in ClaimSets, ClaimRows(w, S) PROVE StillDead(e)
  <2>1. CASE e \notin S
    BY <1>2, <1>6, <2>1 DEF ClaimRows
  <2>2. CASE e \in S
    <3>1. queue'[e] = [queue[e] EXCEPT !.status = "delivering", !.attempts = @ + 1,
                                       !.leased_by = w, !.expired = FALSE]
      BY <1>6, <2>2 DEF ClaimRows
    <3> QED  BY <1>1, <3>1 DEF Row
  <2> QED  BY <2>1, <2>2
<1>7. ASSUME NEW w \in Workers, NEW x \in Events, NEW a, NEW due, Nack(w, x, a, due)
      PROVE  StillDead(e)
  <2>1. CASE x # e
    BY <1>1, <1>2, <1>7, <2>1 DEF Nack, Settle
  <2>2. CASE x = e
    <3>1. queue'[e] = [queue[e] EXCEPT !.status = "pending", !.due = due,
                                       !.leased_by = NoWorker, !.expired = FALSE]
      BY <1>1, <1>7, <2>2 DEF Nack, Settle
    <3> QED  BY <1>1, <3>1 DEF Row
  <2> QED  BY <2>1, <2>2
<1>8. CASE ReclaimExpired
  <2>1. CASE e \notin ExpiredLeases
    BY <1>2, <1>8, <2>1 DEF ReclaimExpired
  <2>2. CASE e \in ExpiredLeases
    <3>1. queue'[e] = [queue[e] EXCEPT !.status = "pending", !.leased_by = NoWorker,
                                       !.expired = FALSE]
      BY <1>8, <2>2 DEF ReclaimExpired
    <3> QED  BY <1>1, <3>1 DEF Row
  <2> QED  BY <2>1, <2>2
<1>9. ASSUME NEW sel, NEW S, RetryBatch(sel, S) PROVE StillDead(e)
  <2>1. CASE e \notin S
    BY <1>2, <1>9, <2>1 DEF RetryBatch
  <2>2. CASE e \in S
    <3>1. queue'[e] = [queue[e] EXCEPT !.status = "pending", !.attempts = 0,
                                       !.due = TRUE, !.dead_reason = "null"]
      BY <1>9, <2>2 DEF RetryBatch
    <3> QED  BY <1>1, <3>1 DEF Row
  <2> QED  BY <2>1, <2>2
<1>10. ASSUME NEW P, DropPartition(P) PROVE StillDead(e)
  BY <1>2, <1>10 DEF DropPartition, Absent
<1> QED  BY <1>3, <1>4, <1>5, <1>6, <1>7, <1>8, <1>9, <1>10

\* Who makes a dead letter, and why.
LEMMA DeadBy ==
  ASSUME CInv, [Next]_vars, NEW e \in Events, queue'[e].status = "dead"
  PROVE  \/ StillDead(e)
         \/ \E w \in Workers, c \in Claim, reason \in DeadReasons :
               /\ c.id = e /\ Dead(w, e, c.attempt, reason)
               /\ \/ reason = "unknown listener" /\ ListenerOf[e] \notin Configured
                  \/ reason = "payload size" /\ e \in Oversize
                  \/ \E f \in proc[w].flights : f.c = c /\ f.verdict = reason
<1>1. QInv /\ proc \in [Workers -> Process]
  BY DEF CInv, IInv, TypeOK
<1>2. ASSUME UNCHANGED qvars PROVE StillDead(e)
  BY <1>1, <1>2, OtherwiseDead
<1>3. ASSUME NEW w \in Workers, LoopStep(w)
      PROVE  \/ StillDead(e)
             \/ \E c \in Claim, reason \in DeadReasons :
                   /\ c.id = e /\ Dead(w, e, c.attempt, reason)
                   /\ \/ reason = "unknown listener" /\ ListenerOf[e] \notin Configured
                      \/ reason = "payload size" /\ e \in Oversize
  <2>1. CASE VisitUnknown(w)
    <3>1. PICK c \in Heads(w) : SettleCall(w, c, "unknown listener")
      BY <2>1 DEF VisitUnknown, Consume
    <3>2. c \in Claim /\ ListenerOf[c.id] \notin Configured
      BY <1>1, <2>1, ProcessFields DEF Heads, VisitUnknown
    <3> QED  BY <1>1, <3>1, <3>2, SettledDead
  <2>2. CASE VisitOversize(w)
    <3>1. PICK c \in Heads(w) : c.id \in Oversize /\ SettleCall(w, c, "payload size")
      BY <2>2 DEF VisitOversize, Consume
    <3>2. c \in Claim
      BY <1>1, ProcessFields DEF Heads
    <3> QED  BY <1>1, <3>1, <3>2, SettledDead
  <2>3. CASE Sweep(w) \/ ClaimBatch(w) \/ ClaimLost(w)
    BY <1>1, <2>3, OtherwiseDead DEF Sweep, ClaimBatch, ClaimLost
  <2> QED  BY <1>2, <1>3, <2>1, <2>2, <2>3 DEF LoopStep, Poll, BeginClaim, SkipClaim, VisitNone,
              VisitBlocked, Acquire, Track, TrackRefused, RoundEnd, RetainCheck, Store,
              RetainReleased, Supervise, DatabaseError, TakePending
<1>4. ASSUME NEW w \in Workers, NEW f \in proc[w].flights, FlightStep(w, f)
      PROVE  \/ StillDead(e)
             \/ /\ f.c \in Claim /\ f.verdict \in DeadReasons
                /\ f.c.id = e /\ Dead(w, e, f.c.attempt, f.verdict)
  <2>1. f.c \in Claim
    BY <1>1, ProcessFields DEF Flight
  <2>2. CASE SettleFlight(w, f)
    BY <1>1, <2>1, <2>2, SettledDead DEF SettleFlight
  <2> QED  BY <1>2, <1>4, <2>2 DEF FlightStep, Refuse, Respond, Finish
<1>5. ASSUME NEW w \in Workers, NEW d \in Releasers, DrainStep(w, d) PROVE StillDead(e)
  <2>1. CASE ReleaseOne(w, d)
    <3>1. PICK c \in proc[w].drain[d].rel : UNCHANGED qvars \/ Nack(w, c.id, c.attempt, TRUE)
      BY <2>1 DEF ReleaseOne
    <3>2. proc[w].drain[d] \in Drain
      BY <1>1, ProcessFields
    <3>3. c.id \in Events
      BY <3>2 DEF Drain, Claim
    <3> QED  BY <1>1, <3>1, <3>3, OtherwiseDead
  <2> QED  BY <1>2, <1>5, <2>1 DEF DrainStep, BeginDrain, DrainWaited, DrainEnd
<1>6. ASSUME NEW w \in Workers, ProcessStep(w) PROVE StillDead(e)
  BY <1>2, <1>6 DEF ProcessStep, Start, Shutdown, Exit, ServerShutdownFails, Crash
<1>7. CASE Outside
  BY <1>1, <1>7, OtherwiseDead DEF Outside, Surroundings, DueTime, LeaseRunsOut
<1>8. CASE UNCHANGED vars
  BY <1>2, <1>8 DEF vars
<1>9. ASSUME NEW w \in Workers, ProcStep(w)
      PROVE  \/ StillDead(e)
             \/ \E c \in Claim, reason \in DeadReasons :
                   /\ c.id = e /\ Dead(w, e, c.attempt, reason)
                   /\ \/ reason = "unknown listener" /\ ListenerOf[e] \notin Configured
                      \/ reason = "payload size" /\ e \in Oversize
                      \/ \E f \in proc[w].flights : f.c = c /\ f.verdict = reason
  BY <1>3, <1>4, <1>5, <1>6, <1>9 DEF ProcStep
<1> QED  BY <1>7, <1>8, <1>9, StepKinds

\* The layer of dead letters.
DInv ==
    /\ CInv
    /\ \A w \in Workers : \A f \in proc[w].flights : FlightCaused(f)
    /\ \A e \in Events : queue[e].status = "dead" => Cause(e, queue[e].dead_reason)

\* Steps keep it.
LEMMA DInvStep ==
  ASSUME DInv, [Next]_vars
  PROVE  DInv'
<1>1. CInv /\ IInv /\ QInv /\ proc \in [Workers -> Process] /\ answers \in [Events -> SUBSET Answers]
      /\ queue \in [Events -> Row]
  BY DEF DInv, CInv, IInv, TypeOK, QInv, QTypeOK
<1>2. CInv' /\ proc' \in [Workers -> Process]
  BY <1>1, CInvStep DEF CInv, IInv, TypeOK
<1>3. ASSUME NEW f, FlightCaused(f), f.c.id \in Events PROVE FlightCaused(f)'
  <2>1. answers[f.c.id] \subseteq answers'[f.c.id]
    BY <1>1, <1>3, AnswersGrow
  <2> QED  BY <1>3, <2>1 DEF FlightCaused, Refused
<1>4. ASSUME NEW w \in Workers, NEW f \in proc'[w].flights PROVE FlightCaused(f)'
  <2>1. f \in Flight /\ f.c.id \in Events
    <3>1. f \in Flight
      BY <1>2, ProcessFields
    <3> QED  BY <3>1 DEF Flight, Claim
  <2>2. CASE proc'[w] = proc[w]
    BY <1>3, <2>1, <2>2 DEF DInv
  <2>3. CASE ProcStep(w)
    <3>1. CASE \E g \in proc[w].flights : g.c = f.c /\ g.verdict = f.verdict
      <4>1. PICK g \in proc[w].flights : g.c = f.c /\ g.verdict = f.verdict
        BY <3>1
      <4>2. FlightCaused(f)
        BY <4>1 DEF DInv, FlightCaused
      <4> QED  BY <1>3, <2>1, <4>2
    <3>2. CASE f.verdict = "none"
      BY <3>2 DEF FlightCaused, DeadReasons
    <3>3. CASE f.verdict = "envelope" /\ f.c.id \in Unbuildable
      BY <3>3 DEF FlightCaused
    <3>4. ASSUME NEW answer \in Answers, f.verdict = Verdict(f.c, answer), answer \in answers'[f.c.id]
          PROVE  FlightCaused(f)'
      <4>1. CASE f.verdict \in DeadReasons
        <5>1. /\ f.verdict = "attempt"
              /\ \/ answer # TransportError /\ ClassifyStatus(answer) = "terminal"
                 \/ Terminal(MaxAttempts[ListenerOf[f.c.id]], f.c.attempt)
          BY <3>4, <4>1, VerdictCause
        <5> QED  BY <3>4, <5>1 DEF FlightCaused, Refused
      <4> QED  BY <4>1 DEF FlightCaused
    <3> QED  BY <1>1, <2>3, <3>1, <3>2, <3>3, <3>4, FlightOrigin
  <2>4. proc'[w] = proc[w] \/ ProcStep(w)
    <3>1. Outside \/ UNCHANGED vars => proc' = proc
      BY OutsideLeaves DEF vars, wvars
    <3>2. ASSUME NEW v \in Workers, ProcStep(v), v # w PROVE proc'[w] = proc[w]
      BY <1>1, <3>2, StepIsOwn DEF Only
    <3> QED  BY <3>1, <3>2, StepKinds
  <2> QED  BY <2>2, <2>3, <2>4
<1>5. ASSUME NEW e \in Events, queue'[e].status = "dead" PROVE Cause(e, queue[e].dead_reason)'
  <2>1. CASE StillDead(e)
    <3>1. queue[e].status = "dead" /\ queue'[e].dead_reason = queue[e].dead_reason
      BY <2>1 DEF StillDead
    <3>2. queue[e].dead_reason \in DeadReasons
      <4>1. queue[e] \in Row /\ queue[e].dead_reason # "null"
        BY <1>1, <3>1 DEF QInv, DeadHasReason
      <4> QED  BY <4>1 DEF Row
    <3> DEFINE reason == queue[e].dead_reason
    <3>3. Cause(e, reason)
      BY <3>1 DEF DInv
    <3>4. \A r \in DeadReasons : Cause(e, r) => Cause(e, r)'
      BY <1>1, CauseStays
    <3> QED  BY <3>1, <3>2, <3>3, <3>4 DEF Cause, Refused
  <2>2. ASSUME NEW w \in Workers, NEW c \in Claim, NEW reason \in DeadReasons,
               c.id = e, Dead(w, e, c.attempt, reason),
               \/ reason = "unknown listener" /\ ListenerOf[e] \notin Configured
               \/ reason = "payload size" /\ e \in Oversize
               \/ \E f \in proc[w].flights : f.c = c /\ f.verdict = reason
        PROVE  Cause(e, queue[e].dead_reason)'
    <3>1. /\ queue' = [queue EXCEPT ![e] = [queue[e] EXCEPT !.status = "dead",
                           !.dead_reason = reason, !.leased_by = NoWorker, !.expired = FALSE]]
          /\ deliveries' = Recorded(e, c.attempt, FALSE)
      BY <2>2 DEF Dead, Settle
    <3>2. queue'[e].dead_reason = reason
      <4>1. queue'[e] = [queue[e] EXCEPT !.status = "dead", !.dead_reason = reason,
                                         !.leased_by = NoWorker, !.expired = FALSE]
        BY <1>1, <3>1
      <4>2. queue[e] \in Row
        BY <1>1
      <4> QED  BY <4>1, <4>2 DEF Row
    <3>3. \E d \in deliveries' : d.event_id = e /\ d.attempt = c.attempt
      <4> DEFINE n == [event_id |-> e, attempt |-> c.attempt, ok |-> FALSE]
      <4>1. n \in deliveries' /\ n.event_id = e /\ n.attempt = c.attempt
        BY <3>1 DEF Recorded
      <4> HIDE DEF n
      <4> QED  BY <4>1
    <3>4. CASE reason = "unknown listener" /\ ListenerOf[e] \notin Configured
      BY <3>2, <3>4 DEF Cause
    <3>5. CASE reason = "payload size" /\ e \in Oversize
      BY <3>2, <3>5 DEF Cause
    <3>6. ASSUME NEW f \in proc[w].flights, f.c = c, f.verdict = reason
          PROVE  Cause(e, queue[e].dead_reason)'
      <4>1. FlightCaused(f)'
        BY <1>3, <2>2, <3>6 DEF DInv
      <4>2. CASE reason = "envelope" /\ e \in Unbuildable
        BY <3>2, <4>2 DEF Cause
      <4>3. CASE /\ reason = "attempt"
                 /\ Refused(e)' \/ Terminal(MaxAttempts[ListenerOf[e]], c.attempt)
        <5>1. \/ Refused(e)'
              \/ \E d \in deliveries' : /\ d.event_id = e
                                        /\ Terminal(MaxAttempts[ListenerOf[e]], d.attempt)
          BY <3>3, <4>3
        <5> QED  BY <3>2, <4>3, <5>1 DEF Cause
      <4> QED  BY <2>2, <3>6, <4>1, <4>2, <4>3 DEF FlightCaused
    <3> QED  BY <2>2, <3>4, <3>5, <3>6
  <2>3. \/ StillDead(e)
        \/ \E w \in Workers, c \in Claim, reason \in DeadReasons :
              /\ c.id = e /\ Dead(w, e, c.attempt, reason)
              /\ \/ reason = "unknown listener" /\ ListenerOf[e] \notin Configured
                 \/ reason = "payload size" /\ e \in Oversize
                 \/ \E f \in proc[w].flights : f.c = c /\ f.verdict = reason
    BY <1>1, <1>5, DeadBy
  <2>4. CASE ~StillDead(e)
    <3>1. PICK w \in Workers, c \in Claim, reason \in DeadReasons :
              /\ c.id = e /\ Dead(w, e, c.attempt, reason)
              /\ \/ reason = "unknown listener" /\ ListenerOf[e] \notin Configured
                 \/ reason = "payload size" /\ e \in Oversize
                 \/ \E f \in proc[w].flights : f.c = c /\ f.verdict = reason
      BY <2>3, <2>4
    <3> QED  BY <2>2, <3>1
  <2> QED  BY <2>1, <2>4
<1> QED  BY <1>2, <1>4, <1>5 DEF DInv

\* Dead letters, for any configuration and any answers: each has the cause
\* its reason names, whatever retries, resets and late settlements came
\* before it.
THEOREM DeadLettersHaveCause == Spec => []DeadHasCause
<1>1. Init /\ CInv => DInv
  <2> SUFFICES ASSUME Init, CInv PROVE DInv
    OBVIOUS
  <2>1. \A w \in Workers : proc[w].flights = {}
    BY FreshFields DEF Init, LoopStates
  <2> QED  BY <2>1 DEF DInv, Init, QInit, Absent
<1>2. DInv /\ [Next]_vars => DInv'
  BY DInvStep
<1>3. DInv => DeadHasCause
  BY DEF DInv, DeadHasCause, Cause, Refused
<1> QED  BY <1>1, <1>2, <1>3, CustodyInvariant, PTL DEF Spec

-------------------------------------------------------------------------------
(* The workers use the adapter as EventQueue says callers may: each step   *)
(* is one of its operations, with an attempt number the event was claimed  *)
(* under, and an acknowledgement only of what a destination accepted.      *)

Operation ==
    \/ \E e \in Events : Enqueue(e) \/ BecomeDue(e) \/ LeaseExpires(e)
    \/ \E w \in Workers : \E S \in ClaimSets : ClaimRows(w, S)
    \/ \E w \in Workers, e \in Events : \E a \in 1..issued[e] :
           \/ Ack(w, e, a) /\ Succeeded(e)
           \/ \E due \in BOOLEAN : Nack(w, e, a, due)
           \/ \E reason \in DeadReasons : Dead(w, e, a, reason)
    \/ ReclaimExpired
    \/ \E sel \in Selector : \E S \in RetrySets(sel) : RetryBatch(sel, S)
    \/ \E P \in Partitions : DropPartition(P)

\* A claim a process remembers names an event and one of its claims.
LEMMA GrantedNumbers ==
  ASSUME CInv, NEW w \in Workers, NEW c, Remembers(proc[w], c)
  PROVE  c \in Claim /\ c.id \in Events /\ c.attempt \in 1..issued[c.id]
<1>1. proc[w] \in Process /\ QTypeOK /\ AllGranted(proc[w])
  BY DEF CInv, IInv, TypeOK
<1>2. c \in Claim /\ Granted(c)
  BY <1>1, RemembersClaims DEF AllGranted
<1>3. c.id \in Events /\ c.token \in Nat /\ c.attempt \in Nat /\ issued[c.id] \in Nat
  BY <1>1, <1>2 DEF Claim, QTypeOK
<1>4. c.token <= issued[c.id] /\ c.attempt \in 1..c.token
  BY <1>2 DEF Granted
<1>5. c.attempt \in 1..issued[c.id]
  BY <1>3, <1>4
<1> QED  BY <1>2, <1>3, <1>5

\* Every step of the system is at most one such operation.
LEMMA StepIsOperation ==
  ASSUME CInv, Next
  PROVE  Operation \/ UNCHANGED qvars
<1>1. proc \in [Workers -> Process] /\ SuccessIsAnswered
  BY DEF CInv, IInv, TypeOK
<1>2. ASSUME NEW w \in Workers, NEW c, Remembers(proc[w], c), NEW v, SettleCall(w, c, v),
             v = "success" => Succeeded(c.id)
      PROVE  Operation \/ UNCHANGED qvars
  <2>1. c.id \in Events /\ c.attempt \in 1..issued[c.id]
    BY <1>2, GrantedNumbers
  <2> QED  BY <1>2, <2>1 DEF SettleCall, Transition, Operation
<1>3. ASSUME NEW w \in Workers, LoopStep(w) PROVE Operation \/ UNCHANGED qvars
  <2>1. CASE VisitUnknown(w) \/ VisitOversize(w)
    <3>1. PICK c \in Heads(w), reason \in DeadReasons : SettleCall(w, c, reason)
      BY <2>1 DEF VisitUnknown, VisitOversize, Consume, DeadReasons
    <3>2. Remembers(proc[w], c) /\ reason # "success"
      BY DEF Heads, Remembers, DeadReasons
    <3> QED  BY <1>2, <3>1, <3>2
  <2>2. CASE Sweep(w)
    BY <2>2 DEF Sweep, Operation
  <2>3. CASE ClaimBatch(w) \/ ClaimLost(w)
    BY <2>3 DEF ClaimBatch, ClaimLost, Operation
  <2> QED  BY <1>3, <2>1, <2>2, <2>3 DEF LoopStep, Poll, BeginClaim, SkipClaim, VisitNone,
              VisitBlocked, Acquire, Track, TrackRefused, RoundEnd, RetainCheck, Store,
              RetainReleased, Supervise, DatabaseError, TakePending
<1>4. ASSUME NEW w \in Workers, NEW f \in proc[w].flights, FlightStep(w, f)
      PROVE  Operation \/ UNCHANGED qvars
  <2>1. Remembers(proc[w], f.c) /\ (f.verdict = "success" => Succeeded(f.c.id))
    BY <1>1 DEF Remembers, SuccessIsAnswered
  <2> QED  BY <1>2, <1>4, <2>1 DEF FlightStep, Refuse, Respond, SettleFlight, Finish
<1>5. ASSUME NEW w \in Workers, NEW d \in Releasers, DrainStep(w, d)
      PROVE  Operation \/ UNCHANGED qvars
  <2>1. CASE ReleaseOne(w, d)
    <3>1. PICK c \in proc[w].drain[d].rel : UNCHANGED qvars \/ Nack(w, c.id, c.attempt, TRUE)
      BY <2>1 DEF ReleaseOne
    <3>2. c.id \in Events /\ c.attempt \in 1..issued[c.id]
      BY GrantedNumbers DEF Remembers
    <3> QED  BY <3>1, <3>2 DEF Operation
  <2> QED  BY <1>5, <2>1 DEF DrainStep, BeginDrain, DrainWaited, DrainEnd
<1>6. ASSUME NEW w \in Workers, ProcessStep(w) PROVE UNCHANGED qvars
  BY <1>6 DEF ProcessStep, Start, Shutdown, Exit, ServerShutdownFails, Crash
<1>7. CASE Outside
  BY <1>7 DEF Outside, Surroundings, DueTime, LeaseRunsOut, Operation
<1> QED  BY <1>3, <1>4, <1>5, <1>6, <1>7, StepKinds DEF ProcStep

\* The workers, with their crashes, drains and late settlements, implement
\* the tables' specification: whatever is proved of QSpec, which lets callers
\* settle any leased row at any attempt it was claimed under, holds of them.
THEOREM WorkersImplementQueue == Spec => QSpec
<1>1. Init => QInit
  BY DEF Init
<1>2. CInv /\ [Next]_vars => [QNext]_qvars
  <2> SUFFICES ASSUME CInv, [Next]_vars PROVE QNext \/ UNCHANGED qvars
    OBVIOUS
  <2>1. Operation \/ UNCHANGED qvars
    BY StepIsOperation DEF vars
  <2>2. Operation => QNext
    BY DEF Operation, QNext
  <2> QED  BY <2>1, <2>2
<1> QED  BY <1>1, <1>2, CustodyInvariant, PTL DEF Spec, QSpec

\* So under the workers too an acknowledged or reaped event never returns to
\* the queue, and only retention takes one out of the log.
THEOREM WorkersNeverRevive == Spec => DeliveredIsFinal
  BY WorkersImplementQueue, DeliveredStaysDelivered, PTL

-------------------------------------------------------------------------------
(* The at-least-once promise.                                              *)

\* What each fate says of the tables.
Fates(l, d, q, F) ==
    \A e \in Events :
        /\ F[e] = "forgotten" <=> e \in d
        /\ F[e] = "new" <=> e \notin l \cup d
        /\ F[e] = "delivered" <=> e \in l /\ q[e].status = "absent"
        /\ F[e] = "dead" <=> e \in l /\ q[e].status = "dead"
        /\ F[e] = "owed" <=> e \in l /\ q[e].status \in {"pending", "delivering"}
        /\ F[e] \in {"forgotten", "new", "delivered", "dead", "owed"}

\* The tables always show one fate of every event.
LEMMA FateShown ==
  ASSUME QTypeOK, KeptOrDropped PROVE Fates(log, dropped, queue, Fate)
<1> SUFFICES ASSUME NEW e \in Events
    PROVE  /\ Fate[e] = "forgotten" <=> e \in dropped
           /\ Fate[e] = "new" <=> e \notin log \cup dropped
           /\ Fate[e] = "delivered" <=> e \in log /\ queue[e].status = "absent"
           /\ Fate[e] = "dead" <=> e \in log /\ queue[e].status = "dead"
           /\ Fate[e] = "owed" <=> e \in log /\ queue[e].status \in {"pending", "delivering"}
           /\ Fate[e] \in {"forgotten", "new", "delivered", "dead", "owed"}
  BY DEF Fates
<1>1. queue[e].status \in {"pending", "delivering", "dead", "absent"}
  BY DEF QTypeOK, Row, Statuses
<1>2. ~(e \in log /\ e \in dropped)
  BY DEF KeptOrDropped
<1> QED  BY <1>1, <1>2 DEF Fate

\* And after a step.
LEMMA FateShownNext ==
  ASSUME QTypeOK', KeptOrDropped' PROVE Fates(log', dropped', queue', Fate')
<1> SUFFICES ASSUME NEW e \in Events
    PROVE  /\ Fate'[e] = "forgotten" <=> e \in dropped'
           /\ Fate'[e] = "new" <=> e \notin log' \cup dropped'
           /\ Fate'[e] = "delivered" <=> e \in log' /\ queue'[e].status = "absent"
           /\ Fate'[e] = "dead" <=> e \in log' /\ queue'[e].status = "dead"
           /\ Fate'[e] = "owed" <=> e \in log' /\ queue'[e].status \in {"pending", "delivering"}
           /\ Fate'[e] \in {"forgotten", "new", "delivered", "dead", "owed"}
  BY DEF Fates
<1>1. queue'[e].status \in {"pending", "delivering", "dead", "absent"}
  BY DEF QTypeOK, Row, Statuses
<1>2. ~(e \in log' /\ e \in dropped')
  BY DEF KeptOrDropped
<1> QED  BY <1>1, <1>2 DEF Fate

\* A row that stays live, or changes in nothing but its columns, is as owed
\* as it was.
LEMMA FateKept ==
  ASSUME QTypeOK, KeptOrDropped, QTypeOK', KeptOrDropped', UNCHANGED <<log, dropped>>,
         NEW e \in Events,
         \/ queue'[e].status = queue[e].status
         \/ /\ queue[e].status \in {"pending", "delivering"}
            /\ queue'[e].status \in {"pending", "delivering"}
  PROVE  Fate'[e] = Fate[e]
  BY FateShown, FateShownNext DEF Fates

\* Fates are equal when they are event by event.
LEMMA FateExt ==
  ASSUME NEW f, f = [e \in Events |-> f[e]], \A e \in Events : Fate'[e] = f[e]
  PROVE  Fate' = f
<1>1. Fate' = [e \in Events |-> Fate'[e]]
  BY DEF Fate
<1> QED  BY <1>1


\* What may become of the events in one step, as AtLeastOnce has it.
FateStep ==
    \/ Fate' = Fate
    \/ \E e \in Events : Fate[e] = "new" /\ Fate' = [Fate EXCEPT ![e] = "owed"]
    \/ \E e \in Events : /\ Fate[e] = "owed" /\ Succeeded(e)
                         /\ Fate' = [Fate EXCEPT ![e] = "delivered"]
    \/ \E e \in Events : Fate[e] = "owed" /\ Fate' = [Fate EXCEPT ![e] = "dead"]
    \/ \E S \in SUBSET Events :
          /\ \A e \in S : Fate[e] = "dead"
          /\ Fate' = [e \in Events |-> IF e \in S THEN "owed" ELSE Fate[e]]
    \/ \E S \in SUBSET Events :
          /\ \A e \in S : Fate[e] \in {"delivered", "dead"}
          /\ Fate' = [e \in Events |-> IF e \in S THEN "forgotten" ELSE Fate[e]]

\* The statuses the operations leave: a row is changed in its place.
LEMMA RowStatus ==
  ASSUME QTypeOK, NEW e \in Events, NEW w, NEW due, NEW reason
  PROVE  /\ [queue[e] EXCEPT !.status = "delivering", !.attempts = @ + 1,
                             !.leased_by = w, !.expired = FALSE].status = "delivering"
         /\ [queue[e] EXCEPT !.status = "pending", !.due = due,
                             !.leased_by = NoWorker, !.expired = FALSE].status = "pending"
         /\ [queue[e] EXCEPT !.status = "dead", !.dead_reason = reason,
                             !.leased_by = NoWorker, !.expired = FALSE].status = "dead"
         /\ [queue[e] EXCEPT !.status = "pending", !.leased_by = NoWorker,
                             !.expired = FALSE].status = "pending"
         /\ [queue[e] EXCEPT !.status = "pending", !.attempts = 0,
                             !.due = TRUE, !.dead_reason = "null"].status = "pending"
         /\ [queue[e] EXCEPT !.due = TRUE].status = queue[e].status
         /\ [queue[e] EXCEPT !.expired = TRUE].status = queue[e].status
<1>1. queue[e] \in Row
  BY DEF QTypeOK
<1> QED  BY <1>1 DEF Row

\* Claims, sweeps and the clock change no fate.
LEMMA OwedStaysOwed ==
  ASSUME QTypeOK, KeptOrDropped, QTypeOK', KeptOrDropped',
         \/ \E e \in Events : BecomeDue(e) \/ LeaseExpires(e)
         \/ \E w \in Workers : \E S \in ClaimSets : ClaimRows(w, S)
         \/ \E w \in Workers, e \in Events : \E a, due : Nack(w, e, a, due)
         \/ ReclaimExpired
  PROVE  Fate' = Fate
<1>1. queue \in [Events -> Row]
  BY DEF QTypeOK
<1>2. UNCHANGED <<log, dropped>>
  BY DEF BecomeDue, LeaseExpires, ClaimRows, Nack, Settle, ReclaimExpired
<1> DEFINE Same(x) == \/ queue'[x].status = queue[x].status
                      \/ /\ queue[x].status \in {"pending", "delivering"}
                         /\ queue'[x].status \in {"pending", "delivering"}
<1>3. SUFFICES ASSUME NEW x \in Events PROVE Same(x)
  <2>1. \A x \in Events : Fate'[x] = Fate[x]
    BY <1>2, <1>3, FateKept
  <2>2. Fate = [e \in Events |-> Fate[e]]
    BY DEF Fate
  <2> QED  BY <2>1, <2>2, FateExt
<1>4. ASSUME NEW e \in Events, BecomeDue(e) \/ LeaseExpires(e) PROVE Same(x)
  <2>1. CASE x # e
    BY <1>1, <1>4, <2>1 DEF BecomeDue, LeaseExpires
  <2>2. CASE x = e
    <3>1. \/ queue'[x] = [queue[x] EXCEPT !.due = TRUE]
          \/ queue'[x] = [queue[x] EXCEPT !.expired = TRUE]
      BY <1>1, <1>4, <2>2 DEF BecomeDue, LeaseExpires
    <3>2. queue'[x].status = queue[x].status
      BY <3>1, RowStatus
    <3> QED  BY <3>2
  <2> QED  BY <2>1, <2>2
<1>5. ASSUME NEW w \in Workers, NEW S \in ClaimSets, ClaimRows(w, S) PROVE Same(x)
  <2>1. CASE x \notin S
    BY <1>5, <2>1 DEF ClaimRows
  <2>2. CASE x \in S
    <3>1. queue'[x] = [queue[x] EXCEPT !.status = "delivering", !.attempts = @ + 1,
                                       !.leased_by = w, !.expired = FALSE]
      BY <1>5, <2>2 DEF ClaimRows
    <3>2. queue'[x].status = "delivering"
      BY <3>1, RowStatus
    <3>3. queue[x].status = "pending"
      BY <2>2 DEF ClaimSets, Claimable
    <3> QED  BY <3>2, <3>3
  <2> QED  BY <2>1, <2>2
<1>6. ASSUME NEW w \in Workers, NEW e \in Events, NEW a, NEW due, Nack(w, e, a, due) PROVE Same(x)
  <2>1. CASE x # e
    BY <1>1, <1>6, <2>1 DEF Nack, Settle
  <2>2. CASE x = e
    <3>1. queue'[x] = [queue[x] EXCEPT !.status = "pending", !.due = due,
                                       !.leased_by = NoWorker, !.expired = FALSE]
      BY <1>1, <1>6, <2>2 DEF Nack, Settle
    <3>2. queue'[x].status = "pending"
      BY <3>1, RowStatus
    <3>3. queue[x].status = "delivering"
      BY <1>6, <2>2 DEF Nack, Leased
    <3> QED  BY <3>2, <3>3
  <2> QED  BY <2>1, <2>2
<1>7. CASE ReclaimExpired
  <2>1. CASE x \notin ExpiredLeases
    BY <1>7, <2>1 DEF ReclaimExpired
  <2>2. CASE x \in ExpiredLeases
    <3>1. queue'[x] = [queue[x] EXCEPT !.status = "pending", !.leased_by = NoWorker,
                                       !.expired = FALSE]
      BY <1>7, <2>2 DEF ReclaimExpired
    <3>2. queue'[x].status = "pending"
      BY <3>1, RowStatus
    <3>3. queue[x].status = "delivering"
      BY <2>2 DEF ExpiredLeases
    <3> QED  BY <3>2, <3>3
  <2> QED  BY <2>1, <2>2
<1> HIDE DEF Same
<1> QED  BY <1>4, <1>5, <1>6, <1>7

\* The trigger makes an event owed.
LEMMA EnqueueOwes ==
  ASSUME QTypeOK, KeptOrDropped, QTypeOK', KeptOrDropped', NEW e \in Events, Enqueue(e)
  PROVE  Fate[e] = "new" /\ Fate' = [Fate EXCEPT ![e] = "owed"]
<1>1. queue \in [Events -> Row] /\ Fate = [x \in Events |-> Fate[x]]
  BY DEF QTypeOK, Fate
<1>2. Fate[e] = "new"
  BY FateShown DEF Fates, Enqueue
<1>3. queue'[e] = [Absent EXCEPT !.status = "pending", !.due = TRUE]
  BY <1>1 DEF Enqueue
<1>4. queue'[e].status = "pending"
  BY <1>3 DEF Absent
<1>5. Fate'[e] = "owed"
  <2>1. e \in log'
    BY DEF Enqueue
  <2> QED  BY <1>4, <2>1, FateShownNext DEF Fates
<1>6. ASSUME NEW x \in Events, x # e PROVE Fate'[x] = Fate[x]
  <2>1. queue'[x] = queue[x] /\ (x \in log' <=> x \in log) /\ dropped' = dropped
    BY <1>1, <1>6 DEF Enqueue
  <2> QED  BY <2>1, FateShown, FateShownNext DEF Fates
<1> DEFINE f == [Fate EXCEPT ![e] = "owed"]
<1>7. f = [x \in Events |-> f[x]] /\ \A x \in Events : Fate'[x] = f[x]
  BY <1>1, <1>5, <1>6
<1> HIDE DEF f
<1>8. Fate' = f
  BY <1>7, FateExt
<1> QED  BY <1>2, <1>8 DEF f

\* A settlement that ends an event ends an owed one, and that one alone.
LEMMA SettleEnds ==
  ASSUME QInv, KeptOrDropped, QTypeOK', KeptOrDropped',
         NEW w \in Workers, NEW e \in Events, Leased(w, e),
         NEW row, NEW a, NEW ok, Settle(e, row, a, ok),
         NEW v \in {"delivered", "dead"},
         row.status = IF v = "dead" THEN "dead" ELSE "absent"
  PROVE  Fate[e] = "owed" /\ Fate' = [Fate EXCEPT ![e] = v]
<1>1. QTypeOK /\ queue \in [Events -> Row] /\ Fate = [x \in Events |-> Fate[x]]
  BY DEF QInv, QTypeOK, Fate
<1>2. queue[e].status = "delivering" /\ e \in log
  BY DEF Leased, QInv, RowsAreLogged
<1>3. Fate[e] = "owed"
  BY <1>1, <1>2, FateShown DEF Fates
<1>4. queue'[e] = row /\ UNCHANGED <<log, dropped>>
  BY <1>1 DEF Settle
<1>5. Fate'[e] = v
  BY <1>2, <1>4, FateShownNext DEF Fates
<1>6. ASSUME NEW x \in Events, x # e PROVE Fate'[x] = Fate[x]
  <2>1. queue'[x] = queue[x]
    BY <1>1, <1>6 DEF Settle
  <2> QED  BY <1>1, <1>4, <2>1, FateKept
<1> DEFINE f == [Fate EXCEPT ![e] = v]
<1>7. f = [x \in Events |-> f[x]] /\ \A x \in Events : Fate'[x] = f[x]
  BY <1>1, <1>5, <1>6
<1> HIDE DEF f
<1>8. Fate' = f
  BY <1>7, FateExt
<1> QED  BY <1>3, <1>8 DEF f


\* An operator retry makes dead letters owed again and changes no other fate.
LEMMA RetryOwes ==
  ASSUME QInv, KeptOrDropped, QTypeOK', KeptOrDropped',
         NEW sel \in Selector, NEW S \in RetrySets(sel), RetryBatch(sel, S)
  PROVE  \E D \in SUBSET Events :
            /\ \A e \in D : Fate[e] = "dead"
            /\ Fate' = [e \in Events |-> IF e \in D THEN "owed" ELSE Fate[e]]
<1> DEFINE D == {e \in S : queue[e].status = "dead"}
           f == [e \in Events |-> IF e \in D THEN "owed" ELSE Fate[e]]
<1>1. QTypeOK /\ queue \in [Events -> Row] /\ UNCHANGED <<log, dropped>>
  BY DEF QInv, QTypeOK, RetryBatch
<1>2. S \subseteq Events /\ \A e \in S : queue[e].status # "absent" /\ e \in log
  BY DEF RetrySets, Matches, QInv, RowsAreLogged
<1>3. \A e \in D : Fate[e] = "dead"
  BY <1>1, <1>2, FateShown DEF Fates
<1>4. ASSUME NEW e \in S PROVE queue'[e].status = "pending" /\ Fate'[e] = "owed"
  <2>1. queue'[e] = [queue[e] EXCEPT !.status = "pending", !.attempts = 0,
                                     !.due = TRUE, !.dead_reason = "null"]
    BY <1>2 DEF RetryBatch
  <2>2. queue'[e].status = "pending"
    BY <1>1, <1>2, <2>1, RowStatus
  <2> QED  BY <1>1, <1>2, <2>2, FateShownNext DEF Fates
<1>5. ASSUME NEW e \in Events, e \notin D PROVE Fate'[e] = Fate[e]
  <2>1. CASE e \notin S
    <3>1. queue'[e] = queue[e]
      BY <2>1 DEF RetryBatch
    <3> QED  BY <1>1, <3>1, FateKept
  <2>2. CASE e \in S
    <3>1. queue[e].status \in {"pending", "delivering"}
      BY <1>1, <1>2, <1>5, <2>2 DEF Row, Statuses
    <3> QED  BY <1>1, <1>4, <2>2, <3>1, FateKept
  <2> QED  BY <2>1, <2>2
<1>6. f = [e \in Events |-> f[e]] /\ \A e \in Events : Fate'[e] = f[e]
  BY <1>4, <1>5
<1>7. D \in SUBSET Events
  BY <1>2
<1> HIDE DEF f
<1>8. Fate' = f
  BY <1>6, FateExt
<1> QED  BY <1>3, <1>7, <1>8 DEF f

\* Retention forgets only what is delivered or dead.
LEMMA DropForgets ==
  ASSUME QInv, KeptOrDropped, QTypeOK', KeptOrDropped',
         NEW P \in SUBSET Events, DropPartition(P)
  PROVE  \E D \in SUBSET Events :
            /\ \A e \in D : Fate[e] \in {"delivered", "dead"}
            /\ Fate' = [e \in Events |-> IF e \in D THEN "forgotten" ELSE Fate[e]]
<1> DEFINE D == P \cap log
           f == [e \in Events |-> IF e \in D THEN "forgotten" ELSE Fate[e]]
<1>1. QTypeOK /\ queue \in [Events -> Row] /\ D \in SUBSET Events
  BY DEF QInv, QTypeOK
<1>2. ASSUME NEW e \in D PROVE Fate[e] \in {"delivered", "dead"}
  <2>1. e \in Events /\ e \in log /\ queue[e].status \in {"absent", "dead"}
    BY DEF DropPartition
  <2> QED  BY <1>1, <2>1, FateShown DEF Fates
<1>3. ASSUME NEW e \in D PROVE Fate'[e] = "forgotten"
  <2>1. e \in Events /\ e \in dropped'
    BY DEF DropPartition
  <2> QED  BY <2>1, FateShownNext DEF Fates
<1>4. ASSUME NEW e \in Events, e \notin D PROVE Fate'[e] = Fate[e]
  <2>1. (e \in log' <=> e \in log) /\ (e \in dropped' <=> e \in dropped)
    BY <1>4 DEF DropPartition
  <2>2. e \in log => queue'[e] = queue[e]
    BY <1>4 DEF DropPartition
  <2> QED  BY <1>1, <2>1, <2>2, FateShown, FateShownNext DEF Fates
<1>5. f = [e \in Events |-> f[e]] /\ \A e \in Events : Fate'[e] = f[e]
  BY <1>3, <1>4
<1> HIDE DEF f
<1>6. Fate' = f
  BY <1>5, FateExt
<1> HIDE DEF D
<1> QED  BY <1>1, <1>2, <1>6 DEF f

\* Every operation of the workers, the operator and retention.
LEMMA OperationFates ==
  ASSUME QInv, KeptOrDropped, QTypeOK', KeptOrDropped', Operation
  PROVE  FateStep
<1>1. QTypeOK
  BY DEF QInv
<1>2. ASSUME NEW e \in Events, Enqueue(e) PROVE FateStep
  BY <1>1, <1>2, EnqueueOwes DEF FateStep
<1>3. CASE \/ \E e \in Events : BecomeDue(e) \/ LeaseExpires(e)
           \/ \E w \in Workers : \E S \in ClaimSets : ClaimRows(w, S)
           \/ \E w \in Workers, e \in Events : \E a, due : Nack(w, e, a, due)
           \/ ReclaimExpired
  BY <1>1, <1>3, OwedStaysOwed DEF FateStep
<1>4. ASSUME NEW w \in Workers, NEW e \in Events, NEW a, Ack(w, e, a), Succeeded(e) PROVE FateStep
  <2>1. Leased(w, e) /\ Settle(e, Absent, a, TRUE) /\ Absent.status = "absent"
    BY <1>4 DEF Ack, Absent
  <2>2. Fate[e] = "owed" /\ Fate' = [Fate EXCEPT ![e] = "delivered"]
    BY <2>1, SettleEnds
  <2> QED  BY <1>4, <2>2 DEF FateStep
<1>5. ASSUME NEW w \in Workers, NEW e \in Events, NEW a, NEW reason, Dead(w, e, a, reason)
      PROVE  FateStep
  <2> DEFINE row == [queue[e] EXCEPT !.status = "dead", !.dead_reason = reason,
                                     !.leased_by = NoWorker, !.expired = FALSE]
  <2>1. Leased(w, e) /\ Settle(e, row, a, FALSE)
    BY <1>5 DEF Dead
  <2>2. row.status = "dead"
    BY <1>1, RowStatus
  <2> HIDE DEF row
  <2>3. Fate[e] = "owed" /\ Fate' = [Fate EXCEPT ![e] = "dead"]
    BY <2>1, <2>2, SettleEnds
  <2> QED  BY <2>3 DEF FateStep
<1>6. ASSUME NEW sel \in Selector, NEW S \in RetrySets(sel), RetryBatch(sel, S) PROVE FateStep
  BY <1>6, RetryOwes DEF FateStep
<1>7. ASSUME NEW P \in Partitions, DropPartition(P) PROVE FateStep
  <2>1. P \in SUBSET Events
    BY QueueAssumption
  <2> QED  BY <1>7, <2>1, DropForgets DEF FateStep
<1> QED  BY <1>2, <1>3, <1>4, <1>5, <1>6, <1>7 DEF Operation

\* Answers come only from requests, one at a time, and change no table.
LEMMA WhoAnswers ==
  ASSUME CInv, [Next]_vars
  PROVE  \/ UNCHANGED answers
         \/ /\ UNCHANGED qvars
            /\ \E e \in Events : /\ e \in log \cup dropped
                                 /\ \E answer \in Answers :
                                      answers' = [answers EXCEPT ![e] = @ \cup {answer}]
<1>1. proc \in [Workers -> Process]
  BY DEF CInv, IInv, TypeOK
<1>2. ASSUME NEW w \in Workers, NEW f \in proc[w].flights, Respond(w, f)
      PROVE  /\ UNCHANGED qvars
             /\ \E e \in Events : /\ e \in log \cup dropped
                                  /\ \E answer \in Answers :
                                       answers' = [answers EXCEPT ![e] = @ \cup {answer}]
  <2>1. Remembers(proc[w], f.c) /\ AllGranted(proc[w])
    BY DEF CInv, Remembers
  <2>2. f.c.id \in log \cup dropped
    BY <2>1 DEF AllGranted, Granted
  <2>3. f.c.id \in Events
    BY <2>1, GrantedNumbers
  <2> QED  BY <1>2, <2>2, <2>3 DEF Respond
<1>3. ASSUME NEW w \in Workers, ProcStep(w),
             ~ \E f \in proc[w].flights : Respond(w, f)
      PROVE  UNCHANGED answers
  <2>1. CASE LoopStep(w)
    BY <2>1 DEF LoopStep, Poll, BeginClaim, SkipClaim, VisitNone, VisitBlocked, Acquire, Track,
       TrackRefused, RoundEnd, RetainCheck, Store, RetainReleased, Supervise, DatabaseError,
       TakePending, Sweep, ClaimBatch, ClaimLost, VisitUnknown, VisitOversize, Consume
  <2>2. CASE \E f \in proc[w].flights : FlightStep(w, f)
    BY <1>3, <2>2 DEF FlightStep, Refuse, SettleFlight, Finish
  <2>3. CASE \E d \in Releasers : DrainStep(w, d)
    BY <2>3 DEF DrainStep, BeginDrain, DrainWaited, ReleaseOne, DrainEnd
  <2>4. CASE ProcessStep(w)
    BY <2>4 DEF ProcessStep, Start, Shutdown, Exit, ServerShutdownFails, Crash, Ends
  <2> QED  BY <1>3, <2>1, <2>2, <2>3, <2>4 DEF ProcStep
<1>4. CASE UNCHANGED vars \/ Outside
  BY <1>4, OutsideLeaves DEF vars, wvars
<1> QED  BY <1>2, <1>3, <1>4, StepKinds

\* The workers, the queue tables, the operator and retention together
\* implement AtLeastOnce, through every crash, drain, expired lease, repeated
\* request and late settlement: an event stays owed until a destination has
\* accepted it or it is set aside, only dead letters are revived, and only
\* what is no longer owed is forgotten.
THEOREM AtLeastOnceKept == Spec => KeepsPromise
<1> DEFINE Acc == {e \in Events : Succeeded(e)}
<1>1. Init => Promise!AInit
  <2> SUFFICES ASSUME Init PROVE Promise!AInit
    OBVIOUS
  <2>1. \A e \in Events : ~Succeeded(e)
    BY DEF Init, Succeeded
  <2>2. Acc = {}
    BY <2>1
  <2>3. log = {} /\ dropped = {}
    BY DEF Init, QInit
  <2>4. Fate = [e \in Events |-> "new"]
    BY <2>3 DEF Fate
  <2> QED  BY <2>2, <2>4 DEF Promise!AInit
<1>2. ASSUME CInv, CInv', [Next]_vars PROVE [Promise!ANext]_<<Fate, Acc>>
  <2>1. QInv /\ QTypeOK /\ KeptOrDropped /\ QTypeOK' /\ KeptOrDropped'
    BY <1>2 DEF CInv, IInv, QInv
  <2>2. CASE UNCHANGED answers
    <3>1. Acc' = Acc
      BY <2>2 DEF Succeeded
    <3>2. Operation \/ UNCHANGED qvars
      BY <1>2, StepIsOperation DEF vars
    <3>3. FateStep
      <4>1. CASE UNCHANGED qvars
        BY <4>1 DEF FateStep, Fate, qvars
      <4> QED  BY <2>1, <3>2, <4>1, OperationFates
    <3> HIDE DEF Acc
    <3>4. \A e \in Events : Succeeded(e) => e \in Acc
      BY DEF Acc
    <3> QED  BY <3>1, <3>3, <3>4
             DEF FateStep, Acc, Promise!ANext, Promise!Produce, Promise!Deliver,
                 Promise!Bury, Promise!Requeue, Promise!Forget
  <2>3. ASSUME UNCHANGED qvars, NEW e \in Events, e \in log \cup dropped, NEW answer \in Answers,
               answers' = [answers EXCEPT ![e] = @ \cup {answer}]
        PROVE  [Promise!ANext]_<<Fate, Acc>>
    <3>1. Fate' = Fate /\ Fate[e] # "new"
      <4>1. Fate' = Fate
        BY <2>3 DEF Fate, qvars
      <4> QED  BY <2>1, <2>3, <4>1, FateShown DEF Fates
    <3>2. Acc' = Acc \/ Acc' = Acc \cup {e}
      <4>1. answers \in [Events -> SUBSET Answers]
        BY <1>2 DEF CInv, IInv, TypeOK
      <4>2. \A x \in Events : x # e => answers'[x] = answers[x]
        BY <2>3, <4>1
      <4>3. \A s \in answers[e] : s \in answers'[e]
        BY <2>3, <4>1
      <4>4. \A x \in Events : x # e => (Succeeded(x)' <=> Succeeded(x))
        BY <4>2 DEF Succeeded
      <4>5. Succeeded(e) => Succeeded(e)'
        BY <4>3 DEF Succeeded
      <4> QED  BY <4>4, <4>5
    <3> QED  BY <3>1, <3>2 DEF Promise!ANext, Promise!Accept
  <2> QED  BY <1>2, <2>2, <2>3, WhoAnswers
<1>3. CInv /\ [Next]_vars => CInv'
  BY CInvStep
<1>4. CInv /\ [Next]_vars => [Promise!ANext]_<<Fate, Acc>>
  BY <1>2, <1>3
<1> QED  BY <1>1, <1>4, CustodyInvariant, PTL DEF Spec, KeepsPromise, Promise!ASpec

===============================================================================
