---------------------------- MODULE DeliveryWorker ----------------------------
(***************************************************************************)
(* The delivery workers of internal/delivery over the queue of EventQueue, *)
(* as `pg_noty run` assembles them.  A worker process has                  *)
(*   - the delivery loop (Run/RunOnce): reclaim, claim, dispatch, retain;  *)
(*   - one goroutine per request in flight (deliver, recordResult);        *)
(*   - the command's main goroutine, which drains and exits on a signal.   *)
(* They share the semaphores, the pending/held maps and the drain state.   *)
(* Each step below is one critical section or one database call.           *)
(*                                                                         *)
(* Requests, polls and timers have no duration: anything may happen while  *)
(* they are outstanding.  Failures are counted against MaxFaults.          *)
(***************************************************************************)
EXTENDS EventQueue, RetryPolicy, Sequences

CONSTANTS
    Configured,       \* enabled listeners of the configuration
    Order,            \* listenerNames: configured ones, then unknown ones sorted
    GlobalCap,        \* worker.concurrency
    Cap,              \* per-listener concurrency; 0 is no semaphore
    MaxAttempts,      \* retry.max_attempts per listener
    Oversize,         \* events whose payload exceeds payload.max_bytes
    Unbuildable,      \* events no envelope or request can be built for
    Answers,          \* statuses a destination may answer, or TransportError
    MaxFaults,        \* model bound: failures of any kind
    MaxStops          \* model bound: shutdown signals

ASSUME WorkerAssumption ==
    /\ Configured \subseteq Listeners
    /\ Order \in Seq(Listeners)
    /\ \A l \in Listeners : \E i \in 1..Len(Order) : Order[i] = l
    /\ GlobalCap \in Nat \ {0}
    /\ Cap \in [Listeners -> Nat]
    /\ MaxAttempts \in [Listeners -> Int]
    /\ Oversize \subseteq Events
    /\ Unbuildable \subseteq Events
    /\ Answers \subseteq Int
    /\ MaxFaults \in Nat
    /\ MaxStops \in Nat

VARIABLES
    proc,             \* the memory of each worker process
    exit,             \* how the last process of each identity ended
    answers,          \* history: what destinations answered, per event
    faults,           \* history: failures so far
    stops             \* history: shutdown signals so far

wvars == <<proc, exit, answers, faults, stops>>
vars  == <<qvars, wvars>>

-------------------------------------------------------------------------------
(* State of a process.                                                     *)

LoopStates == {"down", "idle", "take", "reclaim", "swept", "claim", "visit", "track",
               "retain", "store", "release", "backoff", "drain", "ended"}

Verdicts == {"none", "success", "retry"} \cup DeadReasons

\* A request in flight: deliver() until it untracks itself.
Flight == [c : Claim, stage : {"send", "settle", "finish"}, verdict : Verdicts]

\* Who hands leases back: the loop's own drain, the command's drain, and a
\* retainPending that found the worker draining.
Releasers == {"loop", "cli", "retain"}

Drain == [st : {"off", "wait", "release", "done"}, rel : SUBSET Claim, err : BOOLEAN]

NotDraining == [st |-> "off", rel |-> {}, err |-> FALSE]

Process ==
    [loop      : LoopStates,
     cancelled : BOOLEAN,                \* the command context
     stopping  : BOOLEAN,                \* workerActivity.stopping
     batch     : SUBSET Claim,           \* RunOnce's events, not yet dispatched
     at        : Nat,                    \* position in Order of the round
     progress  : BOOLEAN,
     cur       : SUBSET Claim,           \* event between tryAcquire and track
     failed    : BOOLEAN,                \* this RunOnce returns an error
     pending   : SUBSET Claim,           \* Worker.pending
     held      : SUBSET Events,          \* keys of Worker.held
     flights   : SUBSET Flight,          \* goroutines running deliver
     tracked   : SUBSET Claim,           \* workerActivity.events
     used      : Nat,                    \* global semaphore
     lused     : [Listeners -> Nat],     \* listener semaphores
     drain     : [Releasers -> Drain],
     relErr    : BOOLEAN]                \* workerActivity.releaseErr

Fresh(state) ==
    [loop |-> state, cancelled |-> FALSE, stopping |-> FALSE, batch |-> {}, at |-> 1,
     progress |-> FALSE, cur |-> {}, failed |-> FALSE, pending |-> {}, held |-> {},
     flights |-> {}, tracked |-> {}, used |-> 0, lused |-> [l \in Listeners |-> 0],
     drain |-> [d \in Releasers |-> NotDraining], relErr |-> FALSE]

TypeOK ==
    /\ QTypeOK
    /\ proc \in [Workers -> Process]
    /\ exit \in [Workers -> {"none", "clean", "error", "crash"}]
    /\ answers \in [Events -> SUBSET Answers]
    /\ faults \in Nat
    /\ stops \in Nat

Up(w)  == proc[w].loop # "down"
Ids(C) == {c.id : c \in C}

\* Everything a process would still act on.
InHand(w) ==
    proc[w].batch \cup proc[w].pending
        \cup {f.c : f \in {g \in proc[w].flights : g.stage # "finish"}}
        \cup UNION {proc[w].drain[d].rel : d \in Releasers}

\* A step of process w leaves the others alone.
Becomes(w, p) == proc' = [proc EXCEPT ![w] = p]

Fault == faults < MaxFaults /\ faults' = faults + 1

\* semaphore.release ignores a release too many.
Released(n) == IF n > 0 THEN n - 1 ELSE 0

-------------------------------------------------------------------------------
(* One settlement call of a worker, as every caller but the drain sees it: *)
(* a late claim is swallowed, an error is only observed.                   *)

Transition(w, c, verdict) ==
    \/ verdict = "success" /\ Ack(w, c.id, c.attempt)
    \/ verdict = "retry" /\ \E due \in BOOLEAN : Nack(w, c.id, c.attempt, due)
    \/ verdict \in DeadReasons /\ Dead(w, c.id, c.attempt, verdict)

SettleCall(w, c, verdict) ==
    \/ Transition(w, c, verdict) /\ UNCHANGED faults
    \/ ~Leased(w, c.id) /\ UNCHANGED <<qvars, faults>>
    \/ Fault /\ UNCHANGED qvars

-------------------------------------------------------------------------------
(* RunOnce: take what was retained, drop what was held too long, sweep,    *)
(* claim.                                                                  *)

Start(w) ==
    /\ ~Up(w)
    /\ Becomes(w, Fresh("idle"))
    /\ UNCHANGED <<qvars, exit, answers, faults, stops>>

\* Local hold limits passed: abandoned without a release.  The hold map is
\* keyed by event id, so one of two claims of an event is dropped at a time.
HoldsExpired(w) ==
    {X \in SUBSET {c \in proc[w].pending : c.id \in proc[w].held} :
        /\ IsFiniteSet(X)
        /\ \A c, d \in X : c.id = d.id => c = d
        /\ faults + Cardinality(X) <= MaxFaults}

Poll(w) ==
    /\ proc[w].loop = "idle" /\ ~proc[w].stopping
    /\ Becomes(w, [proc[w] EXCEPT !.loop = "take"])
    /\ UNCHANGED <<qvars, exit, answers, faults, stops>>

\* After an expired hold the cycle only dispatches.  A database call that
\* starts under a cancelled context fails; one under way may still succeed.
TakePending(w) ==
    /\ proc[w].loop = "take"
    /\ \E X \in HoldsExpired(w) :
        /\ Becomes(w, [proc[w] EXCEPT !.batch = proc[w].pending \ X, !.pending = {},
                                      !.held = @ \ Ids(X), !.at = 1, !.progress = FALSE,
                                      !.failed = X = {} /\ proc[w].cancelled,
                                      !.loop = CASE X # {} -> "visit"
                                                 [] X = {} /\ proc[w].cancelled -> "retain"
                                                 [] OTHER -> "reclaim"])
        /\ faults' = faults + Cardinality(X)
    /\ UNCHANGED <<qvars, exit, answers, stops>>

Sweep(w) ==
    /\ proc[w].loop = "reclaim"
    /\ ReclaimExpired
    /\ Becomes(w, [proc[w] EXCEPT !.loop = "swept"])
    /\ UNCHANGED <<exit, answers, faults, stops>>

HasCapacity(w) == proc[w].used < GlobalCap

BeginClaim(w) ==
    /\ proc[w].loop = "swept" /\ HasCapacity(w)
    /\ Becomes(w, [proc[w] EXCEPT !.loop = IF proc[w].cancelled THEN "retain" ELSE "claim",
                                  !.failed = proc[w].cancelled])
    /\ UNCHANGED <<qvars, exit, answers, faults, stops>>

ClaimBatch(w) ==
    /\ proc[w].loop = "claim"
    /\ \E S \in ClaimSets :
        /\ ClaimRows(w, S)
        /\ Becomes(w, [proc[w] EXCEPT !.batch = @ \cup ClaimedEvents(S), !.loop = "visit"])
    /\ UNCHANGED <<exit, answers, faults, stops>>

SkipClaim(w) ==
    /\ proc[w].loop = "swept" /\ ~HasCapacity(w)
    /\ Becomes(w, [proc[w] EXCEPT !.loop = "visit"])
    /\ UNCHANGED <<qvars, exit, answers, faults, stops>>

\* The sweep or the claim fails; once the context is cancelled it always may.
DatabaseError(w) ==
    /\ proc[w].loop \in {"reclaim", "claim"}
    /\ \/ Fault
       \/ proc[w].cancelled /\ UNCHANGED faults
    /\ Becomes(w, [proc[w] EXCEPT !.loop = "retain", !.failed = TRUE])
    /\ UNCHANGED <<qvars, exit, answers, stops>>

\* The claim commits and its answer is lost: leased rows nobody holds.
ClaimLost(w) ==
    /\ proc[w].loop = "claim"
    /\ \E S \in ClaimSets \ {{}} : ClaimRows(w, S)
    /\ Fault
    /\ Becomes(w, [proc[w] EXCEPT !.loop = "retain", !.failed = TRUE])
    /\ UNCHANGED <<exit, answers, stops>>

-------------------------------------------------------------------------------
(* dispatchBatch: rounds over the listeners, one event of each per round.  *)

Heads(w) == {c \in proc[w].batch : ListenerOf[c.id] = Order[proc[w].at]}

Visiting(w) == proc[w].loop = "visit" /\ proc[w].at <= Len(Order)

VisitNone(w) ==
    /\ Visiting(w) /\ Heads(w) = {}
    /\ Becomes(w, [proc[w] EXCEPT !.at = @ + 1])
    /\ UNCHANGED <<qvars, exit, answers, faults, stops>>

\* The event leaves the batch and is dead-lettered before the next visit.
Consume(w, c, reason) ==
    /\ SettleCall(w, c, reason)
    /\ Becomes(w, [proc[w] EXCEPT !.batch = @ \ {c}, !.held = @ \ {c.id},
                                  !.progress = TRUE, !.at = @ + 1])
    /\ UNCHANGED <<exit, answers, stops>>

VisitUnknown(w) ==
    /\ Visiting(w) /\ Order[proc[w].at] \notin Configured
    /\ \E c \in Heads(w) : Consume(w, c, "unknown listener")

\* Faulty variant: every payload counts as too large.
VisitOversizeAny(w) ==
    /\ Visiting(w) /\ Order[proc[w].at] \in Configured /\ ~proc[w].stopping
    /\ \E c \in Heads(w) : Consume(w, c, "payload size")

VisitOversize(w) ==
    /\ Visiting(w) /\ Order[proc[w].at] \in Configured /\ ~proc[w].stopping
    /\ \E c \in Heads(w) : c.id \in Oversize /\ Consume(w, c, "payload size")

ListenerFull(w, l) == Cap[l] > 0 /\ proc[w].lused[l] >= Cap[l]

\* tryDispatch blocked: draining, or no slot; a global slot taken for a full
\* listener is given back at once.
VisitBlocked(w) ==
    /\ Visiting(w) /\ Order[proc[w].at] \in Configured
    /\ \E c \in Heads(w) :
        \/ proc[w].stopping
        \/ c.id \notin Oversize /\ (~HasCapacity(w) \/ ListenerFull(w, Order[proc[w].at]))
    /\ Becomes(w, [proc[w] EXCEPT !.at = @ + 1])
    /\ UNCHANGED <<qvars, exit, answers, faults, stops>>

Acquire(w) ==
    /\ Visiting(w) /\ Order[proc[w].at] \in Configured /\ ~proc[w].stopping
    /\ HasCapacity(w) /\ ~ListenerFull(w, Order[proc[w].at])
    /\ \E c \in Heads(w) :
        /\ c.id \notin Oversize
        /\ Becomes(w, [proc[w] EXCEPT !.cur = {c}, !.loop = "track", !.used = @ + 1,
                                      !.lused[Order[proc[w].at]] = @ + 1])
    /\ UNCHANGED <<qvars, exit, answers, faults, stops>>

Started(C) == {[c |-> c, stage |-> "send", verdict |-> "none"] : c \in C}

\* Faulty variant: a request starts while draining.
TrackAlways(w) ==
    /\ proc[w].loop = "track"
    /\ Becomes(w, [proc[w] EXCEPT !.batch = @ \ proc[w].cur, !.cur = {},
                                  !.held = @ \ Ids(proc[w].cur),
                                  !.flights = @ \cup Started(proc[w].cur),
                                  !.tracked = @ \cup proc[w].cur,
                                  !.progress = TRUE, !.at = @ + 1, !.loop = "visit"])
    /\ UNCHANGED <<qvars, exit, answers, faults, stops>>

\* Faulty variant: a refused dispatch keeps the listener's slot.
TrackRefusedLeaks(w) ==
    /\ proc[w].loop = "track" /\ proc[w].stopping
    /\ Becomes(w, [proc[w] EXCEPT !.cur = {}, !.used = Released(@),
                                  !.at = @ + 1, !.loop = "visit"])
    /\ UNCHANGED <<qvars, exit, answers, faults, stops>>

\* track: refused once draining, and then both slots go back.
Track(w) ==
    /\ proc[w].loop = "track" /\ ~proc[w].stopping
    /\ Becomes(w, [proc[w] EXCEPT !.batch = @ \ proc[w].cur, !.cur = {},
                                  !.held = @ \ Ids(proc[w].cur),
                                  !.flights = @ \cup Started(proc[w].cur),
                                  !.tracked = @ \cup proc[w].cur,
                                  !.progress = TRUE, !.at = @ + 1, !.loop = "visit"])
    /\ UNCHANGED <<qvars, exit, answers, faults, stops>>

TrackRefused(w) ==
    /\ proc[w].loop = "track" /\ proc[w].stopping
    /\ Becomes(w, [proc[w] EXCEPT !.cur = {}, !.used = Released(@),
                                  !.lused[Order[proc[w].at]] = Released(@),
                                  !.at = @ + 1, !.loop = "visit"])
    /\ UNCHANGED <<qvars, exit, answers, faults, stops>>

\* Faulty variant: what could not be dispatched is not retained.
RoundEndForgets(w) ==
    /\ proc[w].loop = "visit" /\ proc[w].at > Len(Order)
    /\ Becomes(w, [proc[w] EXCEPT !.at = 1, !.progress = FALSE,
                                  !.batch = IF proc[w].progress THEN @ ELSE {},
                                  !.loop = IF proc[w].progress /\ proc[w].batch # {}
                                           THEN "visit" ELSE "idle"])
    /\ UNCHANGED <<qvars, exit, answers, faults, stops>>

RoundEnd(w) ==
    /\ proc[w].loop = "visit" /\ proc[w].at > Len(Order)
    /\ Becomes(w, [proc[w] EXCEPT !.at = 1, !.progress = FALSE,
                                  !.loop = CASE ~proc[w].progress -> "retain"
                                             [] proc[w].progress /\ proc[w].batch = {} -> "idle"
                                             [] OTHER -> "visit"])
    /\ UNCHANGED <<qvars, exit, answers, faults, stops>>

-------------------------------------------------------------------------------
(* retainPending: the draining check and the store are two critical        *)
(* sections, and Drain may start between them.                             *)

RetainCheck(w) ==
    /\ proc[w].loop = "retain"
    /\ Becomes(w, [proc[w] EXCEPT
          !.loop = IF proc[w].stopping THEN "release" ELSE "store",
          !.batch = IF proc[w].stopping THEN {} ELSE @,
          !.drain["retain"] =
              IF proc[w].stopping
              THEN [st |-> "release", rel |-> proc[w].batch, err |-> FALSE] ELSE @])
    /\ UNCHANGED <<qvars, exit, answers, faults, stops>>

\* Where RunOnce's return leads: back to the select; with an error, to the
\* supervisor's backoff, or out of it once the context is cancelled.
AfterCycle(w) ==
    CASE ~proc[w].failed                        -> {"idle"}
      [] proc[w].failed /\ proc[w].cancelled    -> {"idle", "ended"}
      [] proc[w].failed /\ ~proc[w].cancelled   -> {"backoff"}

Store(w) ==
    /\ proc[w].loop = "store"
    /\ \E next \in AfterCycle(w) :
        Becomes(w, [proc[w] EXCEPT !.pending = @ \cup proc[w].batch, !.batch = {},
                                   !.held = @ \cup Ids(proc[w].batch),
                                   !.loop = next, !.failed = FALSE])
    /\ UNCHANGED <<qvars, exit, answers, faults, stops>>

RetainReleased(w) ==
    /\ proc[w].loop = "release" /\ proc[w].drain["retain"].rel = {}
    /\ \E next \in AfterCycle(w) :
        Becomes(w, [proc[w] EXCEPT !.relErr = @ \/ proc[w].drain["retain"].err,
                                   !.drain["retain"] = NotDraining,
                                   !.loop = next, !.failed = FALSE])
    /\ UNCHANGED <<qvars, exit, answers, faults, stops>>

\* runDeliveryWorker's restart after a failed Run.
Supervise(w) ==
    /\ proc[w].loop = "backoff"
    /\ Becomes(w, [proc[w] EXCEPT !.loop = IF proc[w].cancelled THEN "ended" ELSE "idle"])
    /\ UNCHANGED <<qvars, exit, answers, faults, stops>>

-------------------------------------------------------------------------------
(* One request: deliver, recordResult, then the deferred untrack and slot  *)
(* releases.                                                               *)

\* Faulty variant: every answer that is not an error counts as success.
VerdictAnswered(c, answer) == IF answer = TransportError THEN "retry" ELSE "success"

Verdict(c, answer) ==
    LET outcome == classifyAttempt(MaxAttempts[ListenerOf[c.id]], c.attempt, answer)
    IN  CASE outcome = "success"   -> "success"
          [] outcome = "retryable" -> "retry"
          [] outcome = "terminal"  -> "attempt"

Move(w, f, g) == Becomes(w, [proc[w] EXCEPT !.flights = (@ \ {f}) \cup {g}])

Refuse(w, f) ==
    /\ f.stage = "send" /\ f.c.id \in Unbuildable
    /\ Move(w, f, [f EXCEPT !.stage = "settle", !.verdict = "envelope"])
    /\ UNCHANGED <<qvars, exit, answers, faults, stops>>

Respond(w, f) ==
    /\ f.stage = "send" /\ f.c.id \notin Unbuildable
    /\ \E answer \in Answers :
        /\ Move(w, f, [f EXCEPT !.stage = "settle", !.verdict = Verdict(f.c, answer)])
        /\ answers' = [answers EXCEPT ![f.c.id] = @ \cup {answer}]
    /\ UNCHANGED <<qvars, exit, faults, stops>>

SettleFlight(w, f) ==
    /\ f.stage = "settle"
    /\ SettleCall(w, f.c, f.verdict)
    /\ Move(w, f, [f EXCEPT !.stage = "finish"])
    /\ UNCHANGED <<exit, answers, stops>>

\* Faulty variant: the request is never untracked.
FinishTracked(w, f) ==
    /\ f.stage = "finish"
    /\ Becomes(w, [proc[w] EXCEPT !.flights = @ \ {f}, !.used = Released(@),
                                  !.lused[ListenerOf[f.c.id]] = Released(@)])
    /\ UNCHANGED <<qvars, exit, answers, faults, stops>>

\* untrack takes one claim of the event off the record, not always this one.
\* The slots go back right after it; a visit blocked in between could as well
\* have come first.
Finish(w, f) ==
    /\ f.stage = "finish"
    /\ \E c \in proc[w].tracked :
        /\ c.id = f.c.id
        /\ Becomes(w, [proc[w] EXCEPT !.flights = @ \ {f}, !.tracked = @ \ {c},
                                      !.used = Released(@),
                                      !.lused[ListenerOf[f.c.id]] = Released(@)])
    /\ UNCHANGED <<qvars, exit, answers, faults, stops>>

-------------------------------------------------------------------------------
(* Shutdown: a signal cancels the command context; the loop drains when it *)
(* sees it, the command's main goroutine drains too, then the process      *)
(* exits whatever the loop is doing.                                       *)

Shutdown(w) ==
    /\ Up(w) /\ ~proc[w].cancelled /\ stops < MaxStops
    /\ Becomes(w, [proc[w] EXCEPT !.cancelled = TRUE])
    /\ stops' = stops + 1
    /\ UNCHANGED <<qvars, exit, answers, faults>>

BeginDrain(w, d) ==
    /\ proc[w].cancelled /\ proc[w].drain[d].st = "off"
    /\ d = "loop" => proc[w].loop = "idle"
    /\ Becomes(w, [proc[w] EXCEPT !.stopping = TRUE, !.drain[d].st = "wait",
                                  !.loop = IF d = "loop" THEN "drain" ELSE @])
    /\ UNCHANGED <<qvars, exit, answers, faults, stops>>

\* waitForActivity, then the events still tracked and the ones held back.
DrainWaited(w, d) ==
    /\ proc[w].drain[d].st = "wait"
    /\ \/ proc[w].tracked = {} /\ UNCHANGED faults
       \/ proc[w].tracked # {} /\ Fault
    /\ Becomes(w, [proc[w] EXCEPT
          !.drain[d] = [st  |-> "release",
                           rel |-> proc[w].tracked \cup proc[w].pending,
                           err |-> proc[w].tracked # {}],
          !.pending = {}, !.held = {}])
    /\ UNCHANGED <<qvars, exit, answers, stops>>

\* releaseHeld: one Nack, due at once, per event id.
ReleaseOne(w, d) ==
    /\ proc[w].drain[d].st = "release"
    /\ \E c \in proc[w].drain[d].rel :
        /\ \/ Nack(w, c.id, c.attempt, TRUE) /\ UNCHANGED <<faults>>
           \/ ~Leased(w, c.id) /\ UNCHANGED <<qvars, faults>>
           \/ Fault /\ (UNCHANGED qvars \/ Nack(w, c.id, c.attempt, TRUE))
        /\ Becomes(w, [proc[w] EXCEPT !.drain[d].rel = {x \in @ : x.id # c.id},
                                      !.drain[d].err = @ \/ faults' # faults])
    /\ UNCHANGED <<exit, answers, stops>>

DrainEnd(w, d) ==
    /\ proc[w].drain[d].st = "release" /\ proc[w].drain[d].rel = {}
    /\ LET err == proc[w].drain[d].err \/ proc[w].relErr
       IN  Becomes(w, [proc[w] EXCEPT !.drain[d].st = "done", !.drain[d].err = err,
                                      !.relErr = err,
                                      !.loop = IF d = "loop" THEN "ended" ELSE @])
    /\ UNCHANGED <<qvars, exit, answers, faults, stops>>

Ends(w, how) ==
    /\ Becomes(w, Fresh("down"))
    /\ exit' = [exit EXCEPT ![w] = how]

\* drainAndReport's answer becomes the exit status.
Exit(w) ==
    /\ proc[w].drain["cli"].st = "done"
    /\ Ends(w, IF proc[w].drain["cli"].err THEN "error" ELSE "clean")
    /\ UNCHANGED <<qvars, answers, faults, stops>>

\* The HTTP server does not stop in time: the command ends without a drain.
ServerShutdownFails(w) ==
    /\ proc[w].cancelled /\ proc[w].drain["cli"].st = "off"
    /\ Fault
    /\ Ends(w, "error")
    /\ UNCHANGED <<qvars, answers, stops>>

Crash(w) ==
    /\ Up(w) /\ Fault
    /\ Ends(w, "crash")
    /\ UNCHANGED <<qvars, answers, stops>>

-------------------------------------------------------------------------------
(* What happens around the workers.                                        *)

\* A lease runs out.  While a live process still acts on the claim that is
\* a failure (a request or a hold longer than the lease); an abandoned lease
\* always runs out.
LeaseRunsOut(e) ==
    /\ LeaseExpires(e)
    /\ IF \E c \in InHand(queue[e].leased_by) : c.id = e THEN Fault ELSE UNCHANGED faults
    /\ UNCHANGED <<proc, exit, answers, stops>>

Surroundings ==
    /\ \/ \E e \in Events : Enqueue(e)
       \/ \E sel \in Selector : \E S \in RetrySets(sel) : RetryBatch(sel, S)
       \/ \E P \in Partitions : DropPartition(P)
    /\ UNCHANGED wvars

DueTime(e) == BecomeDue(e) /\ UNCHANGED wvars

LoopStep(w) ==
    \/ Poll(w) \/ TakePending(w) \/ Sweep(w) \/ BeginClaim(w) \/ ClaimBatch(w) \/ SkipClaim(w)
    \/ VisitNone(w) \/ VisitUnknown(w) \/ VisitOversize(w) \/ VisitBlocked(w)
    \/ Acquire(w) \/ Track(w) \/ TrackRefused(w) \/ RoundEnd(w)
    \/ RetainCheck(w) \/ Store(w) \/ RetainReleased(w) \/ Supervise(w)
    \/ DatabaseError(w) \/ ClaimLost(w)

FlightStep(w, f) ==
    Refuse(w, f) \/ Respond(w, f) \/ SettleFlight(w, f) \/ Finish(w, f)

DrainStep(w, d) ==
    \/ d # "retain" /\ (BeginDrain(w, d) \/ DrainWaited(w, d) \/ DrainEnd(w, d))
    \/ ReleaseOne(w, d)

ProcessStep(w) == Start(w) \/ Shutdown(w) \/ Exit(w) \/ ServerShutdownFails(w) \/ Crash(w)

Init ==
    /\ QInit
    /\ proc = [w \in Workers |-> Fresh("down")]
    /\ exit = [w \in Workers |-> "none"]
    /\ answers = [e \in Events |-> {}]
    /\ faults = 0
    /\ stops = 0

Next ==
    \/ \E w \in Workers :
        \/ LoopStep(w)
        \/ \E f \in proc[w].flights : FlightStep(w, f)
        \/ \E d \in Releasers : DrainStep(w, d)
        \/ ProcessStep(w)
    \/ Surroundings
    \/ \E e \in Events : DueTime(e) \/ LeaseRunsOut(e)

Spec == Init /\ [][Next]_vars

-------------------------------------------------------------------------------
(* Fairness.  Requests end by the listener's timeout, database calls by    *)
(* their answer or error, timers fire, and a supervisor keeps a process    *)
(* running; signals, failures, operators and producers owe nothing.        *)

Fairness ==
    /\ \A w \in Workers :
        /\ WF_vars(LoopStep(w))
        /\ WF_vars(\E f \in proc[w].flights : FlightStep(w, f))
        /\ \A d \in Releasers : WF_vars(DrainStep(w, d))
        /\ WF_vars(Start(w) \/ Exit(w))
    /\ \A e \in Events : WF_vars(DueTime(e)) /\ WF_vars(LeaseRunsOut(e))

FairSpec == Spec /\ Fairness

-------------------------------------------------------------------------------
(* Properties.                                                             *)

Succeeded(e) == \E s \in answers[e] : ClassifyStatus(s) = "success"

\* At-least-once: an event's row is gone only after a destination answered
\* one of its requests with a 2xx, whatever crashes, lease expiries, drains,
\* operator retries and late settlements happened in between.
RemovedOnlyAfterSuccess ==
    \A e \in log : queue[e].status = "absent" => Succeeded(e)

\* A dead letter has the cause its reason names: an unconfigured listener,
\* an oversized payload, an envelope that cannot be built, or an attempt
\* that a destination refused for good or that reached max_attempts.
DeadHasCause ==
    \A e \in Events : queue[e].status = "dead" =>
        CASE queue[e].dead_reason = "unknown listener" -> ListenerOf[e] \notin Configured
          [] queue[e].dead_reason = "payload size"     -> e \in Oversize
          [] queue[e].dead_reason = "envelope"         -> e \in Unbuildable
          [] queue[e].dead_reason = "attempt"          ->
                \/ \E s \in answers[e] : s # TransportError /\ ClassifyStatus(s) = "terminal"
                \/ \E d \in deliveries : /\ d.event_id = e
                                         /\ Terminal(MaxAttempts[ListenerOf[e]], d.attempt)

\* Every admission slot is accounted for by one request in flight, or by the
\* event between tryAcquire and track: none leaks when track refuses, none is
\* given back twice, and no cap is exceeded.
SlotsAccounted ==
    \A w \in Workers :
        /\ proc[w].used = Cardinality(proc[w].flights) + Cardinality(proc[w].cur)
        /\ proc[w].used <= GlobalCap
        /\ \A l \in Listeners :
            /\ proc[w].lused[l] =
                  Cardinality({f \in proc[w].flights : ListenerOf[f.c.id] = l})
                      + Cardinality({c \in proc[w].cur : ListenerOf[c.id] = l})
            /\ Cap[l] > 0 => proc[w].lused[l] <= Cap[l]

\* Without a failure no lease is forgotten: a delivering row whose holder has
\* not exited is in that process's hands (being dispatched, retained, in
\* flight or being released) under the very claim the row carries.
NoForgottenLease ==
    faults = 0 =>
        \A e \in Events :
            queue[e].status = "delivering" /\ exit[queue[e].leased_by] = "none" =>
                \E c \in InHand(queue[e].leased_by) : c.id = e /\ c.token = issued[e]

Requests(e) ==
    UNION {{<<w, f>> : f \in {g \in proc[w].flights : g.c.id = e /\ g.stage = "send"}}
              : w \in Workers}

\* Duplicate requests have a cause: without a failure (lease outlived, crash,
\* drain timeout, database error) and without an operator retry of it, an
\* event has at most one request under way across all workers.
OneRequestAtATime ==
    \A e \in Events :
        faults = 0 /\ resets[e] = 0 => Cardinality(Requests(e)) <= 1

\* A drain that did not time out waited for every request: none is cut off
\* by the exit that follows, and none is started after the wait.
NoRequestCutOff ==
    \A w \in Workers : \A d \in {"loop", "cli"} :
        proc[w].drain[d].st \in {"release", "done"} /\ ~proc[w].drain[d].err
            => proc[w].flights = {}

\* The fate of each event as the tables show it.
Fate == [e \in Events |->
            CASE e \in dropped                      -> "forgotten"
              [] e \notin log \cup dropped          -> "new"
              [] e \in log /\ queue[e].status = "absent" -> "delivered"
              [] e \in log /\ queue[e].status = "dead"   -> "dead"
              [] OTHER                             -> "owed"]

Promise == INSTANCE AtLeastOnce WITH fate <- Fate, accepted <- {e \in Events : Succeeded(e)}

\* The workers, the queue tables, the operator and retention together
\* implement the at-least-once promise: no step loses an owed event, revives
\* a delivered one or counts one as delivered that no destination accepted.
KeepsPromise == Promise!ASpec

\* A shutdown signal always ends the process, through waiting requests,
\* failing releases and both drains.
ShutdownCompletes ==
    \A w \in Workers : proc[w].cancelled ~> ~Up(w)

\* Every event written by the trigger is eventually delivered or dead: no
\* failure, shutdown or retained batch leaves it in the queue for ever.
EventuallySettled ==
    \A e \in Events : e \in log ~> queue[e].status \in {"absent", "dead"}

-------------------------------------------------------------------------------
(* What a comment of the code says and its steps do not keep.              *)

\* "A late Ack, Nack or Dead returns ErrEventNotClaimed" (source/doc.go): the
\* outcome of a request is applied to the claim it was sent under, never to
\* a later claim of the same event by the same worker.
SettleOnlyOwnClaim ==
    [][\A w \in Workers : \A f \in proc[w].flights :
          /\ f.stage = "settle"
          /\ [f EXCEPT !.stage = "finish"] \in proc'[w].flights
          /\ queue'[f.c.id] # queue[f.c.id]
          => f.c.token = issued[f.c.id]]_vars

===============================================================================
