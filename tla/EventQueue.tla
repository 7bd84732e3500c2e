------------------------------ MODULE EventQueue ------------------------------
(***************************************************************************)
(* The queue tables and the source adapter of internal/source: the events  *)
(* log the trigger appends to, the event_queue row that carries an event's *)
(* delivery state, and the deliveries table.  Every adapter operation is   *)
(* one PostgreSQL transaction and is one action here.  PostgreSQL itself   *)
(* is external; the actions say what the statements do to the rows.        *)
(*                                                                         *)
(* Time is abstract.  A row's next_attempt_at is the flag `due` (it has    *)
(* passed now()), its leased_until the flag `expired`; BecomeDue and       *)
(* LeaseExpires are the server clock passing them, at any moment.          *)
(***************************************************************************)
EXTENDS Integers, FiniteSets

CONSTANTS
    Events,           \* ids the events table may receive
    Listeners,        \* listener names
    ListenerOf,       \* the listener column of an event
    Partitions,       \* the events of each range partition of the log
    Workers,          \* lease identities: one per serving process
    NoWorker,         \* leased_by IS NULL
    BatchSize,        \* worker.batch_size, the claim's LIMIT
    RetryLimit,       \* retryBatchLimit of `events retry`
    MaxClaims,        \* model bound: claims granted per event
    MaxResets         \* model bound: operator retries per event

ASSUME QueueAssumption ==
    /\ ListenerOf \in [Events -> Listeners]
    /\ Partitions \subseteq SUBSET Events
    /\ NoWorker \notin Workers
    /\ BatchSize \in Nat \ {0}
    /\ RetryLimit \in Nat \ {0}
    /\ MaxClaims \in Nat
    /\ MaxResets \in Nat

VARIABLES
    log,              \* events: ids written by the trigger and retained
    dropped,          \* ids whose partition retention has dropped
    queue,            \* event_queue: the row of each event
    deliveries,       \* deliveries: one record per (event, attempt)
    issued,           \* history: claims granted on each event so far
    resets            \* history: operator retries that reset each event

qvars == <<log, dropped, queue, deliveries, issued, resets>>

-------------------------------------------------------------------------------
(* Types.                                                                  *)

Statuses    == {"pending", "delivering", "dead"}
DeadReasons == {"unknown listener", "payload size", "envelope", "attempt"}

\* An event_queue row; status "absent" stands for no row.
Row == [status      : Statuses \cup {"absent"},
        attempts    : Nat,
        due         : BOOLEAN,
        leased_by   : Workers \cup {NoWorker},
        expired     : BOOLEAN,
        dead_reason : DeadReasons \cup {"null"}]

Absent == [status |-> "absent", attempts |-> 0, due |-> FALSE,
           leased_by |-> NoWorker, expired |-> FALSE, dead_reason |-> "null"]

\* What Claim returns for one row.  `token` and `epoch` are history: which
\* claim of the event this is, and how many operator resets preceded it.
Claim == [id : Events, attempt : Nat, token : Nat, epoch : Nat]

Delivery == [event_id : Events, attempt : Nat, ok : BOOLEAN]

QTypeOK ==
    /\ log \subseteq Events
    /\ dropped \subseteq Events
    /\ queue \in [Events -> Row]
    /\ deliveries \subseteq Delivery
    /\ issued \in [Events -> Nat]
    /\ resets \in [Events -> Nat]

-------------------------------------------------------------------------------
(* The trigger function: log the event and queue it, in one statement.     *)

Enqueue(e) ==
    /\ e \notin log \cup dropped
    /\ log' = log \cup {e}
    /\ queue' = [queue EXCEPT ![e] = [Absent EXCEPT !.status = "pending", !.due = TRUE]]
    /\ UNCHANGED <<dropped, deliveries, issued, resets>>

-------------------------------------------------------------------------------
(* Claim: lease up to BatchSize due rows and read their events.  The order *)
(* among due rows is left open, and rows locked by another transaction may *)
(* be skipped, so any such set of rows may be taken.  A claim that skips   *)
(* every due row changes nothing and is left out.                          *)

Claimable == {e \in Events : queue[e].status = "pending" /\ queue[e].due}

ClaimSets ==
    {S \in SUBSET Claimable :
        /\ Cardinality(S) <= BatchSize
        /\ Claimable # {} => S # {}}

ClaimRows(w, S) ==
    /\ \A e \in S : issued[e] < MaxClaims
    /\ queue' = [e \in Events |->
                    IF e \in S
                    THEN [queue[e] EXCEPT !.status = "delivering", !.attempts = @ + 1,
                                          !.leased_by = w, !.expired = FALSE]
                    ELSE queue[e]]
    /\ issued' = [e \in Events |-> IF e \in S THEN issued[e] + 1 ELSE issued[e]]
    /\ UNCHANGED <<log, dropped, deliveries, resets>>

\* readClaimedEvents joins the leased rows to their logged events.
ClaimedEvents(S) ==
    {[id |-> e, attempt |-> queue[e].attempts + 1,
      token |-> issued[e] + 1, epoch |-> resets[e]] : e \in S \cap log}

-------------------------------------------------------------------------------
(* Settling a claim.  The three transitions share one guard, and record    *)
(* the attempt in the same transaction; a row the guard does not match     *)
(* answers ErrEventNotClaimed and changes nothing.                         *)

Leased(w, e) == queue[e].status = "delivering" /\ queue[e].leased_by = w

\* Faulty variant: ON CONFLICT DO NOTHING keeps the older record.
RecordedOnce(e, a, ok) ==
    IF \E d \in deliveries : d.event_id = e /\ d.attempt = a THEN deliveries
    ELSE deliveries \cup {[event_id |-> e, attempt |-> a, ok |-> ok]}

\* INSERT ... ON CONFLICT (event_id, attempt) DO UPDATE.
Recorded(e, a, ok) ==
    {d \in deliveries : ~(d.event_id = e /\ d.attempt = a)}
        \cup {[event_id |-> e, attempt |-> a, ok |-> ok]}

Settle(e, row, a, ok) ==
    /\ queue' = [queue EXCEPT ![e] = row]
    /\ deliveries' = Recorded(e, a, ok)
    /\ UNCHANGED <<log, dropped, issued, resets>>

Ack(w, e, a) ==
    /\ Leased(w, e)
    /\ Settle(e, Absent, a, TRUE)

\* `due` says whether the retry instant had already come when Nack ran.
Nack(w, e, a, due) ==
    /\ Leased(w, e)
    /\ Settle(e, [queue[e] EXCEPT !.status = "pending", !.due = due,
                                  !.leased_by = NoWorker, !.expired = FALSE], a, FALSE)

\* Faulty variant: the row is deleted.
DeadDeletes(w, e, a, reason) ==
    /\ Leased(w, e)
    /\ Settle(e, Absent, a, FALSE)

Dead(w, e, a, reason) ==
    /\ Leased(w, e)
    /\ Settle(e, [queue[e] EXCEPT !.status = "dead", !.dead_reason = reason,
                                  !.leased_by = NoWorker, !.expired = FALSE], a, FALSE)

-------------------------------------------------------------------------------
(* The lease sweep: every expired lease goes back to pending, attempts     *)
(* untouched.                                                              *)

ExpiredLeases == {e \in Events : queue[e].status = "delivering" /\ queue[e].expired}

\* Faulty variants: the sweep counts the lost attempt; it takes leases that
\* have not expired; it never frees anything.
ReclaimCounting ==
    /\ queue' = [e \in Events |->
                    IF e \in ExpiredLeases
                    THEN [queue[e] EXCEPT !.status = "pending", !.attempts = @ + 1,
                                          !.leased_by = NoWorker, !.expired = FALSE]
                    ELSE queue[e]]
    /\ UNCHANGED <<log, dropped, deliveries, issued, resets>>

\* Faulty variant: leases that still run are reclaimed too.
ReclaimAll ==
    /\ queue' = [e \in Events |->
                    IF queue[e].status = "delivering"
                    THEN [queue[e] EXCEPT !.status = "pending", !.leased_by = NoWorker,
                                          !.expired = FALSE]
                    ELSE queue[e]]
    /\ UNCHANGED <<log, dropped, deliveries, issued, resets>>

\* Faulty variant: expired leases are never reclaimed.
ReclaimNothing == UNCHANGED qvars

ReclaimExpired ==
    /\ queue' = [e \in Events |->
                    IF e \in ExpiredLeases
                    THEN [queue[e] EXCEPT !.status = "pending", !.leased_by = NoWorker,
                                          !.expired = FALSE]
                    ELSE queue[e]]
    /\ UNCHANGED <<log, dropped, deliveries, issued, resets>>

-------------------------------------------------------------------------------
(* `events retry`: the operator resets rows of any status to pending, due, *)
(* attempts 0.  The lease columns are not touched.                         *)

\* `id` is the empty set where the code's pointer is nil.
Selector == [id       : {{}} \cup {{e} : e \in Events},
             listener : Listeners \cup {""},
             status   : Statuses \cup {"", "unknown"}]

ValidateForRetry(sel) ==
    /\ sel.status \in Statuses \cup {""}
    /\ IF sel.id = {} THEN sel.status # "" /\ sel.listener # ""
                      ELSE sel.status = "" /\ sel.listener = ""

\* Faulty variant: the selection reads the event log, not the queue.
MatchesLogged(sel, e) ==
    /\ e \in log
    /\ sel.id # {} => e \in sel.id
    /\ sel.listener # "" => ListenerOf[e] = sel.listener
    /\ sel.status # "" => queue[e].status = sel.status

Matches(sel, e) ==
    /\ queue[e].status # "absent"
    /\ sel.id # {} => e \in sel.id
    /\ sel.listener # "" => ListenerOf[e] = sel.listener
    /\ sel.status # "" => queue[e].status = sel.status

\* The rows RetryBatch would leave as they are are not selected again.
AlreadyRetried(e) ==
    /\ queue[e].status = "pending"
    /\ queue[e].attempts = 0
    /\ queue[e].dead_reason = "null"
    /\ queue[e].due

RetrySets(sel) ==
    {S \in SUBSET {e \in Events : Matches(sel, e) /\ ~AlreadyRetried(e)} :
        Cardinality(S) <= RetryLimit}

\* Faulty variant: dead_reason is not cleared.
RetryKeepsReason(sel, S) ==
    /\ ValidateForRetry(sel)
    /\ \A e \in S : resets[e] < MaxResets
    /\ queue' = [e \in Events |->
                    IF e \in S THEN [queue[e] EXCEPT !.status = "pending", !.attempts = 0,
                                                     !.due = TRUE]
                    ELSE queue[e]]
    /\ resets' = [e \in Events |-> IF e \in S THEN resets[e] + 1 ELSE resets[e]]
    /\ UNCHANGED <<log, dropped, deliveries, issued>>

RetryBatch(sel, S) ==
    /\ ValidateForRetry(sel)
    /\ \A e \in S : resets[e] < MaxResets
    /\ queue' = [e \in Events |->
                    IF e \in S
                    THEN [queue[e] EXCEPT !.status = "pending", !.attempts = 0,
                                          !.due = TRUE, !.dead_reason = "null"]
                    ELSE queue[e]]
    /\ resets' = [e \in Events |-> IF e \in S THEN resets[e] + 1 ELSE resets[e]]
    /\ UNCHANGED <<log, dropped, deliveries, issued>>

-------------------------------------------------------------------------------
(* Retention drops one expired partition: dead queue rows are reaped, and  *)
(* the composite foreign key makes the server refuse the detach, and with  *)
(* it the whole transaction, while any other row points into it.           *)

\* Faulty variant: rows of every status are reaped with the partition.
DropWithLiveRows(P) ==
    /\ P \cap log # {}
    /\ log' = log \ P
    /\ dropped' = dropped \cup (P \cap log)
    /\ queue' = [e \in Events |-> IF e \in P THEN Absent ELSE queue[e]]
    /\ UNCHANGED <<deliveries, issued, resets>>

DropPartition(P) ==
    /\ P \cap log # {}
    /\ \A e \in P : queue[e].status \in {"absent", "dead"}
    /\ log' = log \ P
    /\ dropped' = dropped \cup (P \cap log)
    /\ queue' = [e \in Events |-> IF e \in P THEN Absent ELSE queue[e]]
    /\ UNCHANGED <<deliveries, issued, resets>>

-------------------------------------------------------------------------------
(* The server clock.                                                       *)

BecomeDue(e) ==
    /\ queue[e].status = "pending" /\ ~queue[e].due
    /\ queue' = [queue EXCEPT ![e].due = TRUE]
    /\ UNCHANGED <<log, dropped, deliveries, issued, resets>>

LeaseExpires(e) ==
    /\ queue[e].status = "delivering" /\ ~queue[e].expired
    /\ queue' = [queue EXCEPT ![e].expired = TRUE]
    /\ UNCHANGED <<log, dropped, deliveries, issued, resets>>

-------------------------------------------------------------------------------
(* The adapter under arbitrary callers: any worker may settle any event at *)
(* any attempt number it could have been handed.                           *)

QInit ==
    /\ log = {}
    /\ dropped = {}
    /\ queue = [e \in Events |-> Absent]
    /\ deliveries = {}
    /\ issued = [e \in Events |-> 0]
    /\ resets = [e \in Events |-> 0]

QNext ==
    \/ \E e \in Events : Enqueue(e)
    \/ \E w \in Workers : \E S \in ClaimSets : ClaimRows(w, S)
    \/ \E w \in Workers, e \in Events : \E a \in 1..issued[e] :
           \/ Ack(w, e, a)
           \/ \E due \in BOOLEAN : Nack(w, e, a, due)
           \/ \E reason \in DeadReasons : Dead(w, e, a, reason)
    \/ ReclaimExpired
    \/ \E sel \in Selector : \E S \in RetrySets(sel) : RetryBatch(sel, S)
    \/ \E P \in Partitions : DropPartition(P)
    \/ \E e \in Events : BecomeDue(e) \/ LeaseExpires(e)

QSpec == QInit /\ [][QNext]_qvars

-------------------------------------------------------------------------------
(* Properties.                                                             *)

\* The foreign key of event_queue: no row without its logged event, through
\* enqueue, settlement, operator retry and the drop of a partition.
RowsAreLogged ==
    \A e \in Events : queue[e].status # "absent" => e \in log

\* dead_reason is set exactly on dead rows, through every settlement, sweep
\* and operator retry; RetryBatch's "already retried" test relies on it.
DeadHasReason ==
    \A e \in Events : queue[e].status = "dead" <=> queue[e].dead_reason # "null"

\* A delivering row always names its holder: the guard of Ack, Nack and Dead
\* could otherwise never match it and only the sweep would free it.
DeliveringIsOwned ==
    \A e \in Events : queue[e].status = "delivering" => queue[e].leased_by \in Workers

\* "Delivered is the queue row's absence": a retained event without a row
\* has a successful attempt on record.  Ack deletes and records in one
\* transaction, and a later attempt under a reused number (an operator retry
\* resets attempts) overwrites the older record instead of keeping it.
DeliveredIsRecorded ==
    \A e \in log : queue[e].status = "absent" =>
        \E d \in deliveries : d.event_id = e /\ d.ok

\* Retention destroys no event that was never tried: an event whose
\* partition is gone left at least one delivery attempt on record.
DroppedWasTried ==
    \A e \in dropped : \E d \in deliveries : d.event_id = e

\* The primary key (event_id, attempt) of deliveries, and attempts that are
\* all claims: only Claim counts up, however often an operator resets.
AttemptsAreClaims ==
    /\ \A e \in Events : queue[e].attempts <= issued[e]
    /\ \A d1, d2 \in deliveries :
           d1.event_id = d2.event_id /\ d1.attempt = d2.attempt => d1 = d2

\* Once an event's row is gone (acknowledged, or reaped with its partition)
\* nothing brings the event back into the queue, and nothing but retention
\* takes an event out of the log.
DeliveredIsFinal ==
    [][/\ \A e \in log \cup dropped : queue[e].status = "absent" => queue'[e].status = "absent"
       /\ log \cup dropped \subseteq log' \cup dropped']_qvars

===============================================================================
