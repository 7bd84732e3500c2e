# A TLA+ model of pg_noty

pg_noty turns row changes of a PostgreSQL database into HTTP deliveries. A
trigger writes each change into an event log and a queue table in the
application's own transaction; one or more `pg_noty run` processes claim queue
rows under a lease, post the events to their destinations, and settle each row
as delivered, to be retried, or dead. This directory holds a model of that
system, the TLC runs that check it, and proofs about it.

Paths below are relative to `src/internal/` unless they say otherwise.

## 1. Inventory

| Component | State it keeps | Operations |
|---|---|---|
| Queue and event log (`source/`, `schema/migrations/0002_objects.sql`) | `events` (partitioned log), `event_queue` (status, attempts, next_attempt_at, lease, dead_reason), `deliveries` | trigger insert, Claim, Ack, Nack, Dead, ReclaimExpired, RetryBatch; partition drop |
| Delivery worker (`delivery/`) | pending/held maps, semaphores, activity (tracked requests, stopping flag, release error) | RunOnce, dispatchBatch, tryDispatch, deliver, recordResult, retainPending, Drain |
| Retry policy (`delivery/policy.go`, `backoff.go`, `classify.go`, `retryafter.go`) | none | Ladder, DelayWith, EffectiveDelay, Terminal, ClassifyStatus, ParseRetryAfter |
| Wake-up path (`delivery/wakeup.go`, `source/listen.go`, `source/triggersource.go`) | LISTEN session, one-token channel, hint timer, ticker, closed flag | listenLoop, signalWake, wakeLoop.run, Close |
| Run command (`cli/run.go`, `rundrain.go`, `deliveryworker.go`, `reconcilelatch.go`, `runready.go`, `runmaintain.go`) | command context, reconcile latch, HTTP server | start, supervise, drain, exit status, readiness |
| Schema (`schema/`) | ownership marker, migration ledger, advisory lock, partitions | Bootstrap, migrate, Maintain, retention, RepairDefaultPartition |
| Reconcile (`reconcile/`) | run lock, catalog of triggers and functions, registry | Plan, Apply, ownership refusals |
| Events commands (`cli/events*.go`) | none | list, retry in batches until nothing matches |
| Metrics (`cli/metrics*.go`) | cached snapshot, single-flight | refresh, render |
| Configuration (`config/`) | none (a pipeline over a YAML text) | load, merge, interpolate, validate, redact |
| Transport, signing, envelope (`delivery/client.go`, `transport.go`, `ssrf.go`, `signing.go`, `envelope.go`) | none | build and send a request |

How they interact. The trigger and the operator's `events retry` share the
tables with every worker; each adapter call is one transaction. Inside a
process the delivery loop, one goroutine per request, the LISTEN goroutine and
the command's main goroutine share the worker's maps and the wake-up channel
under mutexes. Processes know each other only through the rows they lease.

What is hard here: leases that expire under running requests; the drain that
races the loop and the requests; claims and settlements whose commit or answer
is lost; attempt numbers that are reused after an operator's retry; a wake-up
channel that coalesces and is closed; arithmetic that saturates; several
replicas that bootstrap, maintain partitions and reconcile at once. The full
list, each with its line, is `hazards` in `PROJECT.json`.

What makes each component correct:

* queue: a row is removed only with a record of success; reasons match
  statuses; retention destroys nothing untried; what is gone stays gone;
* worker: at-least-once; slots and leases accounted for; a drain cuts nothing
  off silently; every event is eventually settled and every shutdown ends;
* policy: waits are the configured ladder, cut off but never wrapped, within
  `max_interval`; attempts are bounded;
* wake-up path: no wake-up lost, no panic, Close returns, everything is polled;
* schema: a boot's reading of the ledger holds until it writes, migrations run
  once and in order, a ready replica serves its own corpus, another instance's
  schema is left alone, no boot waits for ever;
* partitions: a settled pass left its ranges covered, gauges tell the truth,
  only expired data goes;
* reconcile: one run at a time, a commit leaves nothing pending and installs
  what is configured, nothing unproven is touched, nothing is removed without
  permission, the lock comes free;
* run command and metrics: readiness is earned within the request, gauges never
  step back, a refused or signalled process ends;
* configuration: what is accepted is servable; the WHEN scanner finds exactly
  what the server would read as a row variable.

## 2. Modules

| Module | Models | Notes |
|---|---|---|
| `EventQueue` | the tables and the adapter | specification `QSpec`: the adapter under arbitrary callers |
| `RetryPolicy` | classification and the attempt limit | constant operators |
| `DeliveryWorker` | worker processes over `EventQueue` | extends `EventQueue`, `RetryPolicy`; `Spec`, `FairSpec` |
| `AtLeastOnce` | what pg_noty promises for an event | abstract specification that `DeliveryWorker` implements |
| `Backoff` | delay arithmetic with bounded durations | constant operators |
| `RetrySchedule` | the retry instants of one event | extends `Backoff`, `RetryPolicy` |
| `WakeLoop` | LISTEN goroutine, channel, wake loop, Close | `WSpec`, `WFairSpec` |
| `SchemaBoot` | Bootstrap: lock, marker, ledger, migrations | `Spec`, `FairSpec` |
| `PartitionUpkeep` | maintenance, retention, drain of DEFAULT | `Spec` |
| `Reconcile` | run lock, plan, apply, destroy, registry | `Spec`, `FairSpec` |
| `Serving` | the run command around the worker: startup, latch, readiness, metrics, shutdown | `Spec` with fairness |
| `Configuration` | the loader's stages | pure, one document per behaviour |
| `WhenLexer` | the WHEN scanner and the server's lexer beside it | pure, one clause per behaviour |
| `DeliveryWorkerProofs` | theorems about `EventQueue`, and the first about `DeliveryWorker` | see section 5 |
| `WorkerCustodyProofs` | the rest of `DeliveryWorker`: slots, leases, duplicates, dead letters, the refinements | extends `DeliveryWorkerProofs` |
| `WakeLoopProofs`, `SchemaBootProofs`, `PartitionUpkeepProofs`, `ReconcileProofs`, `ServingProofs` | theorems about the module of that name | |
| `SettingsProofs` | theorems about `Configuration`, `Backoff`, `RetrySchedule` and `WhenLexer` | |
| `MC_*` | instances for TLC; `MC_Settings` puts `Configuration`, `RetrySchedule` and `WhenLexer` side by side | |

Operators whose comment says "Faulty variant" are not part of any
specification. Each stands next to a definition and changes it the way a
plausible bug would; `mutants` in `PROJECT.json` says which property each one
breaks when it takes that definition's place.

### EventQueue

`log` and `dropped` are the ids in, and formerly in, `events`; `queue[e]` is
the row of `event_queue` (status `"absent"` is no row); `deliveries` is the
table of that name. `issued` and `resets` are history: they count the claims
and operator retries of each event and bound the model (`MaxClaims`,
`MaxResets`). `next_attempt_at` and `leased_until` are flags, `due` and
`expired`, that `BecomeDue` and `LeaseExpires` raise at any moment: every order
of timers and calls is a behaviour. A claim takes any admissible set of due
rows, since `FOR UPDATE SKIP LOCKED` may skip what others lock.
`Settle` is the shared transaction shape of Ack, Nack and Dead (guard, row,
delivery record); a guard that matches no row changes nothing and appears in
`DeliveryWorker` as the swallowed late claim. `DropPartition` is the retention
transaction: reap dead rows, then detach, which the foreign key refuses while
any row is left.

### DeliveryWorker

`proc[w]` is a process's memory: where its loop is, the batch RunOnce carries,
`pending`/`held`, the requests in flight, what `workerActivity` tracks, the
semaphores, and up to three releasers of leases (the loop's drain, the
command's drain, and a `retainPending` that found the worker draining).
Actions are single critical sections or database calls:

* `Poll`, `TakePending`, `Sweep`, `BeginClaim`, `ClaimBatch`, `SkipClaim`,
  `DatabaseError`, `ClaimLost` are RunOnce up to the dispatch; draining is
  checked before the retained events are taken, so a drain fits in between;
* `VisitNone`, `VisitUnknown`, `VisitOversize`, `VisitBlocked`, `Acquire`,
  `Track`, `TrackRefused`, `RoundEnd` are dispatchBatch's rounds over `Order`
  (`listenerNames`). Within a listener the model takes any event first, the code
  the oldest;
* `RetainCheck`, `Store`, `RetainReleased` are retainPending, whose check and
  store are two critical sections;
* `Refuse`, `Respond`, `SettleFlight`, `Finish` are one request's goroutine;
* `BeginDrain`, `DrainWaited`, `ReleaseOne`, `DrainEnd` are Drain, for either
  caller; `Exit`, `ServerShutdownFails`, `Crash` end the process. The exit does
  not wait for the loop, as in the command.

`answers` is history: what destinations answered. Failures (database errors,
lost commits, expired holds, a lease outlived by the process acting on it, a
drain timeout, crashes) count against `MaxFaults`, so that "without a failure"
is a condition properties can use.

Process identities are reused after a restart. The code's identity contains
the pid; reuse is the harder case, and no row leased to the old process is ever
settled by the new one, which carries no claim of it.

### Backoff, RetrySchedule

Durations have `Bits` value bits instead of 63. Jitter is any draw the bound
allows. `RetrySchedule` runs one event through every sequence of answers.

### WakeLoop

`session` holds notifications the server has sent and the client has not
received; they die with the connection. `heard` remembers that `signalWake` ran
since the last poll began, `late` what was committed since then. A failed poll
ends the loop; `Supervise` starts a new one.

### SchemaBoot

A replica's boot is one action per statement or transaction: take the session
lock (`acquireLock`), read and write the marker, create the schema, check the
corpus, read the ledger, apply one migration per transaction, run a maintenance
pass, check the coverage, give the lock back. `cancel`, `loseSession` and `exit`
fall between any two of them. The lock belongs to a session and a session to a
pooled connection: a boot whose context is cancelled between two statements
leaves its lock on a healthy connection until the process exits, as the code
does. A process boots with any of the configured binaries, so older, newer and
edited corpora meet one ledger. What the coverage check finds is either answer
here; `PartitionUpkeep` says which.

### PartitionUpkeep

`parts` is what is attached to `events`, `loose` what a hand detached, `ours`
and `alien` what carries the marker and what does not; `at` is the instant of
an event, `log` the events stored, `queue` their rows. A pass reads the clock
and the catalog once (`Maintain`, `ApplyRetention`) and then creates or drops
one range per step against what the catalog has become. The server refuses
overlaps, rows in DEFAULT and dangling references; a refused create is looked
at again (`covers`), as is a refused drop (`noLongerCovered`). The drain of
DEFAULT is modelled statement by statement, because its transaction is READ
COMMITTED. The grid is floored division on integers, so it goes through the
epoch.

### Reconcile

`db` holds what names resolve to, triggers, functions and the registry; the
module's head explains it. `examined`, `classifyPair` and `diff` compute a plan
from configuration, registry and catalog as `diff.go` and `classify.go` do;
`Decide` stops it or lets it go on; `applyObjects` is the catalog after the
statements, with the code's second look at presence before a drop; and
`syncRegistry` the registry after the readback. A run waits for the lock, takes
it in time or late, plans, commits or rolls back, releases, or is cut off in the
middle of a statement, which closes the connection while the server's session
may still hold the key.

The lock belongs to a session, and `lock` names the run whose session the server
counts as the holder, or "lingering" for a session nobody speaks to any more:

* a try the server granted may lose its answer to the deadline or a cancellation
  (`TryCutOff`): the run gives up, the key goes with the closed connection;
* a run whose connection was closed under it ("ending") reaches
  `endTheSessionStillHoldingTheKey`; its session may end before (`SessionEnds`)
  and another run take the key, and then that step leaves the key alone, because
  the code terminates the backend it recorded for itself. Backend PIDs are
  assumed not to be reused within that moment;
* an unlock may fail (`ReleaseFails`): the connection broke, or the context ended
  before the query was sent and a healthy connection went back into the pool with
  the key. Every command returns on that error and closes its pool (`ClosePool`).

An administrator renames, drops and recreates tables, drops,
makes and re-marks triggers and edits functions; an operator edits the
configuration. `calm` records that nobody interfered since the plan.

### Serving

The server is bound before the startup obligation is met; the obligation is met
by verifying or by changing the database; the latch records the outcome. A
probe checks reachability, version and latch at three moments while other
replicas move the ledger; `witnessed` remembers the versions recorded during the
request. Scrapes share one observation, made with the mutex released; it fails on
the queue or on the partitions read after it. Once the obligation is discharged
the worker is built (`startWorker`), which a malformed `allowed_destination_cidrs`
refuses: the command then returns with its server still accepting. A refusal
or a signal closes the listener, waits for the requests that are running and
ends the process.

### Configuration, WhenLexer

A document says of each key how it is written (absent, null, a number, a
reference with or without default, an escape, a malformed one) and goes through
interpolation (a default is expanded in turn, and can hold an escape or an
opening nothing closes, but no reference), merging of anchors, presence, layered defaults, ranges and the
rules across values, each stage with its own policy on mistakes. Numbers are
points of an ordered scale; the built-in defaults keep their order. The WHEN
scanner is translated with its index arithmetic, its loops as recursive functions
of the position; the reference is an automaton of PostgreSQL's lexical states
that reads one symbol at a time and never looks ahead. The two must agree on the
position of the first bare row variable, not only on whether there is one. The
double quote is the symbol `"DQ"` and nothing pending is `"none"`, because the
provers cannot read those two string literals.

## 3. Runs

| Run | Instance | What it shows |
|---|---|---|
| `worker_custody` | 2 processes, 1 event, 3 claims, 1 reset, 1 fault | at-least-once, records and reasons, causes of duplicates, the refinement of `AtLeastOnce` |
| `worker_drain` | 1 process, batches of 2 of four events (deliverable, unbuildable, oversized, of an unconfigured listener), each claimed once, 1 fault, 1 signal | dead letters have their own cause; slots, leases and requests through a drain |
| `worker_liveness` | 1 process, 2 events of one listener (one of them unbuildable), 1 slot, 4 claims, 1 fault, 1 signal | shutdown ends, events settle, a retained event included |
| `settings` | 288 policies over 5-bit durations; clauses up to 8 symbols of 4 alphabets; some 12 thousand documents, with merges and environments | the pure algorithms against reference definitions |
| `wake_loop` | 2 events, 2 closers, 2 faults | wake-ups, Close, polling |
| `schema_boot` | 2 replicas, 3 process starts, 4 corpora, 3 markers, 2 ledgers | serialised migrations in order; foreign schemas untouched; no endless wait |
| `upkeep` | 2 replicas, 1 event, a clock of 4 instants, partitions of length 2, retention and horizon of 1, one table a DBA touches | coverage, gauges, retention |
| `reconcile` | 2 runs, 1 listener with 2 operations, 2 names, 2 tables, 5 configurations, 2 steps of an administrator or operator | convergence, ownership, permission, the lock's exclusion and its return |
| `serving` | 1 probe, 2 scrapes, 1 change of the queue, versions 0 to 3 of which 2 is expected | readiness, gauges, the end of the process |
| `stale_settle` | violation | see Findings |
| `drain_rows` | violation | see Findings |
| `reconcile_move` | violation | see Findings |

Why these bounds. Two workers make every hand-over of a lease happen (who may
settle is decided by identity alone); two events of one listener on one slot make
a partial dispatch and a retained event, whichever of the two is sent first (the
unbuildable one takes the slot too, and has one outcome, which keeps the run
small), and the retained one is released by a drain, dropped when its hold
expires, or dispatched when the slot comes free. `worker_custody` has no shutdown
and one slot: late outcomes after a drain, and two claims of one event in one
process, are left to `stale_settle` and to the theorems. The answer of
`worker_drain` is a refusal for good, so that all four causes of a dead letter
occur in it; its events are written in one order (`MCInOrder`), which costs no
batch, since a claim takes any of the rows that are due. Three claims with one fault and one reset cover a
claim, its loss, its repetition and a reset that reuses attempt numbers; four
claims let every event of the liveness run reach a verdict, since the fault and
the signal cost at most one claim each and two attempts settle. `max_attempts`
is 2 so that both a retry and the last attempt occur. Five value bits with
initial delays up to 12 saturate every mode within nine attempts. Eight symbols
hold an escape string with a doubled and a backslashed quote, a line break, a
continuation and a row variable after it; six suffice for comments, dollar
quotes and fields. Three process starts let a boot fail, a second take over and
a third of another binary come after it, or two run at once and one restart. An
interval of 2 under a clock of 4 instants has partitions expire, be required
anew and be met half-way by a horizon that ends inside one; the starting worlds
are empty, on the grid and off it. Two tables and two steps of interference
are a rename with an edit that follows it, a drop with a recreation, or a hand
made trigger with a change of its mark, each before, during or between runs;
the five configurations differ in table, enablement, specification and number
of operations. Versions 0 to 3 put the ledger behind, at and ahead of the binary.

Symmetry is used for workers, replicas and events that nothing tells apart, only
in runs without liveness properties. Deadlock is not checked: with every event
settled, every bound used up and the processes down or idle the system may
rest, and a bounded model must.

### Fairness

`FairSpec` of `DeliveryWorker` and `WFairSpec` assume weak fairness of goroutines
(Go's scheduler runs what can run), of requests and database calls (each ends by
its timeout, its answer or an error), of timers, of the server clock passing an
instant, and of a supervisor that starts the process again. Signals, faults,
operators and producers owe nothing. `WFairSpec` adds strong fairness of `Tick`,
because Go's select chooses among ready cases at random and so cannot pass over
the ticker for ever, and of `ListenerStops`, because a cancelled context fails
the next call to the server and only notifications already received can come
first.

`SchemaBoot!FairSpec`: a statement sent is answered, and a command whose boot
was refused returns and ends its process (the boot's error ends `run`, `apply`
and the rest). Nothing restarts a process and nothing obliges a ready one to end.
`Reconcile!FairSpec`: a run that started takes its steps (every one is a
statement, a poll with a limit or a return, and a command that returns closes its
pool), and the server ends the session of a client that is gone.
`Serving!Fairness`: every call of the process is bounded, a probe's by its own
limit, a scrape's by 500 ms, the drain by `drain_timeout`; nothing is assumed of
the database. The server sets no read or write timeout (`runserver.go:25`), so
clients are assumed to send their request and take the answer: a client that did
neither would hold up a refused process, and a signalled one for five seconds.

## 4. Findings

* `stale_settle`: Ack, Nack and Dead compare status and `leased_by`, not the
  claim. A worker whose lease expired under a slow request, and which then
  claimed the event again itself, settles the new claim with the old request's
  outcome. `source/doc.go` says a late settlement returns `ErrEventNotClaimed`,
  and the comment on `workerIdentity` describes the effect as prevented. The
  at-least-once properties hold all the same, for any number of workers and
  failures (`NothingLostUnsent`, `AtLeastOnceKept`), and without a failure or an
  operator's reset it does not happen (`StaleSettleNeedsFailure`).
* `drain_rows`: the drain of DEFAULT copies a range's queue rows with one
  statement and deletes them with another, and compares only the two counts. One
  row acknowledged and another inserted in between leave the counts equal: the
  new row is deleted without a copy, so its event is never delivered, and the
  acknowledged row is put back, so its event is delivered again. The log itself
  is safe: `OnlyExpiredDataGoes` holds and is proved.
* `reconcile_move`: for a renamed table `classifyManagedPair` answers "rename"
  before it looks at the specification. When one edit follows the rename and
  changes an operation, apply makes no statement for the pair and the registry
  write records the new specification beside the old trigger; this plan and
  every later one call the pair clean.

Other observations, seen while modelling and not stated as runs:

* Two instances that boot one unclaimed schema at once hold different lock keys,
  both find no marker, and both claim it and report ready. The theorems about
  migration order therefore assume one deployment (`OneDeployment`).
* `bootstrap.go:82` gives the lock back under the caller's context; cancelled
  between two statements, the lock stays on the pooled connection until the
  process exits. `WaitingBootEnds` shows that the exit is enough.
* A drain that succeeds can leave rows leased: a batch claimed and not yet
  dispatched is neither tracked nor retained (`drain.go:87`, `:106`), although
  Drain's comment says it releases all events still owned. The rows wait for the
  lease timeout; `EventuallySettled` holds.
* `rundrain.go:16-18`: an error of the server's shutdown skips the worker's
  drain.
* `apply.go:205-207`: one trigger not found ends `registryTriggers` with no rows,
  so the listener's other rows are deleted and its triggers are unproven from
  then on; the next plan repairs what it can prove.
* `objectapply.go:106`: what is dropped is decided again by presence alone when
  the statements run. A trigger put in its place by hand since the plan is
  dropped without proof. `UnownedUntouched` is stated for undisturbed runs.
* A registry row need not record what pg_noty installed: for a rename, and when
  a trigger or function is edited by hand between a plan and its commit, the
  readback taken after the statements stores the edited object as the expected
  one, and no later plan calls it drifted. The proof of `AppliedIsInstalled`
  showed it (within the run's two steps by hand it does not happen), so the
  property is stated for listeners whose row is true (`Truthful`).
* `targetresolve.go:72` asks whether a listener has moved only while its recorded
  OID lives. When its table was dropped and made again under the recorded name,
  and the configuration names another table that exists, apply installs the
  triggers on the table of the recorded name and the next plan refuses. This is
  the one exception `NothingLeftPending` makes (`Strayed`); it takes more steps by
  hand, and one OID more, than the run has.
* `runlock.go:186`: an unlock that fails before its query is sent puts a connection
  that holds the key back into the pool; a library user that kept its pool open
  after the error would keep every later run out. The commands close theirs.
* `run.go:102-105`: a malformed `allowed_destination_cidrs`, which the loader does
  not parse, ends the command after `/readyz` may have answered 200, without
  stopping the server first.
* `refusal.go:33-36`: the remediation of a dropped target is never reached.
* `candidates.go:136-139`: `destroy` refuses when the configuration names an
  operation that was never applied or a listener that is disabled.
* Interpolation reads `${A:-$}{B}` as the default `$` followed by `{B}`, which
  leaves the literal `${B}` in the result, unexpanded.

## 5. Proofs

### The queue

`DeliveryWorkerProofs` first proves, for every set of events, listeners and
workers, every batch size and every bound, that `QSpec` keeps the queue's types
and

* `DeliveredIsRecorded`: a retained event without a row has a success on record;
* `DroppedWasTried`: retention destroys nothing untried;
* `DeadHasReason`: reasons exactly on dead rows;
* `AttemptsAreClaims`: attempts are claims, however often an operator resets the
  event, and the history has one record of an attempt;
* `DeliveredIsFinal` (an action property): what is gone stays gone. No run checks
  it on its own; `KeepsPromise` contains it.

None is inductive alone. The inductive invariant `QInv` adds that every row has
its logged event (the foreign key), that delivering rows name a worker, that
attempt numbers are claims, and that every dead row has an attempt on record:
retention may drop a dead row's event only because dead-lettering recorded the
attempt, and an overwritten record (`ON CONFLICT DO UPDATE`) must not take the
last success of an event away, which holds because only leased rows are settled. One
lemma per action shows that it preserves `QInv`; `QueueInvariant` combines them.
The actions of `EventQueue` are the ones `DeliveryWorker` uses, so the lemmas
apply to the workers' steps as well.

### The workers

`DeliveryWorkerProofs` proves for the whole composition (workers, drains,
crashes, operator, retention, clock) that `Spec` keeps `TypeOK` and
`RemovedOnlyAfterSuccess`: whatever the number of workers, failures and resets,
a row disappears only after a destination answered 2xx. The inductive invariant
`IInv` adds the queue's `QInv` (whose lemmas are reused, because every database
call of a worker is an adapter action) and that a request judged successful has
such an answer in its history: between `deliver` and `Ack` the verdict lives
only in a goroutine. The argument has three parts: a step leaves a well-formed
process and adds no successful verdict (`LegalStep`), or moves one request
(`MoveKeeps`); a table step other than `Ack` leaves every row (`Keeping`); and
`Ack` is reached only with the verdict "success".

`WorkerCustodyProofs` goes on from `IInv` in layers, each of which only the
theorems above it need:

* `CInv`: where a process keeps its claims agrees with its control point
  (`Tidy`), and every claim it remembers was granted: its event was logged, and
  its attempt is one of the claims made of it so far (`AllGranted`).
* `SInv` adds that the places a claim can be in are disjoint (`Apart`), that the
  semaphores count exactly the requests in flight and the one just admitted
  (`Counted`), and that a drain past its wait has no request left (`CutsNone`).
  It gives `SlotsAccounted` and `NoRequestCutOff` for any capacities.
* `LeasesHeld`: while nothing has failed, the holder of a lease has the claim
  that took it, in its batch, its retained batch, a request or a drain. It gives
  `NoForgottenLease`.
* `HInv` is the converse: while nothing has failed, a claim a process holds of an
  event no operator reset stands for a running lease of that process, the last
  one granted, and one claim is in one place only. Two requests for one event
  would make two processes, or one process twice, the holder of one lease; so
  `OneRequestAtATime`. It also says when the comment that `stale_settle` refutes
  holds: until something fails or an operator resets the event, an outcome settles
  only the claim its request was sent under (`StaleSettleNeedsFailure`). Both
  directions fail after a failure, which is why these properties say "while
  nothing has failed".
* `DInv`: a verdict a request carries, and the reason a dead row carries, has its
  cause in the configuration, the event or the answers recorded. It gives
  `DeadHasCause`; the verdict is the link between an answer and the row, which
  outlives resets and late settlements.

Two refinements rest on `CInv`. Every step of a worker, of its surroundings or of
the clock is one operation of the adapter with an attempt number the event was
claimed under, or leaves the tables alone (`Operation`), so `Spec => QSpec`
(`WorkersImplementQueue`), and what holds of `QSpec` holds of the workers
(`WorkersNeverRevive`). And each operation moves the fate of each event as
`AtLeastOnce` allows: `Fates` characterises the refinement mapping by the tables,
one lemma per operation compares it before and after, and `Ack` is the one that
needs `RemovedOnlyAfterSuccess`. The result is `KeepsPromise`
(`AtLeastOnceKept`), the step-by-step implementation of the abstract
specification, for any number of workers, events and failures.

### The wake-up path and the bootstrap

`WakeLoopProofs` proves `NoWakeupLost`, `NeverPanics` and the types of the
wake-up path for any number of events, notifications, closers and failures. The
inductive invariant `WInv` adds that the machine's flag and the armed timer
agree while the loop runs (otherwise a token taken from the channel would arm
nothing), that the channel is closed only after the listener has ended and by
at most one caller, and that the loop stops reading only a closed channel.

`SchemaBootProofs` proves, for any number of replicas, instances, binaries and
starts, that a ready boot serves its own corpus (`ReadyOnOwnCorpus`) and that a
foreign schema is left alone (`ForeignSchemaUntouched`), and for one deployment
that a boot's reading of the ledger holds until it writes (`ReadingStillHolds`)
and that migrations are applied in order (`AppliedInOrder`). The inductive
invariant `BInv` says that whoever is past the lock with an open session holds
it (`HolderKnown`), that what a migrating boot has counted is recorded
(`ReadingRecorded`), that a boot past the migrations has its corpus on record
(`PastMigrations`: rows are never rewritten, so this survives a lost session),
and that a boot past the marker stands on a schema it may use (`MarkerAllowed`). Order needs more: two boots
with one key cannot both be past the lock, so nobody else writes the ledger
between a boot's reading and its writing.

### Partitions

`PartitionUpkeepProofs` proves `OnlyExpiredDataGoes` for any grid, retention,
horizon, number of replicas and events. `UInv` adds that what a retention pass
still has on its list has expired (`PlannedIsExpired`: time only moves on) and,
for the drain, that what it holds is what it took out of the log (`DrainExact`):
the code compares counts only, but between the copy and the removal rows are
only added to DEFAULT's range, so the copied set is contained in the removed
one, and two finite sets of equal size of which one contains the other are
equal. (Queue rows do go away in between, which is the finding `drain_rows`.)

`SettledPassIsCovered` needs `AskedIsAccounted`: each range a pass asked for and
is done with is attached, detached by hand, or past its retention, because a
range once accounted for stays so and a lost race means that another replica
created that very range (`ConcedeAccounts`). `HorizonCountIsTight` is arithmetic
of the grid: the ranges asked for are numbered by consecutive quotients, whose
count `DivSum` bounds by the two divisions `horizonPartitionCount` makes, and the
instant one short of a grid line attains the bound.

`ShortfallIsExact` is about the walk of `CoverageShortfall`: the gauge counts the
instants from the first one that no partition takes up to the horizon, for any
finite catalog, on the grid or off it, with overlapping extents included.
`WalkExists` shows that the recursive function has values. The loop invariant
`WalkInv` says that every instant up to the reach is covered, that what has been
taken ends there or before, and that one partition was taken a turn until the
walk was over; `WalkStep` shows that a turn keeps it, and so after as many turns
as there are partitions the walk is over and its reach is the first gap
(`ReachIsFirstGap`). The induction over the turns takes the least turn at which
the invariant would fail (`SmallestIndex`). `PartsFiniteStep` adds that the
catalog stays finite.

### Reconcile

`ReconcileProofs` proves mutual exclusion of runs (`RunLockExcludes`),
`RemovalIsPermitted` and `UnownedUntouched`, for any listeners, operations,
tables, configurations and interference. `RunsExclusive` is about the runs at
work (`AtWork`): past the acquisition and with a session of their own. A run whose
session was closed under it is not one of them, since the key may be another's
before it has tidied up. `RInv` says that a run at work is the one the server
counts as the holder, that a destructive plan being applied was permitted, and that the plan
of an undisturbed run is still the plan of the database: apart from the
interference `calm` records, only runs write what plans read, and the lock
excludes them, which a late acquisition, a lingering session and the ending of
the wrong session could each break.

`AppliedIsInstalled` and `NothingLeftPending` evaluate the classification for any
configuration. `TInv` types the database and the runs; `PlanCurrent` says the
committed plan is the one the database yields; `KeptOn` and `MadeOn` say what the
statements leave of a pair that is kept or made. For the second, `TouchedIsSettled`
shows that a pair the plan touches reads back as its new row records, and
`SamePlan` that a pair it does not touch is classified as before, so the next
plan has no action. That it is not a refusal either takes the other half: what
the commit touched is marked and recorded as this instance's own
(`TouchedIsAccepted`), what it left is as acceptable as it was to the plan that
committed (`UntouchedIsSame`), and the target of every listener stays the one the
plan resolved (`TargetStays`), but for a strayed one.

### The run command

`ServingProofs` proves `ReadyIsEarned` (a probe past its version check has seen
the expected version during the request, one answered 200 found the latch
discharged, and a discharged latch is never settled again) and `GaugesMoveForward` (at most one scrape observes at a time,
and the queue it reads is at least as new as the gauges) for any number of
probes and scrapes.

### Configuration and delays

`SettingsProofs` proves `AcceptedIsServable` for any documents, merge sources,
environments and bound on the counts. `LInv` is what one stage hands the next:
legible scalars up to the decoder; then a record of each key, with a finding
whenever one could not be read, was not positive or out of range. A comparison of
the last stage is skipped when an operand is in doubt, and the theorem says that
this never lets a document through: where nothing was found before, every operand
is readable and positive (`ResolvedValues`, `ReadableSources`), so every
comparison was made.

It also proves, for durations of any width, `DelayWithinPolicy` and
`LadderIsExact`. The test by division in `multiplyDuration` is exact
(`OverflowTest`), a factor cut off at the largest duration gives the same product
as the power it stands for (`PowerSaturates`), and cutting off twice is cutting
off once (`ClampedOnce`). That powers of two do not decrease is proved by taking
the least exponent at which they would (`SmallestIndex`, from the library's
well-foundedness of the order of the naturals).

### The scanner of WHEN clauses

`ScannerExact` is `ScannerAgreesWithServer` for clauses of any length in any
alphabet, where the run stops at eight symbols. The scanner jumps from token to
token and looks ahead; the lexer reads symbol by symbol and remembers. The proof
in `SettingsProofs` has four parts:

* recursion: a recursive function is a CHOOSE, so that it satisfies its equation is
  itself a theorem. `RecursiveFunction` proves it once, for any step that refers
  to arguments of smaller measure (the functions built on initial segments agree),
  and `GapDef`, `QuotedDef`, `BlockDef`, `BareDef` and `ReadingDef` apply it;
* the scanner's pieces, one symbol at a time: `RunStep`, `LineStep`, `GapStep`,
  `DollarDef`, `BareWordCase` and the rest, each also with the bounds that keep
  the index within the clause;
* the lexer's states: `ReadState` shows that its modes, halves and flags fit
  together (`Shape`) and that what it has found stays found;
* the promise: `Promise(s, V, p, q)` says what the lexer's final answer V must be if
  it stands in state q before symbol p, in terms of the scanner: in code, what the
  scan finds from p on; inside a comment or a literal, what it finds from the end
  of it on; in the middle of a word, a tag or a dollar quote, what it finds from
  where that began. One lemma per mode (`CodeKeeps` to `DollarKeeps`) shows that a
  promise true after a symbol was true before it, `EndKeeps` that it is true at the
  end of the clause, and `Downward`, induction from the end, carries it back to
  the beginning, where the state is the initial one and the promise is the theorem.

Stating the promise of a tag showed what the automaton must do with `$E'`: a dollar
sign that opens nothing is followed by a word, and that word may open an escape
string.

### Assumptions

The assumptions are the named ASSUMEs of the modules, which TLC evaluates on
every run:

* sizes are positive where the configuration's ranges or the code make them so
  (batch size, retry limit, pool, interval), identifiers that stand for "nobody"
  are not workers or runners, partitions are sets of events, and the catalogs a
  deployment starts from are finite;
* `ConfigsAssumption`, `OpsAssumption`, `OidAssumption` (`Reconcile`): listeners
  name a table, a switch and specifications of operations, no operation has the
  empty name, and there is an OID for the first table;
* `DocumentsAssumption` (`Configuration`): a scalar that is a text reads as a
  number or as none, and the built-in concurrency is within the range rule, as it
  is in `builtInDefaults`;
* `PoliciesAssumption` (`RetrySchedule`): a policy's durations are durations, and
  delta-seconds are not negative, which `parseDeltaSeconds` ensures by reading
  digits only;
* `Doubles`, in `BackoffAssumption` and `PoliciesAssumption`: the law
  `2^(n+1) = 2 * 2^n` up to the exponents in use. It is true of every instance; no
  prover here has a theory of powers, so it is named where TLC evaluates it.

Selections by CASE have disjoint guards, or are chains of IF, wherever the code
takes the first that fits: the provers, unlike TLC, take an overlap as a choice.

### Only model-checked

Liveness, which needs fairness and ENABLED and is out of the prover's reach:
`ShutdownCompletes`, `EventuallySettled`, `CloseReturns`, `EventuallyPolled`,
`WaitingBootEnds`, `LockComesFree`, `SnapshotReopens`, `ProcessEnds`.

Every other invariant, action property and refinement of a passing run is a
theorem. Types are proved rather than run as properties.

## 6. Not modelled

* The text of SQL, YAML, metrics, diagnostics and logs; positions, suggestions
  and the redaction of secrets; reading partition bounds as text.
* Transport, signing, envelope and address filter: formatting, cryptography and
  network I/O. The worker sees an answer, an error or a request that cannot be
  built. An HTTP-date in Retry-After.
* Command-line flags, rendering, `status`, `events list`, grants: they read and
  print.
* Of reconcile's deferred checks all but the existence of the table: columns,
  primary keys and the trial of WHEN clauses on the server.
* The loop of `events retry` over batches: one batch is an action; the loop ends
  when the workers stop refilling the selected status, which nobody guarantees.
* The reconnect branch of the wake loop, which the command never enables.
* Durations of leases and holds (the order of their ends is arbitrary instead).
* PostgreSQL's row and table locks beyond what the actions' atomicity and
  `Unlocked` say; a lock timeout is one of the ways an apply rolls back.

## 7. Plan

Done: queue, worker, policy, wake-up path, schema bootstrap, partition upkeep,
reconcile, the run command around them, and the configuration. Next:

1. `EventsRetry`: the batch loop beside workers; a timed model of lease, hold
   limit and poll interval.
2. Two instances over one unclaimed schema as a run of `SchemaBoot`, with the
   comment on `lockKey` as the property it refutes.
3. Several listeners on one table in `Reconcile`, with the order of their locks.
