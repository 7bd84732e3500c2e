------------------------------ MODULE Serving ------------------------------
(* The `run` process around the delivery worker (internal/cli/run.go and   *)
(* the files it calls): the HTTP server is bound and serving before the    *)
(* startup obligation is met, the obligation is met by verifying the       *)
(* database or by changing it, the latch records which way it went, and a  *)
(* signal or a refusal stops the server before the process ends.           *)
(*                                                                         *)
(* Requests run beside all of that.  A readiness probe checks three        *)
(* conditions at three moments, while other replicas move the schema; the  *)
(* metric scrapes share one observation of the queue between them.         *)
EXTENDS Naturals

CONSTANTS
    Probes,         \* concurrent requests to /readyz
    Scrapers,       \* concurrent requests to /metrics
    Expected,       \* the schema version this binary embeds
    Newest,         \* the version the newest replica embeds
    MaxMoves        \* how often the database's queue changes

ASSUME VersionsAssumption == Expected \in Nat \ {0} /\ Newest \in Nat /\ Expected <= Newest
ASSUME MovesAssumption == MaxMoves \in Nat

VARIABLES
    reachable,  \* whether the database answers
    ledger,     \* the version its ledger records; 0 is no ledger
    matches,    \* whether a plan against it would be clean
    queue,      \* how often the queue has changed
    mayMutate,  \* what reconcileChoice decided for this process
    phase,      \* where buildRun's RunE stands
    latch,      \* the reconcileLatch
    signalled,  \* whether the command's context has been cancelled
    listening,  \* whether the server still accepts requests
    probes,     \* where each request to /readyz stands
    witnessed,  \* the versions the ledger has had since each probe arrived
    scrapes,    \* where each request to /metrics stands
    snapshot,   \* the metricsSnapshot
    gauge       \* the queue state the metrics show

databaseVars == <<reachable, ledger, matches, queue>>
runVars      == <<mayMutate, phase, latch, signalled, listening>>
probeVars    == <<probes, witnessed>>
scrapeVars   == <<scrapes, snapshot, gauge>>
vars         == <<databaseVars, runVars, probeVars, scrapeVars>>

Phases == {"starting", "planning", "applying", "refusing", "discharged",
           "serving", "stopping", "draining", "exited"}
Idle   == [at |-> "idle", read |-> 0]

TypeOK ==
    /\ reachable \in BOOLEAN /\ ledger \in 0..Newest
    /\ matches \in BOOLEAN   /\ queue \in 0..MaxMoves
    /\ mayMutate \in BOOLEAN /\ phase \in Phases
    /\ latch \in {"pending", "discharged", "failed"}
    /\ signalled \in BOOLEAN /\ listening \in BOOLEAN
    /\ probes \in [Probes -> {"idle", "reachable", "version", "latch", "ready", "unavailable"}]
    /\ witnessed \in [Probes -> SUBSET (0..Newest)]
    /\ scrapes \in [Scrapers -> [at : {"idle", "waiting", "observing", "read", "released"},
                                 read : 0..MaxMoves]]
    /\ snapshot \in [fresh : BOOLEAN, loading : BOOLEAN]
    /\ gauge \in 0..MaxMoves

(* The server is bound and serving when startRun is called; what the       *)
(* database holds by then is anything a deployment may have left there.    *)
Init ==
    /\ reachable = TRUE /\ ledger \in 0..Newest /\ matches \in BOOLEAN /\ queue = 0
    /\ mayMutate \in BOOLEAN
    /\ phase = "starting" /\ latch = "pending" /\ signalled = FALSE /\ listening = TRUE
    /\ probes = [p \in Probes |-> "idle"] /\ witnessed = [p \in Probes |-> {}]
    /\ scrapes = [s \in Scrapers |-> Idle]
    /\ snapshot = [fresh |-> FALSE, loading |-> FALSE] /\ gauge = 0

----------------------------------------------------------------------------
(* The database, as other replicas, operators and the network move it      *)
(* while the process lives.                                                *)

witnessing(version) ==
    witnessed' = [p \in Probes |-> IF probes[p] = "idle" THEN {} ELSE witnessed[p] \union {version}]

(* Another replica's bootstrap raises the ledger; a hand drops the schema. *)
LedgerMoves ==
    /\ phase # "exited"
    /\ ledger' \in (ledger + 1)..Newest \union {0}
    /\ witnessing(ledger')
    /\ UNCHANGED <<reachable, matches, queue, runVars, probes, scrapeVars>>

(* What a plan would say is read by startup's plan and by nothing later.   *)
OthersChange ==
    /\ phase # "exited"
    /\ \/ reachable' = ~reachable /\ UNCHANGED <<matches, queue>>
       \/ phase \in {"starting", "planning"} /\ matches' = ~matches /\ UNCHANGED <<reachable, queue>>
       \/ queue < MaxMoves /\ queue' = queue + 1 /\ UNCHANGED <<reachable, matches>>
    /\ UNCHANGED <<ledger, runVars, probeVars, scrapeVars>>

----------------------------------------------------------------------------
(* Startup.  refuseStartup: the latch records the failure and the server   *)
(* bound before it stops accepting.                                        *)

current(version) == version = Expected

refuseStartup ==
    /\ latch' = "failed" /\ phase' = "refusing" /\ listening' = FALSE
    /\ UNCHANGED <<databaseVars, mayMutate, signalled, probeVars, scrapeVars>>

discharge ==
    /\ latch' = "discharged" /\ phase' = "discharged"
    /\ UNCHANGED <<mayMutate, signalled, listening, probeVars, scrapeVars>>

(* Any of startup's calls may fail: the database does not answer, or the   *)
(* context they were given is cancelled.                                   *)
StartupFails ==
    /\ phase \in {"starting", "planning", "applying"}
    /\ ~reachable \/ signalled
    /\ refuseStartup

(* verifyRun: the schema is read before the plan, and each refuses alone.  *)
VerifySchema ==
    /\ phase = "starting" /\ ~mayMutate /\ reachable
    /\ \/ /\ current(ledger) /\ phase' = "planning"
          /\ UNCHANGED <<databaseVars, mayMutate, latch, signalled, listening, probeVars, scrapeVars>>
       \/ ~current(ledger) /\ refuseStartup

VerifyPlan ==
    /\ phase = "planning" /\ reachable
    /\ \/ matches /\ discharge /\ UNCHANGED databaseVars
       \/ ~matches /\ refuseStartup

(* startRun with leave to change the database: Bootstrap brings a ledger   *)
(* that is behind to this binary's version and refuses one that is ahead.  *)
BootstrapSchema ==
    /\ phase = "starting" /\ mayMutate /\ reachable
    /\ \/ /\ ledger <= Expected
          /\ phase' = "applying" /\ ledger' = Expected /\ witnessing(Expected)
          /\ UNCHANGED <<reachable, matches, queue, mayMutate, latch, signalled, listening,
                         probes, scrapeVars>>
       \/ ledger > Expected /\ refuseStartup

(* Apply: a clean verdict discharges the obligation, any other refuses.    *)
ApplyAtStartup ==
    /\ phase = "applying" /\ reachable
    /\ \/ matches' = TRUE /\ discharge /\ UNCHANGED <<reachable, ledger, queue>>
       \/ refuseStartup

----------------------------------------------------------------------------
(* The end of the process.                                                 *)

Signal ==
    /\ ~signalled /\ phase # "exited" /\ signalled' = TRUE
    /\ UNCHANGED <<databaseVars, mayMutate, phase, latch, listening, probeVars, scrapeVars>>

requestsEnded == (\A p \in Probes : probes[p] = "idle")
                 /\ (\A s \in Scrapers : scrapes[s].at = "idle")

exits ==
    /\ phase' = "exited" /\ listening' = FALSE
    /\ probes' = [p \in Probes |-> "idle"] /\ witnessed' = [p \in Probes |-> {}]
    /\ scrapes' = [s \in Scrapers |-> Idle]
    /\ UNCHANGED <<databaseVars, mayMutate, latch, signalled, snapshot, gauge>>

(* The worker is built once the obligation is discharged. The loader does  *)
(* not parse allowed_destination_cidrs: a malformed range ends the command *)
(* here, with the server still accepting and the latch discharged.         *)
startWorker ==
    /\ phase = "discharged"
    /\ \/ /\ phase' = "serving"
          /\ UNCHANGED <<databaseVars, mayMutate, latch, signalled, listening, probeVars, scrapeVars>>
       \/ exits

(* stopRunServer: under a context nothing cancels, the server waits for    *)
(* every request it has accepted before the refused command returns.       *)
RefusalReturns == phase = "refusing" /\ requestsEnded /\ exits

(* drainAndReport: the server first, five seconds at most.  When a request *)
(* outlasts them the shutdown's error is returned in place of the drain.   *)
StopServer ==
    /\ phase = "serving" /\ signalled
    /\ phase' = "stopping" /\ listening' = FALSE
    /\ UNCHANGED <<databaseVars, mayMutate, latch, signalled, probeVars, scrapeVars>>

ServerStopped ==
    /\ phase = "stopping" /\ requestsEnded /\ phase' = "draining"
    /\ UNCHANGED <<databaseVars, mayMutate, latch, signalled, listening, probeVars, scrapeVars>>

ShutdownTimesOut == phase = "stopping" /\ ~requestsEnded /\ exits

(* Worker.Drain, bounded by drain_timeout: module DeliveryWorker.          *)
DrainReturns == phase = "draining" /\ exits

----------------------------------------------------------------------------
(* /readyz: three conditions in order, each a read at its own moment and   *)
(* under its own one-second limit.                                         *)

probeTo(p, at) ==
    /\ probes' = [probes EXCEPT ![p] = at]
    /\ UNCHANGED <<databaseVars, runVars, witnessed, scrapeVars>>

ProbeArrives(p) ==
    /\ listening /\ probes[p] = "idle"
    /\ probes' = [probes EXCEPT ![p] = "reachable"]
    /\ witnessed' = [witnessed EXCEPT ![p] = {ledger}]
    /\ UNCHANGED <<databaseVars, runVars, scrapeVars>>

\* Faulty variant: the ping has no limit of its own.
CheckReachableUnlimited(p) ==
    /\ probes[p] = "reachable" /\ reachable
    /\ probeTo(p, "version")

(* A database that does not answer holds the ping until its limit.         *)
CheckReachable(p) ==
    /\ probes[p] = "reachable"
    /\ probeTo(p, IF reachable THEN "version" ELSE "unavailable")

\* Faulty variant: any ledger that records something will do.
schemaVersionIsCurrentOfAnyLedger == ledger # 0

schemaVersionIsCurrent == current(ledger)

CheckVersion(p) ==
    /\ probes[p] = "version"
    /\ probeTo(p, IF reachable /\ schemaVersionIsCurrent THEN "latch" ELSE "unavailable")

CheckLatch(p) ==
    /\ probes[p] = "latch"
    /\ probeTo(p, IF latch = "discharged" THEN "ready" ELSE "unavailable")

ProbeEnds(p) ==
    /\ probes[p] \in {"ready", "unavailable"}
    /\ probes' = [probes EXCEPT ![p] = "idle"] /\ witnessed' = [witnessed EXCEPT ![p] = {}]
    /\ UNCHANGED <<databaseVars, runVars, scrapeVars>>

----------------------------------------------------------------------------
(* /metrics: metricsSnapshot.refresh.  Under the mutex a scrape finds a    *)
(* fresh observation, or one being made and waits for its channel to       *)
(* close, or makes one itself with the mutex released.                     *)

elsewhereUnchanged == UNCHANGED <<databaseVars, runVars, probeVars>>

\* Faulty variant: a scrape observes beside another's observation.
RefreshUnshared(s) ==
    /\ listening /\ scrapes[s].at = "idle" /\ ~snapshot.fresh
    /\ scrapes' = [scrapes EXCEPT ![s].at = "observing"]
    /\ snapshot' = [snapshot EXCEPT !.loading = TRUE]
    /\ UNCHANGED gauge /\ elsewhereUnchanged

Refresh(s) ==
    /\ listening /\ scrapes[s].at = "idle" /\ ~snapshot.fresh
    /\ IF snapshot.loading
       THEN scrapes' = [scrapes EXCEPT ![s].at = "waiting"] /\ UNCHANGED snapshot
       ELSE /\ scrapes' = [scrapes EXCEPT ![s].at = "observing"]
            /\ snapshot' = [snapshot EXCEPT !.loading = TRUE]
    /\ UNCHANGED gauge /\ elsewhereUnchanged

(* observe: the queue is read at one moment, and the answer travels back.  *)
ObserveQueue(s) ==
    /\ scrapes[s].at = "observing" /\ reachable
    /\ scrapes' = [scrapes EXCEPT ![s] = [at |-> "read", read |-> queue]]
    /\ UNCHANGED <<snapshot, gauge>> /\ elsewhereUnchanged

(* Under the mutex again: closing the channel releases every waiter, and   *)
(* a failed observation counts as one for the time to live as well.        *)
releasing(s) == [t \in Scrapers |->
    CASE t = s -> Idle
      [] t # s /\ scrapes[t].at = "waiting" -> [scrapes[t] EXCEPT !.at = "released"]
      [] OTHER -> scrapes[t]]

Observed(s) ==
    /\ scrapes[s].at = "read"
    /\ gauge' = scrapes[s].read
    /\ scrapes' = releasing(s)
    /\ snapshot' = [fresh |-> TRUE, loading |-> FALSE]
    /\ elsewhereUnchanged

\* Faulty variant: an error returns before the snapshot is given back.
ObservationFailsEarly(s) ==
    /\ scrapes[s].at \in {"observing", "read"}
    /\ scrapes' = [scrapes EXCEPT ![s] = Idle]
    /\ UNCHANGED <<snapshot, gauge>> /\ elsewhereUnchanged

(* The observation runs under the context of the scrape that makes it: a   *)
(* client that hangs up, or 500 ms, fails it for the ones that wait. It    *)
(* may fail on the partitions after the queue was read.                    *)
ObservationFails(s) ==
    /\ scrapes[s].at \in {"observing", "read"}
    /\ scrapes' = releasing(s)
    /\ snapshot' = [fresh |-> TRUE, loading |-> FALSE]
    /\ UNCHANGED gauge /\ elsewhereUnchanged

(* A waiter returns when the channel closes, or at its own limit.          *)
WaitEnds(s) ==
    /\ scrapes[s].at \in {"waiting", "released"}
    /\ scrapes' = [scrapes EXCEPT ![s] = Idle]
    /\ UNCHANGED <<snapshot, gauge>> /\ elsewhereUnchanged

TtlPasses ==
    /\ snapshot.fresh /\ phase # "exited"
    /\ snapshot' = [snapshot EXCEPT !.fresh = FALSE]
    /\ UNCHANGED <<scrapes, gauge>> /\ elsewhereUnchanged

----------------------------------------------------------------------------
Startup  == StartupFails \/ VerifySchema \/ VerifyPlan \/ BootstrapSchema \/ ApplyAtStartup
Stopping == RefusalReturns \/ StopServer \/ ServerStopped \/ ShutdownTimesOut \/ DrainReturns
ProbeStep(p)  == CheckReachable(p) \/ CheckVersion(p) \/ CheckLatch(p) \/ ProbeEnds(p)
ScrapeStep(s) == ObserveQueue(s) \/ Observed(s) \/ ObservationFails(s) \/ WaitEnds(s)

Next ==
    \/ LedgerMoves \/ OthersChange
    \/ Startup \/ startWorker \/ Signal \/ Stopping
    \/ \E p \in Probes : ProbeArrives(p) \/ ProbeStep(p)
    \/ \E s \in Scrapers : Refresh(s) \/ ScrapeStep(s)
    \/ TtlPasses

(* Every call of the process ends: startup's and the probes' by an answer  *)
(* or a limit, a scrape's within 500 ms, the drain within drain_timeout.   *)
(* Nothing is assumed of the database, nor of how many clients arrive; but *)
(* the server sets no read or write timeout, so a request ends only if its *)
(* client sends it whole and takes the answer, which is assumed here.      *)
Fairness ==
    /\ WF_vars(Startup) /\ WF_vars(startWorker) /\ WF_vars(Stopping)
    /\ \A p \in Probes : WF_vars(ProbeStep(p))
    /\ \A s \in Scrapers : WF_vars(ScrapeStep(s))

Spec == Init /\ [][Next]_vars /\ Fairness

----------------------------------------------------------------------------
(* /readyz answers 200 only when startup's obligation was discharged and   *)
(* the ledger recorded this binary's own version at some moment of that    *)
(* very request (README, "`/readyz` checks database reachability, schema   *)
(* version and the startup reconcile"): a schema another replica migrated  *)
(* ahead, or one still behind, is never reported ready.                    *)
ReadyIsEarned ==
    \A p \in Probes :
        probes[p] = "ready" => latch = "discharged" /\ Expected \in witnessed[p]

(* The metrics never step back to an older state of the queue: scrapes     *)
(* share one observation at a time, so two that were made at once cannot   *)
(* be applied in the wrong order (metricsSnapshot.refresh).                *)
GaugesMoveForward == [][gauge' >= gauge]_vars

(* The shared observation always ends: one that fails or whose client has  *)
(* gone does not leave the snapshot loading for good, which would turn     *)
(* every later scrape into a wait for a channel nobody closes.             *)
SnapshotReopens == snapshot.loading ~> ~snapshot.loading \/ phase = "exited"

(* A refused startup and a signalled process both end, although the server *)
(* is first made to wait for its requests and, after a refusal, without a  *)
(* limit of its own (stopRunServer): each request has limits of its own on *)
(* what it asks of the database.                                           *)
ProcessEnds == (phase = "refusing" \/ signalled) ~> phase = "exited"

============================================================================
