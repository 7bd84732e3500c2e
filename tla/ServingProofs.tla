---------------------------- MODULE ServingProofs ----------------------------
(***************************************************************************)
(* The `run` process around the worker, for any number of probes, scrapers *)
(* and versions: /readyz answers 200 only when startup's obligation was    *)
(* discharged and the version was this binary's during that very request,  *)
(* and the queue metrics never step back.                                  *)
(***************************************************************************)
EXTENDS Serving, TLAPS

----------------------------------------------------------------------------
(* Readiness.                                                              *)

\* A probe past the version check saw this binary's version; one that is
\* answered 200 also found the latch discharged.
ProbesEarn ==
    \A p \in Probes :
        /\ probes[p] \in {"latch", "ready"} => Expected \in witnessed[p]
        /\ probes[p] = "ready" => latch = "discharged"
        /\ probes[p] # "idle" => ledger \in witnessed[p]

\* Nothing that could still refuse startup runs once the latch is discharged.
DischargedIsPast == latch = "discharged" => phase \notin {"starting", "planning", "applying"}

\* The inductive invariant of the probes.
ReadyInv ==
    /\ probes \in [Probes -> {"idle", "reachable", "version", "latch", "ready", "unavailable"}]
    /\ witnessed \in [Probes -> SUBSET (0..Newest)]
    /\ ledger \in 0..Newest
    /\ ProbesEarn
    /\ DischargedIsPast

\* No request has arrived when the process starts.
LEMMA ReadyInvInit == Init => ReadyInv
  BY DEF Init, ReadyInv, ProbesEarn, DischargedIsPast

\* What another replica does to the ledger is witnessed by every probe on its way.
LEMMA LedgerSeen ==
  ASSUME ReadyInv, NEW v \in 0..Newest, ledger' = v, witnessing(v),
         UNCHANGED <<probes, latch>>, DischargedIsPast'
  PROVE  ReadyInv'
  BY DEF ReadyInv, ProbesEarn, witnessing

\* A step that leaves the probes and the ledger alone.
LEMMA ProbesUntouched ==
  ASSUME ReadyInv, UNCHANGED <<probes, witnessed, ledger>>,
         DischargedIsPast', latch = "discharged" => latch' = "discharged"
  PROVE  ReadyInv'
  BY DEF ReadyInv, ProbesEarn

\* Startup settles the latch while no probe can have been told it is discharged.
LEMMA StartupReady ==
  ASSUME ReadyInv, Startup
  PROVE  ReadyInv'
  <1>0. phase \in {"starting", "planning", "applying"} /\ latch # "discharged"
    BY DEF Startup, StartupFails, VerifySchema, VerifyPlan, BootstrapSchema, ApplyAtStartup,
           ReadyInv, DischargedIsPast
  <1>1. ASSUME refuseStartup PROVE ReadyInv'
    <2>1. DischargedIsPast' /\ UNCHANGED <<probes, witnessed, ledger>>
      BY <1>1 DEF refuseStartup, DischargedIsPast, databaseVars, probeVars
    <2> QED
      BY <1>0, <2>1, ProbesUntouched
  <1>2. ASSUME discharge, UNCHANGED ledger PROVE ReadyInv'
    <2>1. DischargedIsPast' /\ UNCHANGED <<probes, witnessed>>
      BY <1>2 DEF discharge, DischargedIsPast, probeVars
    <2> QED
      BY <1>0, <1>2, <2>1, ProbesUntouched
  <1>3. CASE StartupFails
    BY <1>1, <1>3 DEF StartupFails
  <1>4. CASE VerifySchema
    <2>1. CASE UNCHANGED <<databaseVars, mayMutate, latch, signalled, listening, probeVars, scrapeVars>>
      <3>1. UNCHANGED <<probes, witnessed, ledger, latch>>
        BY <2>1 DEF databaseVars, probeVars
      <3> QED
        BY <1>0, <3>1, ProbesUntouched DEF DischargedIsPast
    <2> QED
      BY <1>1, <1>4, <2>1 DEF VerifySchema
  <1>5. CASE VerifyPlan
    BY <1>1, <1>2, <1>5 DEF VerifyPlan, databaseVars
  <1>6. CASE BootstrapSchema
    <2>1. CASE /\ ledger' = Expected /\ witnessing(Expected)
               /\ UNCHANGED <<reachable, matches, queue, mayMutate, latch, signalled, listening,
                              probes, scrapeVars>>
      <3>1. DischargedIsPast' /\ UNCHANGED <<probes, latch>>
        BY <1>0, <2>1 DEF DischargedIsPast
      <3>2. Expected \in 0..Newest
        BY VersionsAssumption
      <3> QED
        BY <2>1, <3>1, <3>2, LedgerSeen
    <2> QED
      BY <1>1, <1>6, <2>1 DEF BootstrapSchema
  <1>7. CASE ApplyAtStartup
    BY <1>1, <1>2, <1>7 DEF ApplyAtStartup
  <1> QED
    BY <1>3, <1>4, <1>5, <1>6, <1>7 DEF Startup

\* The end of the process clears every request, or leaves all of them alone.
LEMMA StoppingReady ==
  ASSUME ReadyInv, startWorker \/ Stopping
  PROVE  ReadyInv'
  <1>1. ASSUME exits PROVE ReadyInv'
    <2>1. /\ probes' = [p \in Probes |-> "idle"] /\ witnessed' = [p \in Probes |-> {}]
          /\ ledger' = ledger /\ phase' = "exited"
      BY <1>1 DEF exits, databaseVars
    <2> QED
      BY <2>1 DEF ReadyInv, ProbesEarn, DischargedIsPast
  <1>2. CASE StopServer \/ ServerStopped \/ (startWorker /\ ~exits)
    <2>1. /\ UNCHANGED <<probes, witnessed, ledger, latch>>
          /\ phase' \in {"serving", "stopping", "draining"}
      BY <1>2 DEF StopServer, ServerStopped, startWorker, databaseVars, probeVars
    <2> QED
      BY <2>1, ProbesUntouched DEF DischargedIsPast
  <1> QED
    BY <1>1, <1>2 DEF Stopping, RefusalReturns, ShutdownTimesOut, DrainReturns

\* A probe moves on only past a check it passed.
LEMMA ProbeReady ==
  ASSUME ReadyInv, NEW p \in Probes, ProbeArrives(p) \/ ProbeStep(p)
  PROVE  ReadyInv'
  <1>0. UNCHANGED <<ledger, latch, phase>>
    BY DEF ProbeArrives, ProbeStep, CheckReachable, CheckVersion, CheckLatch, ProbeEnds,
           probeTo, databaseVars, runVars
  <1>1. DischargedIsPast'
    BY <1>0 DEF ReadyInv, DischargedIsPast
  <1>2. CASE ProbeArrives(p)
    BY <1>0, <1>1, <1>2 DEF ProbeArrives, ReadyInv, ProbesEarn
  <1>3. CASE ProbeEnds(p)
    BY <1>0, <1>1, <1>3 DEF ProbeEnds, ReadyInv, ProbesEarn
  <1>4. CASE CheckReachable(p)
    BY <1>0, <1>1, <1>4 DEF CheckReachable, probeTo, ReadyInv, ProbesEarn
  <1>5. CASE CheckVersion(p)
    BY <1>0, <1>1, <1>5 DEF CheckVersion, schemaVersionIsCurrent, current, probeTo,
                             ReadyInv, ProbesEarn
  <1>6. CASE CheckLatch(p)
    BY <1>0, <1>1, <1>6 DEF CheckLatch, probeTo, ReadyInv, ProbesEarn
  <1> QED
    BY <1>2, <1>3, <1>4, <1>5, <1>6 DEF ProbeStep

\* Every step preserves the invariant of the probes.
LEMMA ReadyInvStep == ReadyInv /\ [Next]_vars => ReadyInv'
  <1> SUFFICES ASSUME ReadyInv, [Next]_vars PROVE ReadyInv'
    OBVIOUS
  <1>1. CASE LedgerMoves
    <2>1. ledger' \in 0..Newest /\ witnessing(ledger') /\ UNCHANGED <<probes, latch, phase>>
      BY <1>1, VersionsAssumption DEF LedgerMoves, ReadyInv, runVars
    <2>2. DischargedIsPast'
      BY <2>1 DEF ReadyInv, DischargedIsPast
    <2> QED
      BY <2>1, <2>2, LedgerSeen
  <1>2. CASE \/ OthersChange \/ Signal \/ TtlPasses
             \/ \E s \in Scrapers : Refresh(s) \/ ScrapeStep(s)
             \/ UNCHANGED vars
    <2>1. UNCHANGED <<probes, witnessed, ledger, latch, phase>>
      BY <1>2 DEF OthersChange, Signal, TtlPasses, Refresh, ScrapeStep, ObserveQueue, Observed,
                  ObservationFails, WaitEnds, elsewhereUnchanged, vars, databaseVars, runVars,
                  probeVars
    <2>2. DischargedIsPast'
      BY <2>1 DEF ReadyInv, DischargedIsPast
    <2> QED
      BY <2>1, <2>2, ProbesUntouched
  <1> QED
    BY <1>1, <1>2, StartupReady, StoppingReady, ProbeReady DEF Next

\* /readyz answers 200 only with the obligation discharged and this binary's
\* version recorded at some moment of that very request, whatever other
\* replicas do to the ledger meanwhile (runready.go).
THEOREM ReadinessEarned == Spec => []ReadyIsEarned
  <1>1. ReadyInv => ReadyIsEarned
    BY DEF ReadyInv, ProbesEarn, ReadyIsEarned
  <1> QED
    BY <1>1, ReadyInvInit, ReadyInvStep, PTL DEF Spec

----------------------------------------------------------------------------
(* Metrics.                                                                *)

Observing(s) == scrapes[s].at \in {"observing", "read"}

ScrapeTypes ==
    /\ scrapes \in [Scrapers -> [at : {"idle", "waiting", "observing", "read", "released"},
                                 read : 0..MaxMoves]]
    /\ snapshot \in [fresh : BOOLEAN, loading : BOOLEAN]
    /\ gauge \in 0..MaxMoves
    /\ queue \in 0..MaxMoves

\* One observation at a time, while the snapshot is loading.
OneObserver ==
    /\ \A s \in Scrapers : Observing(s) => snapshot.loading
    /\ \A s, t \in Scrapers : Observing(s) /\ Observing(t) => s = t

\* What is shown is not newer than what was read, nor that than the queue.
ReadInOrder ==
    /\ gauge <= queue
    /\ \A s \in Scrapers : scrapes[s].at = "read" =>
          gauge <= scrapes[s].read /\ scrapes[s].read <= queue

\* The inductive invariant of the scrapes.
GaugeInv == ScrapeTypes /\ OneObserver /\ ReadInOrder

\* No scrape has arrived when the process starts.
LEMMA GaugeInvInit == Init => GaugeInv
  BY MovesAssumption DEF Init, GaugeInv, ScrapeTypes, OneObserver, ReadInOrder, Observing, Idle

\* Steps of everything else leave the metrics alone; the queue only moves on.
LEMMA ScrapesUntouched ==
  ASSUME GaugeInv, UNCHANGED scrapeVars, queue' \in 0..MaxMoves, queue <= queue'
  PROVE  GaugeInv'
  BY DEF GaugeInv, ScrapeTypes, OneObserver, ReadInOrder, Observing, scrapeVars

\* The end of the process ends every scrape.
LEMMA ExitGauge ==
  ASSUME GaugeInv, exits
  PROVE  GaugeInv'
  BY MovesAssumption
     DEF exits, databaseVars, GaugeInv, ScrapeTypes, OneObserver, ReadInOrder, Observing, Idle

\* The step that ends an observation releases the waiters and leaves no
\* other observer behind.
LEMMA Released ==
  ASSUME GaugeInv, NEW s \in Scrapers, Observing(s), scrapes' = releasing(s)
  PROVE  /\ scrapes' \in [Scrapers -> [at : {"idle", "waiting", "observing", "read", "released"},
                                       read : 0..MaxMoves]]
         /\ \A t \in Scrapers : ~Observing(t)'
  <1>1. \A t \in Scrapers :
            /\ t = s => releasing(s)[t] = Idle
            /\ t # s /\ scrapes[t].at = "waiting" =>
                  releasing(s)[t] = [scrapes[t] EXCEPT !.at = "released"]
            /\ t # s /\ scrapes[t].at # "waiting" => releasing(s)[t] = scrapes[t]
    BY DEF releasing
  <1>2. \A t \in Scrapers : t # s => ~Observing(t)
    BY DEF GaugeInv, OneObserver
  <1>3. \A t \in Scrapers : releasing(s)[t] \in
            [at : {"idle", "waiting", "observing", "read", "released"}, read : 0..MaxMoves]
    <2> TAKE t \in Scrapers
    <2>1. scrapes[t] \in
            [at : {"idle", "waiting", "observing", "read", "released"}, read : 0..MaxMoves]
      BY DEF GaugeInv, ScrapeTypes
    <2>2. CASE t = s
      <3>1. releasing(s)[t] = Idle
        BY <1>1, <2>2
      <3>2. Idle \in
              [at : {"idle", "waiting", "observing", "read", "released"}, read : 0..MaxMoves]
        BY MovesAssumption DEF Idle
      <3> QED
        BY <3>1, <3>2
    <2>3. CASE t # s /\ scrapes[t].at = "waiting"
      BY <1>1, <2>1, <2>3
    <2>4. CASE t # s /\ scrapes[t].at # "waiting"
      BY <1>1, <2>1, <2>4
    <2> QED
      BY <2>2, <2>3, <2>4
  <1>4. scrapes' \in [Scrapers -> [at : {"idle", "waiting", "observing", "read", "released"},
                                   read : 0..MaxMoves]]
    BY <1>3 DEF releasing
  <1>5. \A t \in Scrapers : ~Observing(t)'
    <2> TAKE t \in Scrapers
    <2>1. CASE t = s
      <3>1. scrapes'[t] = Idle
        BY <1>1, <2>1
      <3> QED
        BY <3>1 DEF Observing, Idle
    <2>2. CASE t # s /\ scrapes[t].at = "waiting"
      BY <1>1, <2>2 DEF Observing, GaugeInv, ScrapeTypes
    <2>3. CASE t # s /\ scrapes[t].at # "waiting"
      BY <1>1, <1>2, <2>3 DEF Observing
    <2> QED
      BY <2>1, <2>2, <2>3
  <1> QED
    BY <1>4, <1>5

\* A scrape's own steps.
LEMMA ScrapeGauge ==
  ASSUME GaugeInv, NEW s \in Scrapers, Refresh(s) \/ ScrapeStep(s)
  PROVE  GaugeInv' /\ gauge' >= gauge
  <1>0. queue' = queue
    BY DEF Refresh, ScrapeStep, ObserveQueue, Observed, ObservationFails, WaitEnds,
           elsewhereUnchanged, databaseVars
  <1>1. CASE Refresh(s)
    <2>1. gauge' = gauge
      BY <1>1 DEF Refresh
    <2>2. CASE snapshot.loading
      BY <1>0, <1>1, <2>1, <2>2
         DEF Refresh, GaugeInv, ScrapeTypes, OneObserver, ReadInOrder, Observing
    <2>3. CASE ~snapshot.loading
      <3>1. /\ scrapes' = [scrapes EXCEPT ![s].at = "observing"]
            /\ snapshot' = [snapshot EXCEPT !.loading = TRUE]
        BY <1>1, <2>3 DEF Refresh
      <3>2. \A t \in Scrapers : ~Observing(t)
        BY <2>3 DEF GaugeInv, OneObserver
      <3>3. ScrapeTypes'
        BY <1>0, <2>1, <3>1 DEF GaugeInv, ScrapeTypes
      <3>4. OneObserver'
        BY <3>1, <3>2 DEF GaugeInv, ScrapeTypes, OneObserver, Observing
      <3>5. ReadInOrder'
        BY <1>0, <2>1, <3>1 DEF GaugeInv, ScrapeTypes, ReadInOrder
      <3> QED
        BY <2>1, <3>3, <3>4, <3>5 DEF GaugeInv, ScrapeTypes
    <2> QED
      BY <2>2, <2>3
  <1>2. CASE ObserveQueue(s)
    BY <1>0, <1>2 DEF ObserveQueue, GaugeInv, ScrapeTypes, OneObserver, ReadInOrder, Observing
  <1>3. CASE Observed(s)
    <2>1. Observing(s) /\ scrapes' = releasing(s) /\ gauge' = scrapes[s].read
      BY <1>3 DEF Observed, Observing
    <2>2. gauge' \in 0..MaxMoves /\ gauge' >= gauge /\ gauge' <= queue'
      BY <1>0, <1>3, <2>1 DEF Observed, GaugeInv, ScrapeTypes, ReadInOrder
    <2>3. snapshot' \in [fresh : BOOLEAN, loading : BOOLEAN]
      BY <1>3 DEF Observed
    <2>4. ScrapeTypes'
      BY <1>0, <2>1, <2>2, <2>3, Released DEF ScrapeTypes, GaugeInv
    <2>5. OneObserver'
      BY <2>1, Released DEF OneObserver
    <2>6. ReadInOrder'
      BY <2>1, <2>2, Released DEF ReadInOrder, Observing
    <2> QED
      BY <2>2, <2>4, <2>5, <2>6 DEF GaugeInv
  <1>4. CASE ObservationFails(s)
    <2>1. Observing(s) /\ scrapes' = releasing(s) /\ gauge' = gauge
      BY <1>4 DEF ObservationFails, Observing
    <2>3. snapshot' \in [fresh : BOOLEAN, loading : BOOLEAN]
      BY <1>4 DEF ObservationFails
    <2>4. ScrapeTypes'
      BY <1>0, <2>1, <2>3, Released DEF ScrapeTypes, GaugeInv
    <2>5. OneObserver'
      BY <2>1, Released DEF OneObserver
    <2>6. ReadInOrder'
      BY <1>0, <2>1, Released DEF ReadInOrder, Observing, GaugeInv
    <2>7. gauge' >= gauge
      BY <2>1 DEF GaugeInv, ScrapeTypes
    <2> QED
      BY <2>4, <2>5, <2>6, <2>7 DEF GaugeInv
  <1>5. CASE WaitEnds(s)
    BY <1>0, <1>5, MovesAssumption
       DEF WaitEnds, GaugeInv, ScrapeTypes, OneObserver, ReadInOrder, Observing, Idle
  <1> QED
    BY <1>1, <1>2, <1>3, <1>4, <1>5 DEF ScrapeStep

\* Every step preserves the invariant of the scrapes and moves the gauge on.
LEMMA GaugeInvStep == GaugeInv /\ [Next]_vars => GaugeInv' /\ gauge' >= gauge
  <1> SUFFICES ASSUME GaugeInv, [Next]_vars PROVE GaugeInv' /\ gauge' >= gauge
    OBVIOUS
  <1>0. gauge \in 0..MaxMoves /\ queue \in 0..MaxMoves
    BY DEF GaugeInv, ScrapeTypes
  <1>1. CASE OthersChange
    <2>1. UNCHANGED scrapeVars /\ queue' \in 0..MaxMoves /\ queue <= queue'
      BY <1>0, <1>1, MovesAssumption DEF OthersChange
    <2> QED
      BY <1>0, <2>1, ScrapesUntouched DEF scrapeVars
  <1>2. CASE exits
    <2>1. gauge' = gauge
      BY <1>2 DEF exits
    <2>2. GaugeInv'
      BY <1>2, ExitGauge
    <2> QED
      BY <1>0, <2>1, <2>2
  <1>3. CASE TtlPasses
    <2>1. UNCHANGED <<scrapes, gauge, queue>>
      BY <1>3 DEF TtlPasses, elsewhereUnchanged, databaseVars
    <2>2. snapshot' \in [fresh : BOOLEAN, loading : BOOLEAN] /\ snapshot'.loading = snapshot.loading
      BY <1>3 DEF TtlPasses, GaugeInv, ScrapeTypes
    <2> QED
      BY <1>0, <2>1, <2>2 DEF GaugeInv, ScrapeTypes, OneObserver, ReadInOrder, Observing
  <1>4. CASE \/ LedgerMoves \/ Startup \/ Signal \/ StopServer \/ ServerStopped
             \/ (startWorker /\ ~exits)
             \/ \E p \in Probes : ProbeArrives(p) \/ ProbeStep(p)
             \/ UNCHANGED vars
    <2>1. UNCHANGED <<scrapeVars, queue>>
      BY <1>4 DEF LedgerMoves, Startup, StartupFails, VerifySchema, VerifyPlan, BootstrapSchema,
                  ApplyAtStartup, refuseStartup, discharge, startWorker, Signal, StopServer,
                  ServerStopped, ProbeArrives, ProbeStep, CheckReachable, CheckVersion, CheckLatch, ProbeEnds,
                  probeTo, databaseVars, vars
    <2> QED
      BY <1>0, <2>1, ScrapesUntouched DEF scrapeVars
  <1> QED
    BY <1>1, <1>2, <1>3, <1>4, ScrapeGauge
       DEF Next, Stopping, RefusalReturns, ShutdownTimesOut, DrainReturns

\* The metrics never step back to an older state of the queue
\* (metricssnapshot.go refresh).
THEOREM GaugesForward == Spec => GaugesMoveForward
  <1>1. GaugeInv /\ [Next]_vars => [gauge' >= gauge]_vars
    BY GaugeInvStep
  <1> QED
    BY <1>1, GaugeInvInit, GaugeInvStep, PTL DEF Spec, GaugesMoveForward

============================================================================
