--------------------------- MODULE SchemaBootProofs ---------------------------
(***************************************************************************)
(* Bootstrap for any number of replicas, binaries, migrations and starts:  *)
(* the ledger grows in order and is never rewritten, a boot that reported  *)
(* success serves a schema built from its own files, and a schema that is  *)
(* another's is not touched.  The first two rest on the session lock, and  *)
(* through its key on all boots being of one instance.                     *)
(***************************************************************************)
EXTENDS SchemaBoot, FiniteSetTheorems, TLAPS

\* Every process that boots belongs to one deployment: lockKey holds the
\* instance, so boots of two instances do not exclude each other.
OneDeployment == \A c, d \in Configs : c.instance = d.instance

\* The types the argument needs.
BTypes ==
    /\ pc \in [Replicas -> Booting \cup {"off", "ready", "refused"}]
    /\ cfg \in [Replicas -> Configs]
    /\ session \in [Replicas -> {"none", "open", "dead"}]
    /\ next \in [Replicas -> Nat \ {0}]
    /\ failed \in [Replicas -> BOOLEAN]
    /\ lock \in [Instances -> Replicas \cup {Nobody}]
    /\ IsFiniteSet(DOMAIN ledger)

\* A boot with a live session past acquireLock holds the key of its instance.
HolderKnown ==
    \A r \in Replicas : pc[r] \in UnderLock /\ session[r] = "open" => lock[cfg[r].instance] = r

\* What a migrating boot read or applied is recorded, from its own files,
\* even after its session is lost and others go on.
ReadingRecorded ==
    \A r \in Replicas : pc[r] = "migrate" =>
        /\ ~corpusRefused(cfg[r].files)
        /\ \A v \in 1..(next[r] - 1) :
              v \in DOMAIN ledger /\ ledger[v] = corpusFrom(cfg[r].files)[v]

\* Every migration of a boot's binary is recorded from its own file.
Built(r) == \A f \in cfg[r].files : f.version \in DOMAIN ledger /\ ledger[f.version] = f.checksum

\* A boot past its migrations with no error to return is built.
PastMigrations ==
    \A r \in Replicas :
        (\/ pc[r] \in {"maintain", "coverage"}
         \/ pc[r] \in {"unlock", "ready"} /\ ~failed[r]) => Built(r)

\* A boot past the marker's reading found it absent or its own deployment's.
MarkerAllowed ==
    \A r \in Replicas :
        pc[r] \in {"create", "claim", "ledger", "migrate", "maintain", "coverage"} =>
            marker \in {c.instance : c \in Configs} \cup {"absent"}

\* The ledger only gains rows.
LedgerKept ==
    /\ DOMAIN ledger \subseteq DOMAIN ledger'
    /\ \A v \in DOMAIN ledger : ledger'[v] = ledger[v]

\* The steps of a boot between taking the lock and giving it back.
Inner(r) ==
    \/ readMarker(r) \/ createSchema(r) \/ claimMarker(r) \/ readLedger(r)
    \/ applyMigration(r) \/ nothingPending(r) \/ maintain(r)
    \/ refuseShortCoverage(r) \/ serverRefuses(r)

-------------------------------------------------------------------------------
(* Steps, one by one.                                                      *)

\* Every replica runs for an instance the locks know.
LEMMA InstanceOf == ASSUME BTypes, NEW r \in Replicas
                    PROVE  cfg[r] \in Configs /\ cfg[r].instance \in Instances
  <1>1. cfg[r] \in Configs
    BY DEF BTypes
  <1>2. cfg[r] \in Config
    BY <1>1, BootAssumption
  <1> QED
    BY <1>1, <1>2 DEF Config

\* An inner step moves one boot, under the lock and to a place under the lock.
LEMMA InnerMoves ==
  ASSUME BTypes, NEW r \in Replicas, Inner(r)
  PROVE  /\ UNCHANGED <<lock, cfg, session, cancelled>>
         /\ pc[r] \in UnderLock /\ pc'[r] \in UnderLock
         /\ pc' \in [Replicas -> Booting \cup {"off", "ready", "refused"}]
         /\ failed' \in [Replicas -> BOOLEAN]
         /\ \A s \in Replicas \ {r} : pc'[s] = pc[s] /\ failed'[s] = failed[s]
  <1>1. ASSUME NEW to \in UnderLock, pc' = [pc EXCEPT ![r] = to],
               failed' = failed \/ failed' = [failed EXCEPT ![r] = TRUE]
        PROVE  /\ pc'[r] \in UnderLock
               /\ pc' \in [Replicas -> Booting \cup {"off", "ready", "refused"}]
               /\ failed' \in [Replicas -> BOOLEAN]
               /\ \A s \in Replicas \ {r} : pc'[s] = pc[s] /\ failed'[s] = failed[s]
    BY <1>1 DEF BTypes, Booting
  <1>2. Fail(r) \/ \E to \in UnderLock : Advance(r, to)
    BY DEF Inner, readMarker, createSchema, claimMarker, readLedger, applyMigration,
           nothingPending, maintain, refuseShortCoverage, serverRefuses, UnderLock
  <1>3. /\ pc'[r] \in UnderLock
        /\ pc' \in [Replicas -> Booting \cup {"off", "ready", "refused"}]
        /\ failed' \in [Replicas -> BOOLEAN]
        /\ \A s \in Replicas \ {r} : pc'[s] = pc[s] /\ failed'[s] = failed[s]
    BY <1>1, <1>2 DEF Fail, Advance, UnderLock
  <1>4. pc[r] \in UnderLock /\ UNCHANGED <<lock, cfg, session, cancelled>>
    BY DEF Inner, readMarker, createSchema, claimMarker, readLedger, applyMigration,
           nothingPending, maintain, refuseShortCoverage, serverRefuses, UnderLock
  <1> QED
    BY <1>3, <1>4

\* What a migration does to the ledger.
LEMMA Applying ==
  ASSUME BTypes, NEW r \in Replicas, applyMigration(r), ledger' # ledger
  PROVE  /\ pc[r] = "migrate" /\ session[r] = "open"
         /\ pc'[r] = "migrate" /\ next'[r] = next[r] + 1
         /\ next[r] \notin DOMAIN ledger
         /\ DOMAIN ledger' = DOMAIN ledger \cup {next[r]}
         /\ ledger'[next[r]] = corpusFrom(cfg[r].files)[next[r]]
         /\ \A w \in DOMAIN ledger : ledger'[w] = ledger[w]
         /\ \A s \in Replicas \ {r} : next'[s] = next[s]
         /\ next' \in [Replicas -> Nat \ {0}]
  <1> DEFINE corpus == corpusFrom(cfg[r].files)
  <1>1. /\ pc[r] = "migrate" /\ session[r] = "open"
        /\ next[r] \notin DOMAIN ledger
        /\ ledger' = [w \in DOMAIN ledger \cup {next[r]} |->
                         IF w = next[r] THEN corpus[next[r]] ELSE ledger[w]]
        /\ next' = [next EXCEPT ![r] = next[r] + 1]
        /\ pc' = [pc EXCEPT ![r] = "migrate"]
    BY DEF applyMigration, Working, Advance
  <1> HIDE DEF corpus
  <1>2. /\ DOMAIN ledger' = DOMAIN ledger \cup {next[r]}
        /\ ledger'[next[r]] = corpus[next[r]]
        /\ \A w \in DOMAIN ledger : ledger'[w] = ledger[w]
    BY <1>1
  <1>3. /\ \A s \in Replicas \ {r} : next'[s] = next[s]
        /\ next' \in [Replicas -> Nat \ {0}] /\ next'[r] = next[r] + 1 /\ pc'[r] = "migrate"
    BY <1>1 DEF BTypes
  <1> QED
    BY <1>1, <1>2, <1>3 DEF corpus

\* Only a migration changes the ledger, and no step takes a row away.
LEMMA LedgerStep ==
  ASSUME BTypes, [Next]_vars
  PROVE  /\ LedgerKept
         /\ ledger' # ledger => \E r \in Replicas : applyMigration(r)
  <1>1. ASSUME NEW r \in Replicas, applyMigration(r), ledger' # ledger PROVE LedgerKept
    BY <1>1, Applying DEF LedgerKept
  <1>2. ASSUME ledger' = ledger PROVE LedgerKept
    BY <1>2 DEF LedgerKept
  <1>3. ledger' # ledger => \E r \in Replicas : applyMigration(r)
    BY DEF Next, Step, Bootstrap, acquireLock, readMarker, createSchema, claimMarker, readLedger,
           nothingPending, maintain, refuseShortCoverage, release, serverRefuses, statementFails,
           cancel, loseSession, exit, db, vars
  <1> QED
    BY <1>1, <1>2, <1>3

\* Every step keeps the types.
LEMMA TypesStep ==
  ASSUME BTypes, [Next]_vars
  PROVE  BTypes'
  <1>1. IsFiniteSet(DOMAIN ledger')
    <2>1. CASE ledger' = ledger
      BY <2>1 DEF BTypes
    <2>2. CASE ledger' # ledger
      <3>1. PICK r \in Replicas : DOMAIN ledger' = DOMAIN ledger \cup {next[r]}
        BY <2>2, LedgerStep, Applying
      <3> QED
        BY <3>1, FS_AddElement DEF BTypes
    <2> QED
      BY <2>1, <2>2
  <1>2. ASSUME NEW r \in Replicas, Inner(r) PROVE BTypes'
    <2>1. next' \in [Replicas -> Nat \ {0}]
      <3>1. CASE readLedger(r)
        <4>1. firstPending(ledger) \in Nat \ {0}
          BY FS_CardinalityType DEF firstPending, BTypes
        <4> QED
          BY <3>1, <4>1 DEF readLedger, BTypes
      <3>2. CASE applyMigration(r)
        BY <3>2 DEF applyMigration, BTypes
      <3>3. CASE ~readLedger(r) /\ ~applyMigration(r)
        BY <1>2, <3>3 DEF Inner, readMarker, createSchema, claimMarker, nothingPending, maintain,
                          refuseShortCoverage, serverRefuses, BTypes
      <3> QED
        BY <3>1, <3>2, <3>3
    <2> QED
      BY <1>1, <1>2, <2>1, InnerMoves DEF BTypes
  <1>3. ASSUME NEW r \in Replicas, FreeLocks(r) = lock' PROVE lock' \in [Instances -> Replicas \cup {Nobody}]
    BY <1>3 DEF FreeLocks, BTypes
  <1>4. ASSUME NEW r \in Replicas, acquireLock(r) PROVE BTypes'
    <2>1. lock' \in [Instances -> Replicas \cup {Nobody}]
      BY <1>4, InstanceOf DEF acquireLock, lockKey, BTypes
    <2>2. pc' \in [Replicas -> Booting \cup {"off", "ready", "refused"}]
      BY <1>4 DEF acquireLock, BTypes, Booting, UnderLock
    <2> QED
      BY <1>1, <1>4, <2>1, <2>2 DEF acquireLock, BTypes
  <1>5. ASSUME NEW r \in Replicas, release(r) PROVE BTypes'
    <2>1. lock' \in [Instances -> Replicas \cup {Nobody}]
      BY <1>5, InstanceOf DEF release, giveTheLockBack, lockKey, BTypes
    <2>2. pc' \in [Replicas -> Booting \cup {"off", "ready", "refused"}]
      BY <1>5 DEF release, BTypes
    <2>3. failed' \in [Replicas -> BOOLEAN]
      BY <1>5 DEF release, BTypes
    <2> QED
      BY <1>1, <1>5, <2>1, <2>2, <2>3 DEF release, BTypes
  <1>6. ASSUME NEW r \in Replicas, statementFails(r) PROVE BTypes'
    <2>1. pc' \in [Replicas -> Booting \cup {"off", "ready", "refused"}]
          /\ failed' \in [Replicas -> BOOLEAN]
      BY <1>6 DEF statementFails, Fail, BTypes, Booting, UnderLock
    <2> QED
      BY <1>1, <1>6, <2>1 DEF statementFails, BTypes
  <1>7. ASSUME NEW r \in Replicas, NEW c \in Configs, Bootstrap(r, c) PROVE BTypes'
    <2>1. pc' \in [Replicas -> Booting \cup {"off", "ready", "refused"}]
      BY <1>7 DEF Bootstrap, BTypes, Booting
    <2>2. failed' \in [Replicas -> BOOLEAN] /\ session' \in [Replicas -> {"none", "open", "dead"}]
      BY <1>7 DEF Bootstrap, BTypes
    <2>3. cfg' \in [Replicas -> Configs]
      BY <1>7 DEF Bootstrap, BTypes
    <2> QED
      BY <1>1, <1>7, <2>1, <2>2, <2>3 DEF Bootstrap, BTypes
  <1>8. ASSUME NEW r \in Replicas, cancel(r) PROVE BTypes'
    BY <1>1, <1>8 DEF cancel, BTypes
  <1>9. ASSUME NEW r \in Replicas, loseSession(r) PROVE BTypes'
    <2>1. session' \in [Replicas -> {"none", "open", "dead"}]
      BY <1>9 DEF loseSession, BTypes
    <2> QED
      BY <1>1, <1>3, <1>9, <2>1 DEF loseSession, BTypes
  <1>10. ASSUME NEW r \in Replicas, exit(r) PROVE BTypes'
    <2>1. session' \in [Replicas -> {"none", "open", "dead"}]
          /\ pc' \in [Replicas -> Booting \cup {"off", "ready", "refused"}]
      BY <1>10 DEF exit, BTypes
    <2>2. next' \in [Replicas -> Nat \ {0}] /\ failed' \in [Replicas -> BOOLEAN]
      BY <1>10 DEF exit, BTypes
    <2> QED
      BY <1>1, <1>3, <1>10, <2>1, <2>2 DEF exit, BTypes
  <1>11. CASE UNCHANGED vars
    BY <1>1, <1>11 DEF vars, BTypes
  <1> QED
    BY <1>2, <1>4, <1>5, <1>6, <1>7, <1>8, <1>9, <1>10, <1>11 DEF Next, Step, Inner

\* Every step leaves the key with the boot that took it, until that boot
\* gives it back or its session ends.
LEMMA HolderStep ==
  ASSUME BTypes, HolderKnown, [Next]_vars
  PROVE  HolderKnown'
  <1>1. ASSUME NEW r \in Replicas, Inner(r) PROVE HolderKnown'
    BY <1>1, InnerMoves DEF HolderKnown
  <1>2. ASSUME NEW r \in Replicas, acquireLock(r) PROVE HolderKnown'
    <2>1. lock[cfg[r].instance] = Nobody /\ lock' = [lock EXCEPT ![cfg[r].instance] = r]
          /\ UNCHANGED <<cfg, session>> /\ \A s \in Replicas \ {r} : pc'[s] = pc[s]
      BY <1>2 DEF acquireLock, keyFree, lockKey, BTypes
    <2>2. lock'[cfg[r].instance] = r
          /\ \A k \in Instances \ {cfg[r].instance} : lock'[k] = lock[k]
      BY <2>1, InstanceOf DEF BTypes
    <2> QED
      BY <2>1, <2>2, InstanceOf, BootAssumption DEF HolderKnown
  <1>3. ASSUME NEW r \in Replicas, release(r) PROVE HolderKnown'
    <2>1. pc'[r] \notin UnderLock /\ UNCHANGED <<cfg, session>>
          /\ \A s \in Replicas \ {r} : pc'[s] = pc[s]
      BY <1>3 DEF release, BTypes, UnderLock
    <2>2. \A k \in Instances : lock[k] # r => lock'[k] = lock[k]
      BY <1>3, InstanceOf DEF release, giveTheLockBack, lockKey, BTypes
    <2> QED
      BY <2>1, <2>2, InstanceOf DEF HolderKnown
  <1>4. ASSUME NEW r \in Replicas, statementFails(r) PROVE HolderKnown'
    <2>1. UNCHANGED <<lock, cfg, session>> /\ \A s \in Replicas \ {r} : pc'[s] = pc[s]
      BY <1>4 DEF statementFails, Fail, BTypes
    <2>2. pc'[r] \in UnderLock => pc[r] \in UnderLock
      BY <1>4 DEF statementFails, Fail, BTypes, UnderLock, Booting
    <2> QED
      BY <2>1, <2>2 DEF HolderKnown
  <1>5. ASSUME NEW r \in Replicas, NEW c \in Configs, Bootstrap(r, c) PROVE HolderKnown'
    <2>1. pc'[r] \notin UnderLock /\ lock' = lock
          /\ \A s \in Replicas \ {r} : pc'[s] = pc[s] /\ cfg'[s] = cfg[s] /\ session'[s] = session[s]
      BY <1>5 DEF Bootstrap, BTypes, UnderLock
    <2> QED
      BY <2>1 DEF HolderKnown
  <1>6. ASSUME NEW r \in Replicas, loseSession(r) \/ exit(r) PROVE HolderKnown'
    <2>1. lock' = FreeLocks(r) /\ cfg' = cfg /\ session'[r] # "open"
          /\ \A s \in Replicas \ {r} : pc'[s] = pc[s] /\ session'[s] = session[s]
      BY <1>6 DEF loseSession, exit, BTypes
    <2>2. \A k \in Instances : lock[k] # r => lock'[k] = lock[k]
      BY <2>1 DEF FreeLocks
    <2> QED
      BY <2>1, <2>2, InstanceOf DEF HolderKnown
  <1>7. CASE (\E r \in Replicas : cancel(r)) \/ UNCHANGED vars
    BY <1>7 DEF cancel, vars, HolderKnown
  <1> QED
    BY <1>1, <1>2, <1>3, <1>4, <1>5, <1>6, <1>7 DEF Next, Step, Inner

-------------------------------------------------------------------------------
(* What a boot knows of the ledger.                                        *)

\* A ledger that is judged usable is the run 1..n, recorded from the corpus.
LEMMA UsableLedger ==
  ASSUME IsFiniteSet(DOMAIN ledger), NEW corpus, whyUnusableLedger(ledger, corpus) = "usable"
  PROVE  /\ DOMAIN ledger = 1..(firstPending(ledger) - 1)
         /\ \A v \in DOMAIN ledger : ledger[v] = corpus[v]
  <1>0. Cardinality(DOMAIN ledger) \in Nat
    BY FS_CardinalityType
  <1>1. CASE DOMAIN ledger = {}
    <2>1. Cardinality(DOMAIN ledger) = 0
      BY <1>1, FS_EmptySet
    <2> QED
      BY <1>1, <2>1 DEF firstPending
  <1>2. CASE DOMAIN ledger # {}
    <2>1. /\ DOMAIN ledger = 1..Cardinality(DOMAIN ledger)
          /\ \A v \in DOMAIN ledger : ledger[v] = corpus[v]
      BY <1>2 DEF whyUnusableLedger
    <2>2. firstPending(ledger) - 1 = Cardinality(DOMAIN ledger)
      BY <1>0 DEF firstPending
    <2> QED
      BY <2>1, <2>2
  <1> QED
    BY <1>1, <1>2

\* What a boot finds when it reads the ledger and goes on to migrate.
LEMMA ReadingTaken ==
  ASSUME BTypes, NEW r \in Replicas, readLedger(r), pc'[r] = "migrate"
  PROVE  /\ ~corpusRefused(cfg[r].files) /\ session[r] = "open"
         /\ ledger' = ledger /\ cfg' = cfg
         /\ DOMAIN ledger = 1..(next'[r] - 1)
         /\ \A v \in DOMAIN ledger : ledger[v] = corpusFrom(cfg[r].files)[v]
  <1>1. /\ ~corpusRefused(cfg[r].files)
        /\ whyUnusableLedger(ledger, corpusFrom(cfg[r].files)) = "usable"
        /\ next' = [next EXCEPT ![r] = firstPending(ledger)]
    BY DEF readLedger, Fail, BTypes
  <1>2. ledger' = ledger /\ cfg' = cfg /\ session[r] = "open"
    BY DEF readLedger, db, Working
  <1>3. next'[r] = firstPending(ledger)
    BY <1>1 DEF BTypes
  <1> QED
    BY <1>1, <1>2, <1>3, UsableLedger DEF BTypes

\* A boot enters the migrations by reading the ledger and by no other step.
LEMMA EntersMigrate ==
  ASSUME BTypes, [Next]_vars, NEW r \in Replicas, pc'[r] = "migrate"
  PROVE  \/ readLedger(r)
         \/ applyMigration(r) /\ ledger' # ledger
         \/ /\ pc[r] = "migrate" /\ next'[r] = next[r] /\ cfg'[r] = cfg[r]
            /\ session'[r] = "open" => session[r] = "open"
  <1>1. ASSUME NEW s \in Replicas \ {r},
               Step(s) \/ cancel(s) \/ loseSession(s) \/ exit(s) \/ \E c \in Configs : Bootstrap(s, c)
        PROVE  pc[r] = "migrate" /\ next'[r] = next[r] /\ cfg'[r] = cfg[r] /\ session'[r] = session[r]
    BY <1>1 DEF Step, Bootstrap, acquireLock, readMarker, createSchema, claimMarker, readLedger,
           applyMigration, nothingPending, maintain, refuseShortCoverage, release, serverRefuses,
           statementFails, cancel, loseSession, exit, Fail, Advance, BTypes
  <1>2. ASSUME applyMigration(r) PROVE ledger' # ledger
    <2>1. next[r] \notin DOMAIN ledger
          /\ ledger' = [w \in DOMAIN ledger \cup {next[r]} |->
                           IF w = next[r] THEN corpusFrom(cfg[r].files)[next[r]] ELSE ledger[w]]
      BY <1>2 DEF applyMigration, Fail, BTypes
    <2> QED
      BY <2>1
  <1>3. ASSUME Step(r) \/ exit(r) \/ \E c \in Configs : Bootstrap(r, c),
               ~readLedger(r), ~applyMigration(r)
        PROVE  FALSE
    BY <1>3 DEF Step, Bootstrap, acquireLock, readMarker, createSchema, claimMarker,
           nothingPending, maintain, refuseShortCoverage, release, serverRefuses,
           statementFails, exit, Fail, Advance, BTypes
  <1>4. ASSUME cancel(r) \/ loseSession(r) \/ UNCHANGED vars
        PROVE  /\ pc[r] = "migrate" /\ next'[r] = next[r] /\ cfg'[r] = cfg[r]
               /\ session'[r] = "open" => session[r] = "open"
    BY <1>4 DEF cancel, loseSession, vars, BTypes
  <1> QED
    BY <1>1, <1>2, <1>3, <1>4 DEF Next

\* What was read or applied stays recorded.
LEMMA RecordedStep ==
  ASSUME BTypes, ReadingRecorded, [Next]_vars
  PROVE  ReadingRecorded'
  <1> SUFFICES ASSUME NEW r \in Replicas, pc'[r] = "migrate"
               PROVE  /\ ~corpusRefused(cfg'[r].files)
                      /\ \A v \in 1..(next'[r] - 1) :
                            v \in DOMAIN ledger' /\ ledger'[v] = corpusFrom(cfg'[r].files)[v]
    BY DEF ReadingRecorded, corpusRefused, corpusFrom, versionOf, duplicateVersionIn, versionGapIn
  <1>1. CASE readLedger(r)
    BY <1>1, ReadingTaken
  <1>2. CASE applyMigration(r) /\ ledger' # ledger
    <2>1. pc[r] = "migrate" /\ cfg' = cfg /\ next[r] \in Nat
      BY <1>2 DEF applyMigration, BTypes
    <2>2. /\ next'[r] = next[r] + 1
          /\ DOMAIN ledger' = DOMAIN ledger \cup {next[r]}
          /\ ledger'[next[r]] = corpusFrom(cfg[r].files)[next[r]]
          /\ \A w \in DOMAIN ledger : ledger'[w] = ledger[w]
      BY <1>2, Applying
    <2>3. /\ ~corpusRefused(cfg[r].files)
          /\ \A v \in 1..(next[r] - 1) :
                v \in DOMAIN ledger /\ ledger[v] = corpusFrom(cfg[r].files)[v]
      BY <2>1 DEF ReadingRecorded
    <2>4. \A v \in 1..(next'[r] - 1) : v = next[r] \/ v \in 1..(next[r] - 1)
      BY <2>1, <2>2
    <2> QED
      BY <2>1, <2>2, <2>3, <2>4
  <1>3. CASE pc[r] = "migrate" /\ next'[r] = next[r] /\ cfg'[r] = cfg[r]
    BY <1>3, LedgerStep DEF ReadingRecorded, LedgerKept
  <1> QED
    BY <1>1, <1>2, <1>3, EntersMigrate

\* A corpus that is not refused holds each version once, and 1..n of them.
LEMMA CorpusIsRun ==
  ASSUME NEW c \in Configs, ~corpusRefused(c.files), NEW f \in c.files
  PROVE  /\ f.version \in Nat \ {0}
         /\ corpusFrom(c.files)[f.version] = f.checksum
         /\ \A v \in 1..f.version : \E g \in c.files : g.version = v
  <1>1. c \in Config
    BY BootAssumption
  <1>2. \A g \in c.files : g.version \in Nat /\ versionOf(g) = g.version /\ g.version # 0
    <2>1. \A g \in c.files : g.version \in Versions \cup {0}
      BY <1>1 DEF Config
    <2>0. Versions \subseteq Nat
      BY BootAssumption
    <2>2. ASSUME NEW g \in c.files PROVE g.version \in Nat
      <3>1. g.version \in Versions \/ g.version = 0
        BY <2>1
      <3>2. CASE g.version \in Versions
        BY <2>0, <3>2, Zenon
      <3> QED
        BY <3>1, <3>2
    <2>3. \A g \in c.files : versionOf(g) # 0
      BY DEF corpusRefused
    <2> QED
      BY <2>2, <2>3 DEF versionOf
  <1>3. \A g \in c.files : g.version = f.version => g = f
    BY <1>2 DEF corpusRefused, duplicateVersionIn
  <1>4. (CHOOSE g \in c.files : g.version = f.version) = f
    BY <1>3
  <1>5. corpusFrom(c.files)[f.version] = f.checksum
    BY <1>4 DEF corpusFrom
  <1>6. {versionOf(g) : g \in c.files} = 1..Cardinality(c.files)
    BY DEF corpusRefused, versionGapIn
  <1>7. \A v \in 1..f.version : \E g \in c.files : g.version = v
    <2> TAKE v \in 1..f.version
    <2>1. f.version \in 1..Cardinality(c.files)
      BY <1>2, <1>6
    <2>0. Cardinality(c.files) \in Nat
      BY BootAssumption, FS_CardinalityType
    <2>2. v \in 1..Cardinality(c.files)
      BY <1>2, <2>0, <2>1
    <2>3. PICK g \in c.files : versionOf(g) = v
      BY <1>6, <2>2
    <2> QED
      BY <1>2, <2>3
  <1> QED
    BY <1>2, <1>5, <1>7

\* With nothing pending every file of the binary is recorded.
LEMMA NothingPendingIsBuilt ==
  ASSUME BTypes, ReadingRecorded, NEW r \in Replicas, nothingPending(r)
  PROVE  Built(r)
  <1> SUFFICES ASSUME NEW f \in cfg[r].files
               PROVE  f.version \in DOMAIN ledger /\ ledger[f.version] = f.checksum
    BY DEF Built
  <1>1. /\ ~corpusRefused(cfg[r].files) /\ cfg[r] \in Configs /\ next[r] \in Nat \ {0}
        /\ \A g \in cfg[r].files : g.version # next[r]
    BY DEF nothingPending, ReadingRecorded, BTypes
  <1>2. /\ f.version \in Nat \ {0}
        /\ corpusFrom(cfg[r].files)[f.version] = f.checksum
        /\ \A v \in 1..f.version : \E g \in cfg[r].files : g.version = v
    BY <1>1, CorpusIsRun
  <1>3. f.version \in 1..(next[r] - 1)
    BY <1>1, <1>2
  <1> QED
    BY <1>2, <1>3 DEF nothingPending, ReadingRecorded

\* A boot past its migrations stays built.
LEMMA PastStep ==
  ASSUME BTypes, ReadingRecorded, PastMigrations, [Next]_vars
  PROVE  PastMigrations'
  <1> DEFINE Past(r) == \/ pc[r] \in {"maintain", "coverage"}
                        \/ pc[r] \in {"unlock", "ready"} /\ ~failed[r]
  <1> SUFFICES ASSUME NEW r \in Replicas, Past(r)' PROVE Built(r)'
    BY DEF PastMigrations
  <1>1. ASSUME Built(r), cfg'[r] = cfg[r] PROVE Built(r)'
    BY <1>1, LedgerStep DEF Built, LedgerKept
  <1>2. ASSUME NEW s \in Replicas \ {r},
               Step(s) \/ cancel(s) \/ loseSession(s) \/ exit(s) \/ \E c \in Configs : Bootstrap(s, c)
        PROVE  pc'[r] = pc[r] /\ failed'[r] = failed[r] /\ cfg'[r] = cfg[r]
    BY <1>2 DEF Step, Bootstrap, acquireLock, readMarker, createSchema, claimMarker, readLedger,
           applyMigration, nothingPending, maintain, refuseShortCoverage, release, serverRefuses,
           statementFails, cancel, loseSession, exit, Fail, Advance, BTypes
  <1>3. CASE nothingPending(r)
    BY <1>1, <1>3, NothingPendingIsBuilt DEF nothingPending
  <1>4. ASSUME Step(r) \/ exit(r) \/ \E c \in Configs : Bootstrap(r, c), ~nothingPending(r)
        PROVE  Past(r) /\ cfg'[r] = cfg[r]
    BY <1>4 DEF Step, Bootstrap, acquireLock, readMarker, createSchema, claimMarker, readLedger,
           applyMigration, maintain, refuseShortCoverage, release, serverRefuses,
           statementFails, exit, Fail, Advance, BTypes
  <1>5. ASSUME cancel(r) \/ loseSession(r) \/ UNCHANGED vars
        PROVE  Past(r) /\ cfg'[r] = cfg[r]
    BY <1>5 DEF cancel, loseSession, vars
  <1>6. (Past(r) /\ cfg'[r] = cfg[r]) \/ nothingPending(r)
    BY <1>2, <1>4, <1>5 DEF Next
  <1>7. ASSUME Past(r), cfg'[r] = cfg[r] PROVE Built(r)'
    BY <1>1, <1>7 DEF PastMigrations
  <1> QED
    BY <1>3, <1>6, <1>7

\* A boot that works on the schema found no other owner's marker.
LEMMA MarkerStep ==
  ASSUME BTypes, MarkerAllowed, [Next]_vars
  PROVE  MarkerAllowed'
  <1> DEFINE Allowed == {c.instance : c \in Configs} \cup {"absent"}
             At == {"create", "claim", "ledger", "migrate", "maintain", "coverage"}
  <1>1. marker \in Allowed => marker' \in Allowed
    <2>1. CASE marker' = marker
      BY <2>1
    <2>2. CASE marker' # marker
      <3>1. PICK r \in Replicas : marker' = cfg[r].instance
        BY <2>2 DEF Next, Step, Bootstrap, acquireLock, readMarker, createSchema, claimMarker,
           readLedger, applyMigration, nothingPending, maintain, refuseShortCoverage, release,
           serverRefuses, statementFails, cancel, loseSession, exit, db, vars
      <3> QED
        BY <3>1, InstanceOf
    <2> QED
      BY <2>1, <2>2
  <1> SUFFICES ASSUME NEW r \in Replicas, pc'[r] \in At PROVE marker' \in Allowed
    BY DEF MarkerAllowed
  <1>2. CASE readMarker(r)
    <2>1. marker' = marker /\ ~ownershipRefusal(markerReadingOf(marker, cfg[r].instance))
      BY <1>2 DEF readMarker, db, Fail, BTypes
    <2>2. marker \in {cfg[r].instance, "absent"}
      BY <2>1 DEF ownershipRefusal, markerReadingOf
    <2> QED
      BY <2>1, <2>2, InstanceOf
  <1>3. CASE ~readMarker(r)
    <2>1. pc[r] \in At
      <3>1. ASSUME NEW s \in Replicas \ {r},
                   Step(s) \/ cancel(s) \/ loseSession(s) \/ exit(s)
                   \/ \E c \in Configs : Bootstrap(s, c)
            PROVE  pc'[r] = pc[r]
        BY <3>1 DEF Step, Bootstrap, acquireLock, readMarker, createSchema, claimMarker, readLedger,
           applyMigration, nothingPending, maintain, refuseShortCoverage, release, serverRefuses,
           statementFails, cancel, loseSession, exit, Fail, Advance, BTypes
      <3>2. ASSUME Step(r) \/ exit(r) \/ \E c \in Configs : Bootstrap(r, c)
            PROVE  pc[r] \in At
        BY <1>3, <3>2 DEF Step, Bootstrap, acquireLock, readMarker, createSchema, claimMarker,
           readLedger, applyMigration, nothingPending, maintain, refuseShortCoverage, release,
           serverRefuses, statementFails, exit, Fail, Advance, BTypes
      <3>3. ASSUME cancel(r) \/ loseSession(r) \/ UNCHANGED vars PROVE pc'[r] = pc[r]
        BY <3>3 DEF cancel, loseSession, vars
      <3> QED
        BY <3>1, <3>2, <3>3 DEF Next
    <2> QED
      BY <1>1, <2>1 DEF MarkerAllowed
  <1> QED
    BY <1>2, <1>3

\* The invariant that needs no assumption on the deployment.
BInv == BTypes /\ HolderKnown /\ ReadingRecorded /\ PastMigrations /\ MarkerAllowed

\* No boot has started.
LEMMA BInvInit == Init => BInv
  <1> SUFFICES ASSUME Init PROVE BInv
    OBVIOUS
  <1>1. \A r \in Replicas : pc[r] = "off"
    BY DEF Init
  <1>2. (CHOOSE c \in Configs : TRUE) \in Configs
    BY BootAssumption
  <1>3. IsFiniteSet(DOMAIN ledger)
    BY BootAssumption DEF Init
  <1>4. BTypes
    BY <1>2, <1>3 DEF Init, BTypes, Booting, UnderLock
  <1> QED
    BY <1>1, <1>4 DEF BInv, HolderKnown, ReadingRecorded, PastMigrations, MarkerAllowed, UnderLock

\* Every step keeps it.
LEMMA BInvStep == BInv /\ [Next]_vars => BInv'
  BY TypesStep, HolderStep, RecordedStep, PastStep, MarkerStep DEF BInv

\* A boot that reported success serves a schema on which every migration of
\* its own binary is recorded, from the same file (runner.go migrate).
THEOREM ReadyIsBuilt == Spec => []ReadyOnOwnCorpus
  <1>1. \A r \in Replicas : BInv /\ pc[r] = "ready" /\ ~failed[r] => Built(r)
    BY DEF BInv, PastMigrations
  <1> DEFINE ReadyClean == \A r \in Replicas : pc[r] = "ready" => ~failed[r]
  <1>2. Init => ReadyClean
    BY DEF Init
  <1>3. BInv /\ ReadyClean /\ [Next]_vars => ReadyClean'
    <2> SUFFICES ASSUME BTypes, ReadyClean, [Next]_vars, NEW r \in Replicas, pc'[r] = "ready"
                 PROVE  ~failed'[r]
      BY DEF BInv
    <2>1. ASSUME NEW s \in Replicas \ {r},
                 Step(s) \/ cancel(s) \/ loseSession(s) \/ exit(s)
                 \/ \E c \in Configs : Bootstrap(s, c)
          PROVE  pc'[r] = pc[r] /\ failed'[r] = failed[r]
      BY <2>1 DEF Step, Bootstrap, acquireLock, readMarker, createSchema, claimMarker, readLedger,
           applyMigration, nothingPending, maintain, refuseShortCoverage, release, serverRefuses,
           statementFails, cancel, loseSession, exit, Fail, Advance, BTypes
    <2>2. ASSUME Step(r) \/ exit(r) \/ \E c \in Configs : Bootstrap(r, c) PROVE ~failed'[r]
      BY <2>2 DEF Step, Bootstrap, acquireLock, readMarker, createSchema, claimMarker, readLedger,
           applyMigration, nothingPending, maintain, refuseShortCoverage, release, serverRefuses,
           statementFails, exit, Fail, Advance, BTypes
    <2>3. ASSUME cancel(r) \/ loseSession(r) \/ UNCHANGED vars
          PROVE  pc'[r] = pc[r] /\ failed'[r] = failed[r]
      BY <2>3 DEF cancel, loseSession, vars
    <2> QED
      BY <2>1, <2>2, <2>3 DEF Next
  <1>4. BInv /\ ReadyClean => ReadyOnOwnCorpus
    BY <1>1 DEF ReadyOnOwnCorpus, Built
  <1> QED
    BY <1>2, <1>3, <1>4, BInvInit, BInvStep, PTL DEF Spec

\* A schema whose comment is another instance's or cannot be read is left as
\* it is by every boot, whatever fails (ownership.go, bootstrapschema.go).
THEOREM ForeignLeftAlone == Spec => ForeignSchemaUntouched
  <1>1. BInv /\ [Next]_vars =>
          [marker \notin {c.instance : c \in Configs} \cup {"absent"} => UNCHANGED db]_vars
    <2> SUFFICES ASSUME BInv, [Next]_vars,
                        marker \notin {c.instance : c \in Configs} \cup {"absent"}
                 PROVE  UNCHANGED db
      OBVIOUS
    <2>1. \A r \in Replicas :
            pc[r] \notin {"create", "claim", "ledger", "migrate", "maintain", "coverage"}
      BY DEF BInv, MarkerAllowed
    <2> QED
      BY <2>1 DEF Next, Step, Bootstrap, acquireLock, readMarker, createSchema, claimMarker,
           readLedger, applyMigration, nothingPending, maintain, refuseShortCoverage, release,
           serverRefuses, statementFails, cancel, loseSession, exit, db, vars
  <1> QED
    BY <1>1, BInvInit, BInvStep, PTL DEF Spec, ForeignSchemaUntouched

-------------------------------------------------------------------------------
(* With one deployment the lock serialises the boots.                      *)

\* Nobody but the migrating boot changes the ledger under it.
LEMMA ReadingStep ==
  ASSUME OneDeployment, BInv, ReadingStillHolds, [Next]_vars
  PROVE  ReadingStillHolds'
  <1> SUFFICES ASSUME NEW r \in Replicas, pc'[r] = "migrate", session'[r] = "open"
               PROVE  /\ DOMAIN ledger' = 1..(next'[r] - 1)
                      /\ \A v \in DOMAIN ledger' : ledger'[v] = corpusFrom(cfg'[r].files)[v]
    BY DEF ReadingStillHolds, corpusFrom
  <1>0. BTypes
    BY DEF BInv
  <1>1. CASE readLedger(r)
    BY <1>0, <1>1, ReadingTaken
  <1>2. CASE applyMigration(r) /\ ledger' # ledger
    <2>1. pc[r] = "migrate" /\ session[r] = "open" /\ cfg' = cfg /\ next[r] \in Nat \ {0}
      BY <1>0, <1>2 DEF applyMigration, Working, BTypes
    <2>2. /\ next'[r] = next[r] + 1
          /\ DOMAIN ledger' = DOMAIN ledger \cup {next[r]}
          /\ ledger'[next[r]] = corpusFrom(cfg[r].files)[next[r]]
          /\ \A w \in DOMAIN ledger : ledger'[w] = ledger[w]
      BY <1>0, <1>2, Applying
    <2>3. /\ DOMAIN ledger = 1..(next[r] - 1)
          /\ \A v \in DOMAIN ledger : ledger[v] = corpusFrom(cfg[r].files)[v]
      BY <2>1 DEF ReadingStillHolds
    <2>4. 1..(next'[r] - 1) = (1..(next[r] - 1)) \cup {next[r]}
      BY <2>1, <2>2
    <2> QED
      BY <2>1, <2>2, <2>3, <2>4
  <1>3. CASE pc[r] = "migrate" /\ next'[r] = next[r] /\ cfg'[r] = cfg[r] /\ session[r] = "open"
    <2>1. ledger' # ledger => applyMigration(r)
      <3> SUFFICES ASSUME ledger' # ledger PROVE applyMigration(r)
        OBVIOUS
      <3>1. PICK s \in Replicas : applyMigration(s)
        BY <1>0, LedgerStep
      <3>2. pc[s] = "migrate" /\ session[s] = "open"
        BY <3>1 DEF applyMigration, Working
      <3>3. lock[cfg[r].instance] = r /\ lock[cfg[s].instance] = s
        BY <1>3, <3>2 DEF BInv, HolderKnown, UnderLock
      <3>4. cfg[r].instance = cfg[s].instance
        BY <1>0, InstanceOf DEF OneDeployment
      <3> QED
        BY <3>1, <3>3, <3>4
    <2> QED
      BY <1>2, <1>3, <2>1 DEF ReadingStillHolds
  <1> QED
    BY <1>0, <1>1, <1>2, <1>3, EntersMigrate

\* While a boot with a live session migrates, the ledger is what it read plus
\* what it applied: nothing re-reads it inside the loop (runner.go).
THEOREM ReadingHolds == OneDeployment => (Spec => []ReadingStillHolds)
  <1> SUFFICES ASSUME OneDeployment PROVE Spec => []ReadingStillHolds
    OBVIOUS
  <1>1. Init => ReadingStillHolds
    BY DEF Init, ReadingStillHolds
  <1>2. BInv /\ ReadingStillHolds /\ [Next]_vars => ReadingStillHolds'
    BY ReadingStep
  <1> QED
    BY <1>1, <1>2, BInvInit, BInvStep, PTL DEF Spec

\* No migration is applied out of order and no recorded row is rewritten,
\* through crashes, lost sessions and cancelled contexts (runner.go,
\* runnerledger.go).
THEOREM MigrationsInOrder == OneDeployment => (Spec => AppliedInOrder)
  <1> SUFFICES ASSUME OneDeployment PROVE Spec => AppliedInOrder
    OBVIOUS
  <1>1. Init => ReadingStillHolds
    BY DEF Init, ReadingStillHolds
  <1>2. BInv /\ ReadingStillHolds /\ [Next]_vars => ReadingStillHolds'
    BY ReadingStep
  <1>3. BInv /\ ReadingStillHolds /\ [Next]_vars =>
          [ledger' # ledger =>
             \E v \in DOMAIN ledger' :
                /\ DOMAIN ledger = 1..(v - 1)
                /\ DOMAIN ledger' = 1..v
                /\ \A w \in DOMAIN ledger : ledger'[w] = ledger[w]]_vars
    <2> SUFFICES ASSUME BInv, ReadingStillHolds, [Next]_vars, ledger' # ledger
                 PROVE  \E v \in DOMAIN ledger' :
                           /\ DOMAIN ledger = 1..(v - 1)
                           /\ DOMAIN ledger' = 1..v
                           /\ \A w \in DOMAIN ledger : ledger'[w] = ledger[w]
      OBVIOUS
    <2>0. BTypes
      BY DEF BInv
    <2>1. PICK r \in Replicas : applyMigration(r)
      BY <2>0, LedgerStep
    <2>2. /\ pc[r] = "migrate" /\ session[r] = "open" /\ next[r] \in Nat \ {0}
          /\ DOMAIN ledger' = DOMAIN ledger \cup {next[r]}
          /\ \A w \in DOMAIN ledger : ledger'[w] = ledger[w]
      BY <2>0, <2>1, Applying DEF BTypes
    <2>3. DOMAIN ledger = 1..(next[r] - 1)
      BY <2>2 DEF ReadingStillHolds
    <2>4. DOMAIN ledger' = 1..next[r] /\ next[r] \in DOMAIN ledger'
      BY <2>2, <2>3
    <2> QED
      BY <2>2, <2>3, <2>4
  <1> QED
    BY <1>1, <1>2, <1>3, BInvInit, BInvStep, PTL DEF Spec, AppliedInOrder

===============================================================================
