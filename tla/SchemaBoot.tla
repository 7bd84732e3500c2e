------------------------------ MODULE SchemaBoot ------------------------------
(***************************************************************************)
(* Bootstrap of internal/schema: replicas of one deployment, some of them  *)
(* older or newer binaries, boot at once against one schema.  Each borrows *)
(* a connection, takes the session advisory lock of its instance, reads    *)
(* and claims the ownership marker, creates the schema, reads the ledger   *)
(* and applies the migrations it lacks, each in one transaction, runs a    *)
(* maintenance pass, checks the coverage and gives the lock back.          *)
(*                                                                         *)
(* A step is one statement, or one transaction.  Between any two steps the *)
(* command context may be cancelled, the session may be lost or the        *)
(* process may die.  What the partitions are is PartitionUpkeep's subject: *)
(* here the coverage check answers either way.                             *)
(***************************************************************************)
EXTENDS Integers, FiniteSets

CONSTANTS
    Replicas,         \* processes that boot
    Nobody,           \* an advisory key nobody holds
    Instances,        \* values of `instance` in the configurations in use
    Configs,          \* what a process boots with (see Config)
    Markers,          \* comments the schema may carry at the start
    Ledgers,          \* ledgers the database may hold at the start
    Versions,         \* migration versions that may be embedded or recorded
    Checksums,        \* sha256 of the text of a migration file
    MaxStarts         \* model bound: processes started

\* A configuration and the binary it is given to: the instance, whether the
\* schema name claims the reserved prefix, whether the horizon is servable,
\* and the files embedded under migrations/.
Config == [instance : Instances, reserved : BOOLEAN, servable : BOOLEAN,
           files : SUBSET [version : Versions \cup {0}, checksum : Checksums]]

\* What a comment on the schema can be read as.
Comments == Instances \cup {"absent", "unreadable"}

\* Tables schema_version may hold: the primary key is the version.
LedgerType == UNION {[S -> Checksums] : S \in SUBSET Versions}

ASSUME BootAssumption ==
    /\ Nobody \notin Replicas
    /\ {"absent", "unreadable"} \cap Instances = {}
    /\ Versions \subseteq Nat \ {0}
    /\ Configs \subseteq Config /\ Configs # {}
    /\ \A c \in Configs : IsFiniteSet(c.files)
    /\ Markers \subseteq Comments
    /\ Ledgers \subseteq LedgerType /\ \A l \in Ledgers : IsFiniteSet(DOMAIN l)
    /\ MaxStarts \in Nat

VARIABLES
    schema,           \* the schema exists
    marker,           \* its comment
    ledger,           \* schema_version; empty when the table is absent
    lock,             \* holder of the advisory key of each instance
    pc,               \* where each boot is
    cfg,              \* what each boot was given
    session,          \* its pinned connection
    cancelled,        \* its command context
    unclaimed,        \* step 4 read no marker
    next,             \* the next migration of its corpus to apply
    failed,           \* it has an error to return
    starts            \* history: processes started

db    == <<schema, marker, ledger>>
vars  == <<schema, marker, ledger, lock, pc, cfg, session, cancelled,
           unclaimed, next, failed, starts>>

-------------------------------------------------------------------------------
(* The corpus and the ledger.                                              *)

\* versionOf: a filename that declares a version below the first is refused.
versionOf(file) == IF file.version < 1 THEN 0 ELSE file.version

duplicateVersionIn(files) ==
    \E a, b \in files : a # b /\ versionOf(a) = versionOf(b)

versionGapIn(files) ==
    {versionOf(a) : a \in files} # 1..Cardinality(files)

\* A corpus that is not the run 1..n, one file each, is refused.
corpusRefused(files) ==
    \/ \E a \in files : versionOf(a) = 0
    \/ duplicateVersionIn(files)
    \/ versionGapIn(files)

corpusFrom(files) ==
    [v \in {a.version : a \in files} |->
        (CHOOSE a \in files : a.version = v).checksum]

highest(versions) ==
    IF versions = {} THEN 0
    ELSE CHOOSE v \in versions : \A w \in versions : w <= v

\* Faulty variant: one pending migration is passed over.
firstPendingSkipsOne(recorded) == Cardinality(DOMAIN recorded) + 2

\* The pending migrations are those after the recorded ones, by count.
firstPending(recorded) == Cardinality(DOMAIN recorded) + 1

\* Faulty variant: the ledger is judged by its versions alone.
whyUnusableLedgerByVersion(recorded, corpus) ==
    IF DOMAIN recorded = {} THEN "usable"
    ELSE IF highest(DOMAIN recorded) > highest(DOMAIN corpus) THEN "ahead of binary"
    ELSE IF DOMAIN recorded # 1..Cardinality(DOMAIN recorded) THEN "not a prefix"
    ELSE "usable"

\* The one reason a recorded ledger cannot be carried forward, in the order
\* the code looks for them.
whyUnusableLedger(recorded, corpus) ==
    IF DOMAIN recorded = {} THEN "usable"
    ELSE IF highest(DOMAIN recorded) > highest(DOMAIN corpus) THEN "ahead of binary"
    ELSE IF DOMAIN recorded # 1..Cardinality(DOMAIN recorded) THEN "not a prefix"
    ELSE IF \E v \in DOMAIN recorded : recorded[v] # corpus[v] THEN "file changed"
    ELSE "usable"

-------------------------------------------------------------------------------
(* The marker and the lock.                                                *)

markerReadingOf(comment, instance) ==
    CASE comment = "absent" -> "absent"
      [] comment = "unreadable" -> "unreadable"
      [] comment = instance -> "ours"
      [] OTHER -> "foreign"

\* Faulty variant: a comment that cannot be read is taken for none.
ownershipRefusalOfForeignOnly(reading) == reading = "foreign"

ownershipRefusal(reading) == reading \notin {"ours", "absent"}

\* The key holds the schema and the instance: boots of two instances on one
\* schema do not exclude each other.
lockKey(c) == c.instance

\* Faulty variant: the answer of a try for the lock is not read.
keyFreeUnread(r) == TRUE

\* pg_advisory_lock blocks while another session holds the key.
keyFree(r) == lock[lockKey(cfg[r])] = Nobody

\* Faulty variant: unlocked on another connection, where the server answers
\* false and the lock stays held.
giveTheLockBackElsewhere(r) == lock

\* pg_advisory_unlock on the connection that took the lock.
giveTheLockBack(r) ==
    [lock EXCEPT ![lockKey(cfg[r])] = IF @ = r THEN Nobody ELSE @]

\* The server frees the session locks of a backend that ends.
FreeLocks(r) == [k \in Instances |-> IF lock[k] = r THEN Nobody ELSE lock[k]]

UnderLock == {"marker", "create", "claim", "ledger", "migrate", "maintain",
              "coverage", "unlock"}

Booting   == UnderLock \cup {"lock"}

\* A statement is sent: the connection is up, the context not cancelled.
Working(r) == session[r] = "open" /\ ~cancelled[r]

-------------------------------------------------------------------------------
(* Steps of a boot.                                                        *)

Init ==
    /\ schema \in BOOLEAN
    /\ marker \in Markers
    /\ ledger \in Ledgers
    /\ marker # "absent" => schema
    /\ DOMAIN ledger # {} => schema
    /\ lock = [k \in Instances |-> Nobody]
    /\ pc = [r \in Replicas |-> "off"]
    /\ cfg = [r \in Replicas |-> CHOOSE c \in Configs : TRUE]
    /\ session = [r \in Replicas |-> "none"]
    /\ cancelled = [r \in Replicas |-> FALSE]
    /\ unclaimed = [r \in Replicas |-> FALSE]
    /\ next = [r \in Replicas |-> 1]
    /\ failed = [r \in Replicas |-> FALSE]
    /\ starts = 0

\* The process starts and takes the boot's steps 1 and 2.  Two configurations
\* are refused before any connection; the pool may have none to give.
Bootstrap(r, c) ==
    /\ pc[r] = "off"
    /\ starts < MaxStarts
    /\ starts' = starts + 1
    /\ cfg' = [cfg EXCEPT ![r] = c]
    /\ \/ /\ ~c.reserved /\ c.servable
          /\ pc' = [pc EXCEPT ![r] = "lock"]
          /\ session' = [session EXCEPT ![r] = "open"]
          /\ UNCHANGED failed
       \/ /\ pc' = [pc EXCEPT ![r] = "refused"]
          /\ failed' = [failed EXCEPT ![r] = TRUE]
          /\ UNCHANGED session
    /\ UNCHANGED <<db, lock, cancelled, unclaimed, next>>

acquireLock(r) ==
    /\ pc[r] = "lock" /\ Working(r)
    /\ keyFree(r)
    /\ lock' = [lock EXCEPT ![lockKey(cfg[r])] = r]
    /\ pc' = [pc EXCEPT ![r] = "marker"]
    /\ UNCHANGED <<schema, marker, ledger, cfg, session, cancelled, unclaimed,
                   next, failed, starts>>

\* The error leaves underTheLock; the deferred release comes next.
Fail(r) ==
    /\ pc' = [pc EXCEPT ![r] = "unlock"]
    /\ failed' = [failed EXCEPT ![r] = TRUE]

Advance(r, to) ==
    /\ pc' = [pc EXCEPT ![r] = to]
    /\ UNCHANGED failed

readMarker(r) ==
    /\ pc[r] = "marker" /\ Working(r)
    /\ LET reading == markerReadingOf(marker, cfg[r].instance)
       IN /\ unclaimed' = [unclaimed EXCEPT ![r] = reading = "absent"]
          /\ IF ownershipRefusal(reading) THEN Fail(r) ELSE Advance(r, "create")
    /\ UNCHANGED <<db, lock, cfg, session, cancelled, next, starts>>

createSchema(r) ==
    /\ pc[r] = "create" /\ Working(r)
    /\ schema' = TRUE
    /\ Advance(r, IF unclaimed[r] THEN "claim" ELSE "ledger")
    /\ UNCHANGED <<marker, ledger, lock, cfg, session, cancelled, unclaimed,
                   next, starts>>

claimMarker(r) ==
    /\ pc[r] = "claim" /\ Working(r)
    /\ marker' = cfg[r].instance
    /\ Advance(r, "ledger")
    /\ UNCHANGED <<schema, ledger, lock, cfg, session, cancelled, unclaimed,
                   next, starts>>

\* The corpus is read, then the ledger in a transaction of its own, and judged.
readLedger(r) ==
    /\ pc[r] = "ledger" /\ Working(r)
    /\ LET corpus == corpusFrom(cfg[r].files)
       IN IF \/ corpusRefused(cfg[r].files)
             \/ whyUnusableLedger(ledger, corpus) # "usable"
          THEN Fail(r) /\ UNCHANGED next
          ELSE /\ next' = [next EXCEPT ![r] = firstPending(ledger)]
               /\ Advance(r, "migrate")
    /\ UNCHANGED <<db, lock, cfg, session, cancelled, unclaimed, starts>>

\* One migration and its ledger row, in one transaction.  A version already
\* recorded violates the primary key and the transaction is rolled back.
applyMigration(r) ==
    LET corpus == corpusFrom(cfg[r].files)
        v      == next[r]
    IN /\ pc[r] = "migrate" /\ Working(r)
       /\ v \in DOMAIN corpus
       /\ IF v \in DOMAIN ledger
          THEN Fail(r) /\ UNCHANGED <<ledger, next>>
          ELSE /\ ledger' = [w \in DOMAIN ledger \cup {v} |->
                                IF w = v THEN corpus[v] ELSE ledger[w]]
               /\ next' = [next EXCEPT ![r] = v + 1]
               /\ Advance(r, "migrate")
       /\ UNCHANGED <<schema, marker, lock, cfg, session, cancelled, unclaimed,
                      starts>>

nothingPending(r) ==
    /\ pc[r] = "migrate"
    /\ next[r] \notin {f.version : f \in cfg[r].files}
    /\ Advance(r, "maintain")
    /\ UNCHANGED <<db, lock, cfg, session, cancelled, unclaimed, next, starts>>

\* The maintenance pass; its answer is not read, failure included.
maintain(r) ==
    /\ pc[r] = "maintain"
    /\ Advance(r, "coverage")
    /\ UNCHANGED <<db, lock, cfg, session, cancelled, unclaimed, next, starts>>

refuseShortCoverage(r) ==
    /\ pc[r] = "coverage" /\ Working(r)
    /\ Fail(r) \/ Advance(r, "unlock")
    /\ UNCHANGED <<db, lock, cfg, session, cancelled, unclaimed, next, starts>>

\* The deferred release, under the caller's context.  Its own failure is
\* returned when the run found none.  The connection goes back to the pool.
release(r) ==
    /\ pc[r] = "unlock"
    /\ IF Working(r)
       THEN /\ lock' = giveTheLockBack(r)
            /\ pc' = [pc EXCEPT ![r] = IF failed[r] THEN "refused" ELSE "ready"]
            /\ UNCHANGED failed
       ELSE /\ pc' = [pc EXCEPT ![r] = "refused"]
            /\ failed' = [failed EXCEPT ![r] = TRUE]
            /\ UNCHANGED lock
    /\ UNCHANGED <<db, cfg, session, cancelled, unclaimed, next, starts>>

\* The server refuses a statement (a missing privilege, a lock timeout, ...)
\* and the session survives.
serverRefuses(r) ==
    /\ pc[r] \in {"marker", "create", "claim", "ledger", "migrate", "coverage"}
    /\ Working(r)
    /\ Fail(r)
    /\ UNCHANGED <<db, lock, cfg, session, cancelled, unclaimed, next, starts>>

\* A statement that cannot be sent: its context is cancelled, or its session
\* is gone.  Waiting for the lock there is no release to make.
statementFails(r) ==
    /\ pc[r] \in Booting \ {"unlock", "maintain"}
    /\ ~Working(r)
    /\ IF pc[r] = "lock"
       THEN /\ pc' = [pc EXCEPT ![r] = "refused"]
            /\ failed' = [failed EXCEPT ![r] = TRUE]
       ELSE Fail(r)
    /\ UNCHANGED <<db, lock, cfg, session, cancelled, unclaimed, next, starts>>

-------------------------------------------------------------------------------
(* The environment.                                                        *)

\* SIGTERM, or the caller's deadline.
cancel(r) ==
    /\ pc[r] \in Booting /\ ~cancelled[r]
    /\ cancelled' = [cancelled EXCEPT ![r] = TRUE]
    /\ UNCHANGED <<db, lock, pc, cfg, session, unclaimed, next, failed, starts>>

\* The backend ends: a network failure, a terminated backend, the driver
\* closing the socket of a statement (or of a transaction) cut short by a
\* cancelled context.
loseSession(r) ==
    /\ session[r] = "open"
    /\ session' = [session EXCEPT ![r] = "dead"]
    /\ lock' = FreeLocks(r)
    /\ UNCHANGED <<db, pc, cfg, cancelled, unclaimed, next, failed, starts>>

\* The process ends, at any moment: a crash, or the command returning.
exit(r) ==
    /\ pc[r] # "off"
    /\ pc' = [pc EXCEPT ![r] = "off"]
    /\ session' = [session EXCEPT ![r] = "none"]
    /\ lock' = FreeLocks(r)
    /\ cancelled' = [cancelled EXCEPT ![r] = FALSE]
    /\ unclaimed' = [unclaimed EXCEPT ![r] = FALSE]
    /\ next' = [next EXCEPT ![r] = 1]
    /\ failed' = [failed EXCEPT ![r] = FALSE]
    /\ UNCHANGED <<db, cfg, starts>>

Step(r) ==
    \/ acquireLock(r)   \/ readMarker(r)     \/ createSchema(r)
    \/ claimMarker(r)   \/ readLedger(r)     \/ applyMigration(r)
    \/ nothingPending(r) \/ maintain(r)      \/ refuseShortCoverage(r)
    \/ release(r)       \/ serverRefuses(r)  \/ statementFails(r)

Next ==
    \E r \in Replicas :
        \/ \E c \in Configs : Bootstrap(r, c)
        \/ Step(r)
        \/ cancel(r)
        \/ loseSession(r)
        \/ exit(r)

Spec == Init /\ [][Next]_vars

\* A statement sent is answered, and a command whose boot was refused returns
\* and ends its process.
FairSpec ==
    /\ Spec
    /\ \A r \in Replicas :
        /\ WF_vars(Step(r))
        /\ WF_vars(pc[r] = "refused" /\ exit(r))

-------------------------------------------------------------------------------
(* Properties.                                                             *)

TypeOK ==
    /\ schema \in BOOLEAN
    /\ marker \in Comments
    /\ ledger \in LedgerType
    /\ lock \in [Instances -> Replicas \cup {Nobody}]
    /\ pc \in [Replicas -> Booting \cup {"off", "ready", "refused"}]
    /\ cfg \in [Replicas -> Configs]
    /\ session \in [Replicas -> {"none", "open", "dead"}]
    /\ cancelled \in [Replicas -> BOOLEAN]
    /\ unclaimed \in [Replicas -> BOOLEAN]
    /\ next \in [Replicas -> Nat]
    /\ failed \in [Replicas -> BOOLEAN]
    /\ starts \in 0..MaxStarts

\* While a boot of a live session applies migrations, the ledger is what it
\* read plus what it applied itself, so the migration it is about to apply is
\* the first one missing.  Nothing re-reads the ledger inside the loop of
\* migrate (runner.go): that rests on the session lock, through crashes, lost
\* sessions and cancelled contexts.
ReadingStillHolds ==
    \A r \in Replicas :
        pc[r] = "migrate" /\ session[r] = "open" =>
            /\ DOMAIN ledger = 1..(next[r] - 1)
            /\ \A v \in DOMAIN ledger : ledger[v] = corpusFrom(cfg[r].files)[v]

\* No migration is ever applied out of order: the step that records a version
\* records exactly one, and all versions below it, and none above it, were
\* recorded before (refusedLedger: "applying the missing versions now would
\* apply them after a later one").  No step rewrites a recorded row.
AppliedInOrder ==
    [][ledger' # ledger =>
          \E v \in DOMAIN ledger' :
             /\ DOMAIN ledger = 1..(v - 1)
             /\ DOMAIN ledger' = 1..v
             /\ \A w \in DOMAIN ledger : ledger'[w] = ledger[w]]_vars

\* A boot that reported success serves a database on which every migration of
\* its own binary is recorded, from the same file, however many replicas and
\* binaries booted before and after it.
ReadyOnOwnCorpus ==
    \A r \in Replicas :
        pc[r] = "ready" =>
            \A f \in cfg[r].files :
                f.version \in DOMAIN ledger /\ ledger[f.version] = f.checksum

\* A schema whose comment names another instance, or cannot be read, is left
\* as it is by every boot, whatever fails (ADR-3's marker policy).
ForeignSchemaUntouched ==
    [][marker \notin {c.instance : c \in Configs} \cup {"absent"} =>
          UNCHANGED db]_vars

\* A boot waiting for the lock does not wait forever: whoever holds it boots,
\* is refused and exits, loses its session, or dies.
WaitingBootEnds ==
    \A r \in Replicas : pc[r] = "lock" ~> pc[r] # "lock"

===============================================================================
