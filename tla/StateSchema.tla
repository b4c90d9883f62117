---------------------------- MODULE StateSchema -----------------------------
(***************************************************************************)
(* Opening the state database (husker-state lib.rs, connection.rs,          *)
(* durable.rs, with the daemon's lock of daemon.rs): a daemon process takes *)
(* the lock of the state directory, refuses a newer schema, renumbers a     *)
(* preview's one, repairs the baseline and applies the numbered migrations, *)
(* each with its stamp in one transaction.  The database is a stamp and the *)
(* set of migrations whose effect it holds.  A process may die at any step; *)
(* a power loss also takes the commits not yet synchronised.                *)
(***************************************************************************)
EXTENDS Integers, FiniteSets

CONSTANTS
  SchProcs,       \* daemon processes
  SchBaseline,    \* BASELINE_SCHEMA_VERSION
  SchBoot,        \* BOOT_KIND_TRIGGER_MIGRATION
  SchTop,         \* SUPPORTED_SCHEMA_VERSION
  SchStatements,  \* number of statements of the idempotent baseline block
  SchMaxCrashes   \* bound on crashes and power losses

ASSUME SchAssumption ==
  /\ {SchBaseline, SchBoot, SchTop, SchStatements} \subseteq Nat
  /\ 0 < SchBaseline /\ SchBaseline < SchBoot /\ SchBoot < SchTop

VARIABLES
  schDb,       \* stamp, effects (migration numbers and baseline pieces), receipts
  schSafe,     \* the database a power loss would leave
  schProc,     \* per process: stage, the version it last read, its connection
  schLock,     \* holder of the daemon lock
  schOrigin,   \* the database found at the start
  schStuck,    \* a migration was refused by the schema it met
  schAcked,    \* receipts a client was told of
  schCount     \* crashes so far

schVars == <<schDb, schSafe, schProc, schLock, schOrigin, schStuck, schAcked, schCount>>

\* The baseline's pieces, numbered below the migrations.
SchPieces == {-i : i \in 1..SchStatements}

SchDb(stamp, effects) == [stamp |-> stamp, effects |-> effects, receipts |-> 0]
SchReleased(v) == SchDb(v, (SchBaseline + 1)..v \cup SchPieces)

\* A preview build numbered the job migrations from SchBoot and had no
\* boot-kind one: stamp k, effects up to k + 1 without SchBoot.
SchPreview(k) == SchDb(k, ((SchBaseline + 1)..(k + 1) \ {SchBoot}) \cup SchPieces)

\* What a data directory can hold: nothing, an unversioned database with part
\* of the baseline, a released or a preview schema, a newer one.
SchOrigins ==
  {SchDb(0, some) : some \in SUBSET SchPieces} \cup {SchReleased(v) : v \in SchBaseline..SchTop}
  \cup {SchPreview(k) : k \in SchBoot..(SchTop - 1)} \cup {SchReleased(SchTop + 1)}

SchDown == [stage |-> "down", read |-> 0, full |-> FALSE, poisoned |-> FALSE]

SchInit ==
  /\ schDb \in SchOrigins /\ schSafe = schDb /\ schOrigin = schDb
  /\ schProc = [p \in SchProcs |-> SchDown]
  /\ schLock = {} /\ schStuck = FALSE /\ schAcked = 0 /\ schCount = 0

SchGoes(p, stage) == schProc' = [schProc EXCEPT ![p].stage = stage]
SchExits(p) == schProc' = [schProc EXCEPT ![p] = SchDown] /\ schLock' = schLock \ {p}

\* A commit under synchronous=NORMAL reaches the disk now or later.
SchCommits(db) == schDb' = db /\ schSafe' \in {schSafe, db}
SchQuiet == UNCHANGED <<schOrigin, schAcked, schCount>>

(***************************************************************************)
(* open and migrate.                                                        *)
(***************************************************************************)

\* Mutant: a second daemon starts beside the first.
SchLockFreeAlways(p) == TRUE

SchLockFree(p) == schLock = {}

\* try_lock_exclusive; a process that does not get it exits.
SchTakeLock(p) ==
  /\ schProc[p].stage = "down" /\ SchLockFree(p)
  /\ schLock' = schLock \cup {p} /\ SchGoes(p, "refuse")
  /\ UNCHANGED <<schDb, schSafe, schStuck>> /\ SchQuiet

\* refuse_newer_schema, before anything is written.
SchRefuse(p) ==
  /\ schProc[p].stage = "refuse"
  /\ IF schDb.stamp > SchTop THEN SchExits(p) ELSE SchGoes(p, "renumber") /\ UNCHANGED schLock
  /\ UNCHANGED <<schDb, schSafe, schStuck>> /\ SchQuiet

SchIsPreview(db) ==
  /\ db.stamp \in SchBoot..(SchTop - 1)
  /\ SchBoot + 1 \in db.effects      \* the job tables
  /\ SchBoot \notin db.effects       \* the trigger does not admit macos

\* renumber_preview_job_schema: migration SchBoot and the stamp together.
SchRenumber(p) ==
  /\ schProc[p].stage = "renumber" /\ SchGoes(p, "baseline")
  /\ IF SchIsPreview(schDb)
     THEN SchCommits([schDb EXCEPT !.stamp = @ + 1, !.effects = @ \cup {SchBoot}])
     ELSE UNCHANGED <<schDb, schSafe>>
  /\ UNCHANGED <<schLock, schStuck>> /\ SchQuiet

\* CREATE TABLE IF NOT EXISTS and add_column, statement by statement; what is
\* there already is no error.
SchRepair(p, piece) ==
  /\ schProc[p].stage = "baseline" /\ piece \in SchPieces \ schDb.effects
  /\ SchCommits([schDb EXCEPT !.effects = @ \cup {piece}])
  /\ UNCHANGED <<schProc, schLock, schStuck>> /\ SchQuiet

\* The stamp of a database that predates versioning; the version is read once.
SchStamp(p) ==
  /\ schProc[p].stage = "baseline" /\ SchPieces \subseteq schDb.effects
  /\ LET v == IF schDb.stamp < SchBaseline THEN SchBaseline ELSE schDb.stamp
     IN /\ schProc' = [schProc EXCEPT ![p].stage = "migrate", ![p].read = v]
        /\ IF v = schDb.stamp THEN UNCHANGED <<schDb, schSafe>>
           ELSE SchCommits([schDb EXCEPT !.stamp = v])
  /\ UNCHANGED <<schLock, schStuck>> /\ SchQuiet

\* apply_migrations: the next number after the version read, with its stamp;
\* run again, a trigger rebuild (here the boot-kind one) goes through, any
\* other meets its own tables.
SchMigrate(p) ==
  LET n == schProc[p].read + 1
      again == n \in schDb.effects /\ n # SchBoot
  IN /\ schProc[p].stage = "migrate" /\ n <= SchTop
     /\ IF again THEN /\ SchExits(p) /\ schStuck' = TRUE /\ UNCHANGED <<schDb, schSafe>>
        ELSE /\ SchCommits([schDb EXCEPT !.stamp = n, !.effects = @ \cup {n}])
             /\ schProc' = [schProc EXCEPT ![p].read = n]
             /\ UNCHANGED <<schLock, schStuck>>
     /\ SchQuiet

SchReady(p) ==
  /\ schProc[p].stage = "migrate" /\ schProc[p].read >= SchTop
  /\ SchGoes(p, "ready")
  /\ UNCHANGED <<schDb, schSafe, schLock, schStuck>> /\ SchQuiet

(***************************************************************************)
(* Receipts: a connection is switched to FULL for one of them.              *)
(***************************************************************************)

\* DurableConn::new; a poisoned connection was discarded for a fresh one.
SchBorrow(p) ==
  /\ schProc[p].stage = "ready" /\ ~schProc[p].full
  /\ schProc' = [schProc EXCEPT ![p].stage = "durable", ![p].full = TRUE, ![p].poisoned = FALSE]
  /\ UNCHANGED <<schDb, schSafe, schLock, schStuck>> /\ SchQuiet

\* Under FULL the commit, and every one before it, is on the disk.
SchReceipt(p) ==
  LET db == [schDb EXCEPT !.receipts = @ + 1]
  IN /\ schProc[p].stage = "durable" /\ schDb.receipts < 1
     /\ schDb' = db /\ IF schProc[p].full THEN schSafe' = db ELSE schSafe' \in {schSafe, db}
     /\ schAcked' = schAcked + 1
     /\ UNCHANGED <<schProc, schLock, schOrigin, schStuck, schCount>>

\* Drop restores NORMAL, or poisons the connection so the pool drops it.
SchReturn(p, ok) ==
  /\ schProc[p].stage = "durable"
  /\ schProc' = [schProc EXCEPT ![p].stage = "ready", ![p].full = FALSE, ![p].poisoned = ~ok]
  /\ UNCHANGED <<schDb, schSafe, schLock, schStuck>> /\ SchQuiet

(***************************************************************************)
(* Faults.                                                                  *)
(***************************************************************************)

SchDies(p) ==
  /\ schProc[p].stage # "down" /\ schCount < SchMaxCrashes /\ schCount' = schCount + 1
  /\ SchExits(p)
  /\ UNCHANGED <<schDb, schSafe, schOrigin, schStuck, schAcked>>

SchPowerLoss ==
  /\ schCount < SchMaxCrashes /\ schCount' = schCount + 1
  /\ schDb' = schSafe /\ schProc' = [p \in SchProcs |-> SchDown] /\ schLock' = {}
  /\ UNCHANGED <<schSafe, schOrigin, schStuck, schAcked>>

SchNext ==
  \/ \E p \in SchProcs : \/ SchTakeLock(p) \/ SchRefuse(p) \/ SchRenumber(p) \/ SchStamp(p)
                         \/ SchMigrate(p) \/ SchReady(p) \/ SchBorrow(p) \/ SchReceipt(p)
                         \/ SchDies(p)
  \/ \E p \in SchProcs, piece \in SchPieces : SchRepair(p, piece)
  \/ \E p \in SchProcs, ok \in BOOLEAN : SchReturn(p, ok)
  \/ SchPowerLoss

(***************************************************************************)
(* Property.                                                                *)
(***************************************************************************)

\* From every database a build left behind, and through any crash, the schema
\* only moves forward (migrate): a daemon that serves has every migration and
\* their stamp, no migration is ever refused by its own earlier effect (which
\* would stop every later start), a newer build's database is left untouched,
\* and a receipt a client was told of is still there after a power loss.
SchSound ==
  /\ \A p \in SchProcs : schProc[p].stage \in {"ready", "durable"} =>
       schDb.stamp = SchTop /\ (SchBaseline + 1)..SchTop \cup SchPieces \subseteq schDb.effects
  /\ ~schStuck
  /\ schOrigin.stamp > SchTop => schDb = schOrigin
  /\ schAcked <= schSafe.receipts
=============================================================================
