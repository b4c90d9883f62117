---------------------------- MODULE DaemonProofs ----------------------------
(***************************************************************************)
(* Proofs about the daemon, each component for its own steps.  What it     *)
(* keeps and orchestrates: the schema of its store (StateSchema), named    *)
(* volumes, snapshots, pools and secrets (NamedStores), and services       *)
(* (Services), for any number of callers, names, migrations and instances. *)
(* Its HTTP API: the layers in front of every handler (ApiGate), the       *)
(* monitors of detached commands (ApiSessions) and the transports of a     *)
(* guest's output (ApiStreams), for any limit, window, number of clients,  *)
(* submissions and frames.                                                 *)
(***************************************************************************)
EXTENDS StateSchema, NamedStores, Services, ApiGate, ApiSessions, ApiStreams, FiniteSetTheorems,
        FunctionTheorems, SequenceTheorems, WellFoundedInduction, TLAPS

-----------------------------------------------------------------------------
(* The schema of the store. *)

SchEffects(v) == (SchBaseline + 1)..v \cup SchPieces

\* The three forms a database has: part of the baseline without a stamp, every
\* migration up to the stamp, or a preview's numbering.
SchEarly(db) == db.stamp = 0 /\ db.effects \subseteq SchPieces
SchNumbered(db) == db.stamp \in SchBaseline..(SchTop + 1) /\ db.effects = SchEffects(db.stamp)
SchPreviewed(db) == /\ db.stamp \in SchBoot..(SchTop - 1)
                    /\ db.effects = SchEffects(db.stamp + 1) \ {SchBoot}
SchGood(db) == /\ db \in [stamp : Nat, effects : SUBSET Int, receipts : Nat]
               /\ SchEarly(db) \/ SchNumbered(db) \/ SchPreviewed(db)

SchStages == {"down", "refuse", "renumber", "baseline", "migrate", "ready", "durable"}
SchProcess == [stage : SchStages, read : Nat, full : BOOLEAN, poisoned : BOOLEAN]

\* What a process at a stage relies on: nothing else writes while it holds the lock.
SchAtStage(p, db) ==
  /\ p.stage \notin {"down", "refuse"} => db.stamp <= SchTop
  /\ p.stage = "baseline" => SchEarly(db) \/ SchNumbered(db)
  /\ p.stage = "migrate" => SchNumbered(db) /\ p.read = db.stamp
  /\ p.stage \in {"ready", "durable"} => SchNumbered(db) /\ db.stamp = SchTop
  /\ p.stage = "durable" => p.full

SchAlone == /\ schLock = {p \in SchProcs : schProc[p].stage # "down"}
            /\ \A p, q \in schLock : p = q

SchInv ==
  /\ SchGood(schDb) /\ SchGood(schSafe) /\ schProc \in [SchProcs -> SchProcess]
  /\ SchAlone
  /\ \A p \in SchProcs : SchAtStage(schProc[p], schDb)
  /\ ~schStuck
  /\ schOrigin.stamp > SchTop => schDb = schOrigin /\ schSafe = schOrigin
  /\ schAcked \in Nat /\ schAcked <= schSafe.receipts /\ schSafe.receipts <= schDb.receipts

\* The numbers of the baseline's pieces are below those of the migrations.
LEMMA SchPiecesBelow == SchPieces \subseteq Int /\ \A n \in SchPieces : n < 0
  BY SchAssumption DEF SchPieces

\* All of them are integers.
LEMMA SchEffectsInt == \A v \in Int : SchEffects(v) \subseteq Int
<1> SUFFICES ASSUME NEW v \in Int PROVE SchEffects(v) \subseteq Int  OBVIOUS
<1>1. (SchBaseline + 1)..v \subseteq Int  BY SchAssumption
<1> QED BY <1>1, SchPiecesBelow DEF SchEffects

\* The databases a daemon can find are well-formed.
LEMMA SchOriginGood == \A db \in SchOrigins : SchGood(db) /\ db.receipts = 0
<1> SUFFICES ASSUME NEW db \in SchOrigins PROVE SchGood(db) /\ db.receipts = 0  OBVIOUS
<1>1. CASE \E some \in SUBSET SchPieces : db = SchDb(0, some)
  <2>1. PICK some \in SUBSET SchPieces : db = SchDb(0, some)  BY <1>1
  <2>2. db.stamp = 0 /\ db.effects = some /\ db.receipts = 0 /\ some \in SUBSET Int
    BY <2>1, SchPiecesBelow DEF SchDb
  <2>3. db \in [stamp : Nat, effects : SUBSET Int, receipts : Nat]
    BY <2>1, <2>2 DEF SchDb
  <2> QED BY <2>2, <2>3 DEF SchGood, SchEarly
<1>2. CASE \E v \in SchBaseline..(SchTop + 1) : db = SchReleased(v)
  <2>1. PICK v \in SchBaseline..(SchTop + 1) : db = SchReleased(v)  BY <1>2
  <2>2. v \in Nat  BY SchAssumption
  <2>3. db = [stamp |-> v, effects |-> SchEffects(v), receipts |-> 0]
    BY <2>1 DEF SchReleased, SchDb, SchEffects
  <2>4. db \in [stamp : Nat, effects : SUBSET Int, receipts : Nat]
    <3>1. SchEffects(v) \in SUBSET Int  BY <2>2, SchEffectsInt
    <3> QED BY <2>2, <2>3, <3>1
  <2> QED BY <2>1, <2>2, <2>3, <2>4 DEF SchGood, SchNumbered
<1>3. CASE \E k \in SchBoot..(SchTop - 1) : db = SchPreview(k)
  <2>1. PICK k \in SchBoot..(SchTop - 1) : db = SchPreview(k)  BY <1>3
  <2>2. k \in Nat /\ SchEffects(k + 1) \subseteq Int
    <3>1. k \in Nat /\ k + 1 \in Int  BY SchAssumption
    <3> QED BY <3>1, SchEffectsInt
  <2>3. db.effects = SchEffects(k + 1) \ {SchBoot} /\ db.stamp = k /\ db.receipts = 0
    <3>1. SchBoot \notin SchPieces  BY SchAssumption, SchPiecesBelow
    <3> QED BY <2>1, <3>1 DEF SchPreview, SchDb, SchEffects
  <2> QED BY <2>1, <2>2, <2>3 DEF SchPreview, SchDb, SchGood, SchPreviewed
<1> QED BY <1>1, <1>2, <1>3, SchAssumption DEF SchOrigins

\* Before the first process opens it, the database is as it was found.
LEMMA SchInitInv == SchInit => SchInv
<1> SUFFICES ASSUME SchInit PROVE SchInv  OBVIOUS
<1>1. SchGood(schDb) /\ SchGood(schSafe) /\ schDb.receipts = 0 /\ schSafe = schDb
  BY SchOriginGood DEF SchInit
<1>2. schProc \in [SchProcs -> SchProcess] /\ \A p \in SchProcs : schProc[p].stage = "down"
  BY DEF SchInit, SchProcess, SchStages, SchDown
<1>3. SchAlone  BY <1>2 DEF SchAlone, SchInit
<1>4. \A p \in SchProcs : SchAtStage(schProc[p], schDb)  BY <1>2 DEF SchAtStage
<1> QED BY <1>1, <1>2, <1>3, <1>4 DEF SchInit, SchInv

\* A process that holds the lock is the only one that is up.
LEMMA SchOthersDown ==
  ASSUME SchInv, NEW p \in SchProcs, schProc[p].stage # "down"
  PROVE  \A q \in SchProcs \ {p} : schProc[q].stage = "down"
  BY DEF SchInv, SchAlone

\* What a step of the one process that is up must keep: its own stage's facts
\* and a well-formed database that only moves forward.
LEMMA SchKeeps ==
  ASSUME SchInv, NEW p \in SchProcs, schProc[p].stage # "down", NEW r \in SchProcess,
         schProc' = [schProc EXCEPT ![p] = r],
         schLock' = IF r.stage = "down" THEN schLock \ {p} ELSE schLock,
         SchGood(schDb'), SchGood(schSafe'), SchAtStage(r, schDb'), ~schStuck',
         schOrigin' = schOrigin,
         schOrigin.stamp > SchTop => schDb' = schDb /\ schSafe' = schSafe,
         schAcked' \in Nat, schAcked' <= schSafe'.receipts,
         schSafe'.receipts <= schDb'.receipts
  PROVE  SchInv'
<1>1. schProc \in [SchProcs -> SchProcess]  BY DEF SchInv
<1>2. schProc' \in [SchProcs -> SchProcess] /\ schProc'[p] = r
      /\ \A q \in SchProcs \ {p} : schProc'[q] = schProc[q]
  BY <1>1
<1>3. \A q \in SchProcs \ {p} : schProc[q].stage = "down"  BY SchOthersDown
<1>4. schLock = {p}  BY <1>3 DEF SchInv, SchAlone
<1>5. SchAlone'  BY <1>2, <1>3, <1>4 DEF SchAlone
<1>6. \A q \in SchProcs : SchAtStage(schProc[q], schDb)'
  <2>1. \A q \in SchProcs \ {p} : schProc'[q].stage = "down"  BY <1>2, <1>3
  <2> QED BY <1>2, <2>1 DEF SchAtStage
<1> QED BY <1>2, <1>5, <1>6 DEF SchInv

\* A commit under synchronous=NORMAL (SchCommits) by the process that is up,
\* which refuse_newer_schema has let through, counts no receipt.
LEMMA SchWrites ==
  ASSUME SchInv, NEW p \in SchProcs, schProc[p].stage \notin {"down", "refuse"},
         NEW r \in SchProcess, r.stage # "down", schProc' = [schProc EXCEPT ![p] = r],
         NEW d, SchGood(d), SchAtStage(r, d), d.receipts = schDb.receipts,
         SchCommits(d), UNCHANGED <<schLock, schStuck>>, SchQuiet
  PROVE  SchInv'
<1>1. schDb' = d /\ schSafe' \in {schSafe, d}  BY DEF SchCommits
<1>2. schDb.stamp \in Nat /\ schDb.stamp <= SchTop  BY DEF SchInv, SchAtStage, SchGood
<1>3. ~(schOrigin.stamp > SchTop)  BY <1>2, SchAssumption DEF SchInv
<1>4. schAcked' = schAcked  BY DEF SchQuiet
<1>5. schAcked \in Nat /\ schAcked <= schSafe.receipts /\ schSafe.receipts <= schDb.receipts
      /\ schSafe.receipts \in Nat /\ schDb.receipts \in Nat /\ SchGood(schSafe)
  BY DEF SchInv, SchGood
<1>6. /\ schAcked' \in Nat /\ schAcked' <= schSafe'.receipts
      /\ schSafe'.receipts <= schDb'.receipts /\ SchGood(schSafe')
  BY <1>1, <1>4, <1>5
<1> QED BY <1>1, <1>3, <1>6, SchKeeps DEF SchQuiet, SchInv

\* Taking the lock (try_lock_exclusive) makes a process the only one up.
LEMMA SchTakeLockInv ==
  ASSUME SchInv, NEW p \in SchProcs, SchTakeLock(p)  PROVE SchInv'
<1>1. schProc \in [SchProcs -> SchProcess] /\ schProc[p] \in SchProcess  BY DEF SchInv
<1>2. /\ schProc' \in [SchProcs -> SchProcess] /\ schProc'[p].stage = "refuse"
      /\ \A q \in SchProcs \ {p} : schProc'[q] = schProc[q]
  BY <1>1 DEF SchTakeLock, SchGoes, SchProcess, SchStages
<1>3. schLock = {} /\ schLock' = {p} /\ \A q \in SchProcs : schProc[q].stage = "down"
  BY DEF SchTakeLock, SchLockFree, SchInv, SchAlone
<1>4. SchAlone'  BY <1>2, <1>3 DEF SchAlone
<1>5. \A q \in SchProcs : SchAtStage(schProc[q], schDb)'
  BY <1>2, <1>3 DEF SchAtStage
<1> QED BY <1>2, <1>4, <1>5 DEF SchInv, SchTakeLock, SchQuiet

\* refuse_newer_schema lets only a supported stamp through.
LEMMA SchRefuseInv ==
  ASSUME SchInv, NEW p \in SchProcs, SchRefuse(p)  PROVE SchInv'
<1>1. schProc[p] \in SchProcess /\ schProc[p].stage = "refuse" /\ schDb.stamp \in Nat
  BY DEF SchInv, SchRefuse, SchGood
<1>2. CASE schDb.stamp > SchTop
  <2>1. SchDown \in SchProcess /\ SchAtStage(SchDown, schDb)
    BY DEF SchProcess, SchStages, SchDown, SchAtStage
  <2> QED BY <1>1, <1>2, <2>1, SchKeeps DEF SchRefuse, SchExits, SchQuiet, SchInv, SchDown
<1>3. CASE schDb.stamp <= SchTop
  <2>1. PICK r : r = [schProc[p] EXCEPT !.stage = "renumber"]  OBVIOUS
  <2>2. r \in SchProcess /\ r.stage = "renumber"  BY <1>1, <2>1 DEF SchProcess, SchStages
  <2>3. SchAtStage(r, schDb)  BY <1>3, <2>2 DEF SchAtStage
  <2>4. schProc' = [schProc EXCEPT ![p] = r] /\ UNCHANGED schLock
    BY <1>1, <1>3, <2>1, SchAssumption DEF SchRefuse, SchGoes, SchInv
  <2> QED BY <1>1, <2>2, <2>3, <2>4, SchKeeps DEF SchRefuse, SchQuiet, SchInv
<1> QED BY <1>1, <1>2, <1>3, SchAssumption

\* renumber_preview_job_schema turns a preview's database into a released one,
\* and leaves every other alone.
LEMMA SchRenumberInv ==
  ASSUME SchInv, NEW p \in SchProcs, SchRenumber(p)  PROVE SchInv'
<1>1. /\ schProc[p] \in SchProcess /\ schProc[p].stage = "renumber"
      /\ schDb.stamp \in Nat /\ schDb.stamp <= SchTop
  BY DEF SchInv, SchRenumber, SchGood, SchAtStage
<1>2. PICK r : r = [schProc[p] EXCEPT !.stage = "baseline"]  OBVIOUS
<1>3. r \in SchProcess /\ r.stage = "baseline"  BY <1>1, <1>2 DEF SchProcess, SchStages
<1>4. schProc' = [schProc EXCEPT ![p] = r]  BY <1>1, <1>2 DEF SchRenumber, SchGoes, SchInv
<1>5. CASE SchIsPreview(schDb)
  <2>1. SchPreviewed(schDb)
    <3>1. ~SchEarly(schDb)  BY <1>5, SchAssumption DEF SchIsPreview, SchEarly
    <3>2. ~SchNumbered(schDb)
      BY <1>5, SchAssumption DEF SchIsPreview, SchNumbered, SchEffects
    <3> QED BY <3>1, <3>2 DEF SchInv, SchGood
  <2>2. PICK d : d = [schDb EXCEPT !.stamp = @ + 1, !.effects = @ \cup {SchBoot}]  OBVIOUS
  <2>3. /\ d \in [stamp : Nat, effects : SUBSET Int, receipts : Nat]
        /\ d.stamp = schDb.stamp + 1 /\ d.effects = schDb.effects \cup {SchBoot}
        /\ d.receipts = schDb.receipts
    <3>1. schDb \in [stamp : Nat, effects : SUBSET Int, receipts : Nat]  BY DEF SchInv, SchGood
    <3>2. schDb.effects \cup {SchBoot} \in SUBSET Int  BY <3>1, SchAssumption
    <3>3. schDb.stamp + 1 \in Nat  BY <3>1
    <3> QED BY <2>2, <3>1, <3>2, <3>3
  <2>4. d.effects = SchEffects(d.stamp) /\ d.stamp \in SchBaseline..SchTop
    <3>1. schDb.stamp \in SchBoot..(SchTop - 1)
          /\ schDb.effects = SchEffects(schDb.stamp + 1) \ {SchBoot}
      BY <2>1 DEF SchPreviewed
    <3>2. SchBoot \in SchEffects(schDb.stamp + 1)
      BY <3>1, SchAssumption DEF SchEffects
    <3>3. d.effects = SchEffects(schDb.stamp + 1)  BY <2>3, <3>1, <3>2
    <3> QED BY <2>3, <3>1, <3>3, SchAssumption
  <2>5. SchGood(d) /\ SchNumbered(d)  BY <2>3, <2>4, SchAssumption DEF SchGood, SchNumbered
  <2>6. SchAtStage(r, d)  BY <1>3, <2>4, <2>5, SchAssumption DEF SchAtStage
  <2>7. SchCommits(d) /\ UNCHANGED <<schLock, schStuck>> /\ SchQuiet
    BY <1>5, <2>2 DEF SchRenumber
  <2> QED BY <1>1, <1>3, <1>4, <2>3, <2>5, <2>6, <2>7, SchWrites
<1>6. CASE ~SchIsPreview(schDb)
  <2>1. ~SchPreviewed(schDb)
    BY <1>6, SchAssumption, SchPiecesBelow DEF SchIsPreview, SchPreviewed, SchEffects
  <2>2. SchAtStage(r, schDb)  BY <1>1, <1>3, <2>1 DEF SchAtStage, SchInv, SchGood
  <2>3. UNCHANGED <<schDb, schSafe, schLock, schStuck, schOrigin, schAcked>>
    BY <1>6 DEF SchRenumber, SchQuiet
  <2> QED BY <1>1, <1>3, <1>4, <2>2, <2>3, SchKeeps DEF SchInv
<1> QED BY <1>5, <1>6


\* A statement of the baseline block (add_column, CREATE TABLE IF NOT EXISTS)
\* only meets a database without a stamp.
LEMMA SchRepairInv ==
  ASSUME SchInv, NEW p \in SchProcs, NEW piece \in SchPieces, SchRepair(p, piece)  PROVE SchInv'
<1>1. /\ schProc[p] \in SchProcess /\ schProc[p].stage = "baseline"
      /\ schProc \in [SchProcs -> SchProcess]
  BY DEF SchInv, SchRepair
<1>2. PICK d : d = [schDb EXCEPT !.effects = @ \cup {piece}]  OBVIOUS
<1>3. /\ d \in [stamp : Nat, effects : SUBSET Int, receipts : Nat]
      /\ d.stamp = schDb.stamp /\ d.effects = schDb.effects \cup {piece}
      /\ d.receipts = schDb.receipts
  BY <1>2, SchPiecesBelow DEF SchInv, SchGood
<1>4. SchEarly(schDb)
  <2>1. SchEarly(schDb) \/ SchNumbered(schDb)  BY <1>1 DEF SchInv, SchAtStage
  <2>2. piece \notin schDb.effects  BY DEF SchRepair
  <2> QED BY <2>1, <2>2 DEF SchNumbered, SchEffects
<1>5. SchEarly(d)  BY <1>3, <1>4 DEF SchEarly
<1>6. SchGood(d) /\ SchAtStage(schProc[p], d)
  BY <1>1, <1>3, <1>5, SchAssumption DEF SchGood, SchAtStage, SchEarly
<1>7. schProc' = [schProc EXCEPT ![p] = schProc[p]]  BY <1>1 DEF SchRepair
<1>8. SchCommits(d) /\ UNCHANGED <<schLock, schStuck>> /\ SchQuiet  BY <1>2 DEF SchRepair
<1> QED BY <1>1, <1>3, <1>6, <1>7, <1>8, SchWrites

\* The first stamp stands for the whole baseline; the version is read with it.
LEMMA SchStampInv ==
  ASSUME SchInv, NEW p \in SchProcs, SchStamp(p)  PROVE SchInv'
<1>1. /\ schProc[p] \in SchProcess /\ schProc[p].stage = "baseline"
      /\ schProc \in [SchProcs -> SchProcess] /\ schDb.stamp \in Nat /\ schDb.stamp <= SchTop
      /\ SchEarly(schDb) \/ SchNumbered(schDb)
      /\ SchGood(schDb) /\ SchPieces \subseteq schDb.effects
  BY DEF SchInv, SchStamp, SchGood, SchAtStage
<1>2. PICK v : v = IF schDb.stamp < SchBaseline THEN SchBaseline ELSE schDb.stamp  OBVIOUS
<1>3. PICK r : r = [schProc[p] EXCEPT !.stage = "migrate", !.read = v]  OBVIOUS
<1>4. v \in Nat  BY <1>1, <1>2, SchAssumption
<1>5. r \in SchProcess /\ r.stage = "migrate" /\ r.read = v
  BY <1>1, <1>3, <1>4 DEF SchProcess, SchStages
<1>6. schProc' = [schProc EXCEPT ![p] = r]  BY <1>1, <1>2, <1>3 DEF SchStamp
<1>7. UNCHANGED <<schLock, schStuck>> /\ SchQuiet  BY DEF SchStamp
<1>8. CASE SchNumbered(schDb)
  <2>1. v = schDb.stamp  BY <1>2, <1>8, SchAssumption DEF SchNumbered
  <2>2. UNCHANGED <<schDb, schSafe>>  BY <1>2, <2>1 DEF SchStamp
  <2>3. SchAtStage(r, schDb)  BY <1>1, <1>5, <1>8, <2>1 DEF SchAtStage
  <2> QED BY <1>1, <1>5, <1>6, <1>7, <2>2, <2>3, SchKeeps DEF SchInv, SchQuiet
<1>9. CASE SchEarly(schDb)
  <2>1. v = SchBaseline /\ v # schDb.stamp
    BY <1>2, <1>9, SchAssumption DEF SchEarly
  <2>2. PICK d : d = [schDb EXCEPT !.stamp = v]  OBVIOUS
  <2>3. /\ d \in [stamp : Nat, effects : SUBSET Int, receipts : Nat]
        /\ d.stamp = v /\ d.effects = schDb.effects /\ d.receipts = schDb.receipts
    BY <1>1, <1>4, <2>2 DEF SchGood
  <2>4. d.effects = SchEffects(v)
    <3>1. (SchBaseline + 1)..v = {}  BY <2>1, SchAssumption
    <3> QED BY <1>1, <1>9, <2>3, <3>1 DEF SchEffects, SchEarly
  <2>5. SchNumbered(d)  BY <2>1, <2>3, <2>4, SchAssumption DEF SchNumbered
  <2>6. SchGood(d) /\ SchAtStage(r, d)
    BY <1>5, <2>1, <2>3, <2>5, SchAssumption DEF SchGood, SchAtStage
  <2>7. SchCommits(d)  BY <1>2, <2>1, <2>2 DEF SchStamp
  <2> QED BY <1>1, <1>5, <1>6, <1>7, <2>3, <2>6, <2>7, SchWrites
<1> QED BY <1>1, <1>8, <1>9

\* apply_migrations never meets its own effect: the next number is not in a
\* database that has the migrations up to its stamp and no other.
LEMMA SchMigrateInv ==
  ASSUME SchInv, NEW p \in SchProcs, SchMigrate(p)  PROVE SchInv'
<1>1. /\ schProc[p] \in SchProcess /\ schProc[p].stage = "migrate"
      /\ schProc \in [SchProcs -> SchProcess] /\ schDb.stamp \in Nat
      /\ SchNumbered(schDb) /\ schProc[p].read = schDb.stamp
      /\ SchGood(schDb)
  BY DEF SchInv, SchMigrate, SchGood, SchAtStage
<1>2. PICK n : n = schProc[p].read + 1  OBVIOUS
<1>3. n = schDb.stamp + 1 /\ n \in Nat /\ n <= SchTop  BY <1>1, <1>2 DEF SchMigrate
<1>4. n \notin schDb.effects
  BY <1>1, <1>3, SchPiecesBelow DEF SchNumbered, SchEffects
<1>5. PICK d : d = [schDb EXCEPT !.stamp = n, !.effects = @ \cup {n}]  OBVIOUS
<1>6. /\ d \in [stamp : Nat, effects : SUBSET Int, receipts : Nat]
      /\ d.stamp = n /\ d.effects = schDb.effects \cup {n} /\ d.receipts = schDb.receipts
  <2>1. schDb \in [stamp : Nat, effects : SUBSET Int, receipts : Nat]  BY <1>1 DEF SchGood
  <2>2. schDb.effects \cup {n} \in SUBSET Int  BY <1>3, <2>1
  <2> QED BY <1>3, <1>5, <2>1, <2>2
<1>7. SchNumbered(d)
  <2>1. schDb.stamp \in SchBaseline..(SchTop + 1) /\ schDb.effects = SchEffects(schDb.stamp)
    BY <1>1 DEF SchNumbered
  <2>2. SchEffects(n) = SchEffects(schDb.stamp) \cup {n}
    <3>1. (SchBaseline + 1)..n = (SchBaseline + 1)..schDb.stamp \cup {n}
      BY <1>3, <2>1, SchAssumption
    <3> QED BY <3>1 DEF SchEffects
  <2>3. n \in SchBaseline..(SchTop + 1)  BY <1>3, <2>1, SchAssumption
  <2> QED BY <1>6, <2>1, <2>2, <2>3 DEF SchNumbered
<1>8. PICK r : r = [schProc[p] EXCEPT !.read = n]  OBVIOUS
<1>9. r \in SchProcess /\ r.stage = "migrate" /\ r.read = n
  BY <1>1, <1>3, <1>8 DEF SchProcess
<1>10. SchGood(d) /\ SchAtStage(r, d)
  BY <1>3, <1>6, <1>7, <1>9 DEF SchGood, SchAtStage
<1>11. SchCommits(d) /\ schProc' = [schProc EXCEPT ![p] = r] /\ UNCHANGED <<schLock, schStuck>>
       /\ SchQuiet
  BY <1>1, <1>2, <1>4, <1>5, <1>8 DEF SchMigrate
<1> QED BY <1>1, <1>6, <1>9, <1>10, <1>11, SchWrites

\* A step that only moves the process on, to a stage whose facts hold already.
LEMMA SchMovesOn ==
  ASSUME SchInv, NEW p \in SchProcs, schProc[p].stage # "down", NEW r \in SchProcess,
         r.stage # "down", SchAtStage(r, schDb), schProc' = [schProc EXCEPT ![p] = r],
         UNCHANGED <<schDb, schSafe, schLock, schStuck>>, SchQuiet
  PROVE  SchInv'
  BY SchKeeps DEF SchInv, SchQuiet

\* A daemon whose last migration is stamped serves.
LEMMA SchReadyInv ==
  ASSUME SchInv, NEW p \in SchProcs, SchReady(p)  PROVE SchInv'
<1>1. /\ schProc[p] \in SchProcess /\ schProc[p].stage = "migrate" /\ schDb.stamp \in Nat
      /\ SchNumbered(schDb) /\ schProc[p].read = schDb.stamp /\ schDb.stamp <= SchTop
      /\ schProc[p].read >= SchTop
  BY DEF SchInv, SchReady, SchGood, SchAtStage
<1>2. PICK r : r = [schProc[p] EXCEPT !.stage = "ready"]  OBVIOUS
<1>3. r \in SchProcess /\ r.stage = "ready"  BY <1>1, <1>2 DEF SchProcess, SchStages
<1>4. schDb.stamp = SchTop  BY <1>1, SchAssumption
<1>5. SchAtStage(r, schDb)  BY <1>1, <1>3, <1>4, SchAssumption DEF SchAtStage
<1>6. schProc' = [schProc EXCEPT ![p] = r]  BY <1>1, <1>2 DEF SchReady, SchGoes, SchInv
<1> QED BY <1>1, <1>3, <1>5, <1>6, SchMovesOn DEF SchReady

\* DurableConn::new switches the connection to FULL before it is used.
LEMMA SchBorrowInv ==
  ASSUME SchInv, NEW p \in SchProcs, SchBorrow(p)  PROVE SchInv'
<1>1. /\ schProc[p] \in SchProcess /\ schProc[p].stage = "ready"
      /\ SchAtStage(schProc[p], schDb) /\ schProc \in [SchProcs -> SchProcess]
  BY DEF SchInv, SchBorrow
<1>2. PICK r : r = [schProc[p] EXCEPT !.stage = "durable", !.full = TRUE, !.poisoned = FALSE]
  OBVIOUS
<1>3. r \in SchProcess /\ r.stage = "durable" /\ r.full
  BY <1>1, <1>2 DEF SchProcess, SchStages
<1>5. SchAtStage(r, schDb)  BY <1>1, <1>3 DEF SchAtStage
<1>6. schProc' = [schProc EXCEPT ![p] = r]  BY <1>1, <1>2 DEF SchBorrow
<1> QED BY <1>1, <1>3, <1>5, <1>6, SchMovesOn DEF SchBorrow

\* Dropping the durable connection returns it, or poisons it.
LEMMA SchReturnInv ==
  ASSUME SchInv, NEW p \in SchProcs, NEW ok \in BOOLEAN, SchReturn(p, ok)  PROVE SchInv'
<1>1. /\ schProc[p] \in SchProcess /\ schProc[p].stage = "durable"
      /\ SchAtStage(schProc[p], schDb) /\ schProc \in [SchProcs -> SchProcess]
  BY DEF SchInv, SchReturn
<1>2. PICK r : r = [schProc[p] EXCEPT !.stage = "ready", !.full = FALSE, !.poisoned = ~ok]
  OBVIOUS
<1>3. r \in SchProcess /\ r.stage = "ready"
  BY <1>1, <1>2 DEF SchProcess, SchStages
<1>5. SchAtStage(r, schDb)  BY <1>1, <1>3 DEF SchAtStage
<1>6. schProc' = [schProc EXCEPT ![p] = r]  BY <1>1, <1>2 DEF SchReturn
<1> QED BY <1>1, <1>3, <1>5, <1>6, SchMovesOn DEF SchReturn

\* A receipt is on the disk, with every commit before it, when it is acknowledged.
LEMMA SchReceiptInv ==
  ASSUME SchInv, NEW p \in SchProcs, SchReceipt(p)  PROVE SchInv'
<1>1. /\ schProc[p] \in SchProcess /\ schProc[p].stage = "durable" /\ schProc[p].full
      /\ SchAtStage(schProc[p], schDb) /\ schProc \in [SchProcs -> SchProcess]
      /\ SchGood(schDb) /\ schDb.stamp \in Nat /\ schDb.stamp <= SchTop
      /\ SchNumbered(schDb)
  BY DEF SchInv, SchReceipt, SchAtStage, SchGood
<1>2. PICK d : d = [schDb EXCEPT !.receipts = @ + 1]  OBVIOUS
<1>3. /\ d \in [stamp : Nat, effects : SUBSET Int, receipts : Nat]
      /\ d.stamp = schDb.stamp /\ d.effects = schDb.effects /\ d.receipts = schDb.receipts + 1
  BY <1>1, <1>2 DEF SchGood
<1>4. SchGood(d) /\ SchAtStage(schProc[p], d)
  BY <1>1, <1>3 DEF SchGood, SchAtStage, SchNumbered
<1>5. schDb' = d /\ schSafe' = d /\ schAcked' = schAcked + 1
      /\ UNCHANGED <<schProc, schLock, schOrigin, schStuck>>
  BY <1>1, <1>2 DEF SchReceipt
<1>6. ~(schOrigin.stamp > SchTop)  BY <1>1, SchAssumption DEF SchInv
<1>7. schAcked' \in Nat /\ schAcked' <= d.receipts /\ d.receipts <= d.receipts
  <2>1. schAcked \in Nat /\ schAcked <= schSafe.receipts /\ schSafe.receipts <= schDb.receipts
        /\ schSafe.receipts \in Nat /\ schDb.receipts \in Nat
    BY DEF SchInv, SchGood
  <2> QED BY <2>1, <1>3, <1>5
<1>8. schProc' = [schProc EXCEPT ![p] = schProc[p]]  BY <1>1, <1>5
<1> QED BY <1>1, <1>4, <1>5, <1>6, <1>7, <1>8, SchKeeps DEF SchInv

\* A process that dies gives its lock back and leaves the database as it is.
LEMMA SchDiesInv ==
  ASSUME SchInv, NEW p \in SchProcs, SchDies(p)  PROVE SchInv'
<1>1. SchDown \in SchProcess /\ SchAtStage(SchDown, schDb) /\ SchDown.stage = "down"
  BY DEF SchProcess, SchStages, SchDown, SchAtStage
<1> QED BY <1>1, SchKeeps DEF SchDies, SchExits, SchInv

\* A power loss leaves what was synchronised, which has one of the forms too.
LEMMA SchPowerLossInv ==
  ASSUME SchInv, SchPowerLoss  PROVE SchInv'
<1>1. schProc' \in [SchProcs -> SchProcess] /\ \A p \in SchProcs : schProc'[p].stage = "down"
  BY DEF SchPowerLoss, SchProcess, SchStages, SchDown
<1>2. SchAlone'  BY <1>1 DEF SchAlone, SchPowerLoss
<1>3. \A p \in SchProcs : SchAtStage(schProc[p], schDb)'  BY <1>1 DEF SchAtStage
<1>4. schSafe.receipts \in Nat  BY DEF SchInv, SchGood
<1> QED BY <1>1, <1>2, <1>3, <1>4 DEF SchInv, SchPowerLoss

\* Every step keeps the invariant.
LEMMA SchStep == ASSUME SchInv, [SchNext]_schVars PROVE SchInv'
<1>1. CASE UNCHANGED schVars
  BY <1>1 DEF schVars, SchInv, SchAlone
<1>2. CASE SchNext
  BY <1>2, SchTakeLockInv, SchRefuseInv, SchRenumberInv, SchStampInv, SchMigrateInv, SchReadyInv,
     SchBorrowInv, SchReceiptInv, SchDiesInv, SchRepairInv, SchReturnInv, SchPowerLossInv
  DEF SchNext
<1> QED BY <1>1, <1>2

\* The invariant says what SchSound promises.
LEMMA SchInvSound == SchInv => SchSound
<1> SUFFICES ASSUME SchInv PROVE SchSound  OBVIOUS
<1>1. ASSUME NEW p \in SchProcs, schProc[p].stage \in {"ready", "durable"}
      PROVE  /\ schDb.stamp = SchTop
             /\ (SchBaseline + 1)..SchTop \cup SchPieces \subseteq schDb.effects
  BY <1>1 DEF SchInv, SchAtStage, SchNumbered, SchEffects
<1> QED BY <1>1 DEF SchInv, SchSound

-----------------------------------------------------------------------------
(* Named volumes, snapshots, pools and secrets. *)

StoCloneOps == {"insert snapshot", "unlink clone"}
StoSnapOps == StoCloneOps \cup {"unlink snapshot", "delete snapshot"}
StoKeyOps == {"new key", "write key", "seal"}
StoPoolOps == StoVmOps \cup {"warm", "insert pool"}
StoTasks == [op : {"none"} \cup StoVolumeOps \cup StoSnapOps \cup StoKeyOps \cup StoPoolOps,
             id : Nat]

StoVolumes == [row : Nat, file : {"none", "blank", "whole"}, holders : SUBSET Nat]
StoSnaps == [row : Nat, file : Nat, doomed : SUBSET Nat]
StoSecrets == [key : Int, rows : SUBSET Int]
StoPools == [row : Nat, template : Nat, state : {"none", "running", "suspended", "stopped"},
             files : BOOLEAN]

StoTypeOK ==
  /\ stoTask \in [StoCallers -> StoTasks] /\ stoFresh \in Nat \ {0}
  /\ stoVolume \in StoVolumes /\ stoSnap \in StoSnaps
  /\ stoSecret \in StoSecrets /\ stoPool \in StoPools

\* The volume's lock: one request at a time, and what each step of it relies on.
StoVolumeInv ==
  /\ \A c, d \in StoCallers : stoTask[c].op \in StoVolumeOps /\ stoTask[d].op \in StoVolumeOps
       => c = d
  /\ \A c \in StoCallers :
       /\ stoTask[c].op \in {"format", "insert volume", "unlink volume"} => stoVolume.row = 0
       /\ stoTask[c].op = "insert volume" => stoVolume.file = "whole"
       /\ stoTask[c].op = "boot" => stoVolume.row # 0
  /\ stoVolume.row # 0 => stoVolume.file = "whole"
  /\ stoVolume.holders # {} => stoVolume.row # 0

\* Without a lock on the name, ids tell the clones apart: nobody deletes a
\* clone that has no row yet, and until something is torn its file is there.
StoSnapInv ==
  /\ stoSnap.row < stoFresh /\ stoSnap.file < stoFresh
  /\ \A i \in stoSnap.doomed : i < stoFresh
  /\ \A c \in StoCallers : stoTask[c].op \in StoSnapOps =>
       0 < stoTask[c].id /\ stoTask[c].id < stoFresh
  /\ \A c \in StoCallers : stoTask[c].op \in StoCloneOps =>
       /\ stoTask[c].id # stoSnap.row /\ stoTask[c].id \notin stoSnap.doomed
       /\ "snapshot" \notin stoTorn => stoSnap.file = stoTask[c].id
       /\ \A d \in StoCallers \ {c} : stoTask[d].op \in StoSnapOps =>
            stoTask[d].id # stoTask[c].id
  /\ stoSnap.row \notin stoSnap.doomed \union {0} /\ "snapshot" \notin stoTorn =>
       stoSnap.file = stoSnap.row

\* One request writes the key file, and what is sealed is sealed with it.
StoSecretInv ==
  /\ \A c \in StoCallers :
       /\ stoTask[c].op = "seal" => stoTask[c].id = stoSecret.key /\ stoSecret.key > 0
       /\ stoTask[c].op = "write key" => stoSecret.key = StoShortKey /\ stoTask[c].id > 0
  /\ \A c, d \in StoCallers : stoTask[c].op = "write key" /\ stoTask[d].op = "write key" => c = d
  /\ stoSecret.rows \subseteq {stoSecret.key}
  /\ stoSecret.rows # {} => stoSecret.key > 0
  /\ stoSecret.key \in {StoNoKey, StoShortKey} \/ stoSecret.key > 0

\* The triggers keep an owned template as it was inserted; its files are there
\* unless a removal is under way.
StoPoolInv ==
  /\ stoPool.row # 0 => stoPool.template = stoPool.row /\ stoPool.state = "suspended"
  /\ stoPool.template # 0 /\ "template" \notin stoTorn => stoPool.files

StoInv == StoTypeOK /\ StoVolumeInv /\ StoSnapInv /\ StoSecretInv /\ StoPoolInv

\* Nothing is stored at first.
LEMMA StoInitInv == StoInit => StoInv
<1> SUFFICES ASSUME StoInit PROVE StoInv  OBVIOUS
<1>1. stoTask \in [StoCallers -> StoTasks] /\ \A c \in StoCallers : stoTask[c].op = "none"
  BY DEF StoInit, StoTasks, StoIdle
<1>2. StoTypeOK
  BY <1>1 DEF StoInit, StoTypeOK, StoVolumes, StoSnaps, StoSecrets, StoPools
<1>3. StoVolumeInv  BY <1>1 DEF StoInit, StoVolumeInv, StoVolumeOps
<1>4. StoSnapInv
  <2>1. stoSnap.row = 0 /\ stoSnap.file = 0 /\ stoSnap.doomed = {} /\ stoFresh = 1
    BY DEF StoInit
  <2>2. "none" \notin StoSnapOps /\ "none" \notin StoCloneOps  BY DEF StoSnapOps, StoCloneOps
  <2> QED BY <1>1, <2>1, <2>2 DEF StoSnapInv
<1>5. StoSecretInv  BY <1>1 DEF StoInit, StoSecretInv, StoNoKey
<1>6. StoPoolInv  BY DEF StoInit, StoPoolInv
<1> QED BY <1>2, <1>3, <1>4, <1>5, <1>6 DEF StoInv

\* A request about something else leaves a volume's facts alone,
LEMMA StoVolumeRests ==
  ASSUME StoInv, NEW c \in StoCallers, NEW t, stoTask' = [stoTask EXCEPT ![c] = t],
         stoTask[c].op \notin StoVolumeOps, t.op \notin StoVolumeOps, UNCHANGED stoVolume
  PROVE  StoVolumeInv'
  BY DEF StoInv, StoTypeOK, StoVolumeInv, StoVolumeOps

\* ... a snapshot's,
LEMMA StoSnapRests ==
  ASSUME StoInv, NEW c \in StoCallers, NEW t, stoTask' = [stoTask EXCEPT ![c] = t],
         stoTask[c].op \notin StoSnapOps, t.op \notin StoSnapOps, UNCHANGED stoSnap,
         "snapshot" \in stoTorn' <=> "snapshot" \in stoTorn,
         stoFresh' \in {stoFresh, stoFresh + 1}
  PROVE  StoSnapInv'
<1>1. stoTask \in [StoCallers -> StoTasks] /\ stoFresh \in Nat /\ stoSnap \in StoSnaps
  BY DEF StoInv, StoTypeOK
<1>2. stoTask'[c] = t /\ \A d \in StoCallers \ {c} : stoTask'[d] = stoTask[d]  BY <1>1
<1>3. stoSnap.row \in Nat /\ stoSnap.file \in Nat /\ stoSnap.doomed \subseteq Nat
      /\ \A d \in StoCallers : stoTask[d].id \in Nat
  BY <1>1 DEF StoTasks, StoSnaps
<1>4. StoCloneOps \subseteq StoSnapOps  BY DEF StoSnapOps
<1>5. StoSnapInv  BY DEF StoInv
<1>6. \A n \in Nat : n < stoFresh => n < stoFresh'  BY <1>1
<1> QED BY <1>2, <1>3, <1>4, <1>5, <1>6 DEF StoSnapInv

\* ... the secrets',
LEMMA StoSecretRests ==
  ASSUME StoInv, NEW c \in StoCallers, NEW t, stoTask' = [stoTask EXCEPT ![c] = t],
         t.op \notin {"write key", "seal"}, UNCHANGED stoSecret
  PROVE  StoSecretInv'
  BY DEF StoInv, StoTypeOK, StoSecretInv

\* ... and a pool's.
LEMMA StoPoolRests ==
  ASSUME StoInv, UNCHANGED stoPool, "template" \in stoTorn' <=> "template" \in stoTorn
  PROVE  StoPoolInv'
  BY DEF StoInv, StoPoolInv

\* The tasks of the four kinds have different names.
LEMMA StoOpsApart ==
  /\ StoVolumeOps \cap (StoSnapOps \cup StoKeyOps \cup StoPoolOps \cup {"none"}) = {}
  /\ StoSnapOps \cap (StoVolumeOps \cup StoKeyOps \cup StoPoolOps \cup {"none"}) = {}
  /\ StoKeyOps \cap (StoVolumeOps \cup StoSnapOps \cup StoPoolOps \cup {"none"}) = {}
  BY DEF StoVolumeOps, StoSnapOps, StoCloneOps, StoKeyOps, StoPoolOps, StoVmOps

\* A step of a request about the volume: what is left to show.
LEMMA StoVolumeMoves ==
  ASSUME StoInv, NEW c \in StoCallers, NEW t \in StoTasks, stoTask' = [stoTask EXCEPT ![c] = t],
         stoTask[c].op \in StoVolumeOps \cup {"none"}, t.op \in StoVolumeOps \cup {"none"},
         stoFresh' \in {stoFresh, stoFresh + 1}, StoNotVolume,
         stoVolume' \in StoVolumes, StoVolumeInv'
  PROVE  StoInv'
<1>1. StoTypeOK'
  BY DEF StoInv, StoTypeOK, StoNotVolume
<1>2. StoSnapInv'  BY StoSnapRests, StoOpsApart DEF StoNotVolume
<1>3. StoSecretInv'  BY StoSecretRests, StoOpsApart DEF StoNotVolume, StoKeyOps
<1>4. StoPoolInv'  BY StoPoolRests DEF StoNotVolume
<1> QED BY <1>1, <1>2, <1>3, <1>4 DEF StoInv

\* The same for a snapshot,
LEMMA StoSnapMoves ==
  ASSUME StoInv, NEW c \in StoCallers, NEW t \in StoTasks, stoTask' = [stoTask EXCEPT ![c] = t],
         stoTask[c].op \in StoSnapOps \cup {"none"}, t.op \in StoSnapOps \cup {"none"},
         stoFresh' \in {stoFresh, stoFresh + 1}, StoNotSnap,
         "template" \in stoTorn' <=> "template" \in stoTorn,
         stoSnap' \in StoSnaps, StoSnapInv'
  PROVE  StoInv'
<1>1. StoTypeOK'
  BY DEF StoInv, StoTypeOK, StoNotSnap
<1>2. StoVolumeInv'  BY StoVolumeRests, StoOpsApart DEF StoNotSnap
<1>3. StoSecretInv'  BY StoSecretRests, StoOpsApart DEF StoNotSnap, StoKeyOps
<1>4. StoPoolInv'  BY StoPoolRests DEF StoNotSnap
<1> QED BY <1>1, <1>2, <1>3, <1>4 DEF StoInv

\* a secret
LEMMA StoSecretMoves ==
  ASSUME StoInv, NEW c \in StoCallers, NEW t \in StoTasks, stoTask' = [stoTask EXCEPT ![c] = t],
         stoTask[c].op \in StoKeyOps \cup {"none"}, t.op \in StoKeyOps \cup {"none"},
         stoFresh' \in {stoFresh, stoFresh + 1}, StoNotSecret,
         stoSecret' \in StoSecrets, StoSecretInv'
  PROVE  StoInv'
<1>1. StoTypeOK'
  BY DEF StoInv, StoTypeOK, StoNotSecret
<1>2. StoVolumeInv'  BY StoVolumeRests, StoOpsApart DEF StoNotSecret
<1>3. StoSnapInv'  BY StoSnapRests, StoOpsApart DEF StoNotSecret
<1>4. StoPoolInv'  BY StoPoolRests DEF StoNotSecret
<1> QED BY <1>1, <1>2, <1>3, <1>4 DEF StoInv

\* and a pool.
LEMMA StoPoolMoves ==
  ASSUME StoInv, NEW c \in StoCallers, NEW t \in StoTasks, stoTask' = [stoTask EXCEPT ![c] = t],
         stoTask[c].op \in StoPoolOps \cup {"none"}, t.op \in StoPoolOps \cup {"none"},
         stoFresh' \in {stoFresh, stoFresh + 1}, StoNotPool,
         "snapshot" \in stoTorn' <=> "snapshot" \in stoTorn,
         stoPool' \in StoPools, StoPoolInv'
  PROVE  StoInv'
<1>1. StoTypeOK'
  BY DEF StoInv, StoTypeOK, StoNotPool
<1>2. StoVolumeInv'  BY StoVolumeRests, StoOpsApart DEF StoNotPool
<1>3. StoSnapInv'  BY StoSnapRests, StoOpsApart DEF StoNotPool
<1>4. StoSecretInv'  BY StoSecretRests, StoOpsApart DEF StoNotPool, StoKeyOps
<1> QED BY <1>1, <1>2, <1>3, <1>4 DEF StoInv

\* The task record of a request.
LEMMA StoTaskTyped ==
  ASSUME StoTypeOK, NEW c \in StoCallers
  PROVE  /\ stoTask[c] \in StoTasks /\ stoTask[c].id \in Nat
         /\ StoIdle \in StoTasks /\ StoIdle.op = "none"
         /\ \A i \in Nat, op \in StoVolumeOps \cup StoSnapOps \cup StoKeyOps \cup StoPoolOps :
              StoTask(op, i) \in StoTasks /\ StoTask(op, i).op = op /\ StoTask(op, i).id = i
  BY DEF StoTypeOK, StoTasks, StoIdle, StoTask


-----------------------------------------------------------------------------
(* A volume. *)

\* While one request holds the volume's lock the others are elsewhere; its next
\* step keeps the volume's facts if its own hold.
LEMMA StoVolumeStep ==
  ASSUME StoInv, NEW c \in StoCallers, NEW t \in StoTasks, stoTask' = [stoTask EXCEPT ![c] = t],
         t.op \in StoVolumeOps \cup {"none"},
         stoTask[c].op \in StoVolumeOps \/ (stoTask[c].op = "none" /\ StoVolumeFree),
         stoFresh' \in {stoFresh, stoFresh + 1}, StoNotVolume,
         stoVolume' \in StoVolumes,
         t.op \in {"format", "insert volume", "unlink volume"} => stoVolume'.row = 0,
         t.op = "insert volume" => stoVolume'.file = "whole",
         t.op = "boot" => stoVolume'.row # 0,
         stoVolume'.row # 0 => stoVolume'.file = "whole",
         stoVolume'.holders # {} => stoVolume'.row # 0
  PROVE  StoInv'
<1>1. \A d \in StoCallers \ {c} : stoTask[d].op \notin StoVolumeOps
  BY DEF StoInv, StoVolumeInv, StoVolumeFree
<1>2. stoTask \in [StoCallers -> StoTasks]  BY DEF StoInv, StoTypeOK
<1>3. stoTask'[c] = t /\ \A d \in StoCallers \ {c} : stoTask'[d].op \notin StoVolumeOps
  BY <1>1, <1>2
<1>4. StoVolumeInv'  BY <1>3 DEF StoVolumeInv, StoVolumeOps
<1> QED BY <1>4, StoVolumeMoves

\* create_volume makes the image of a name that has no row.
LEMMA StoCreateVolumeInv ==
  ASSUME StoInv, NEW c \in StoCallers, StoCreateVolume(c)
  PROVE StoInv'
<1>1. stoTask[c] \in StoTasks /\ stoVolume \in StoVolumes /\ stoTask[c].op = "none"
      /\ StoVolumeFree /\ stoVolume.row = 0 /\ stoTask \in [StoCallers -> StoTasks]
      /\ (stoVolume.holders # {} => stoVolume.row # 0)
  BY DEF StoInv, StoTypeOK, StoCreateVolume, StoBegins, StoAt, StoVolumeInv
<1>2. stoFresh' = stoFresh /\ StoNotVolume  BY DEF StoCreateVolume
<1>3. CASE stoVolume.file = "none"
  <2>1. PICK t : t = StoTask("format", 0)  OBVIOUS
  <2>2. t \in StoTasks /\ t.op = "format"  BY <2>1 DEF StoTask, StoTasks, StoVolumeOps
  <2>3. stoTask' = [stoTask EXCEPT ![c] = t]  BY <1>3, <2>1 DEF StoCreateVolume, StoSets
  <2>4. stoVolume' \in StoVolumes /\ stoVolume'.row = 0 /\ stoVolume'.holders = stoVolume.holders
    BY <1>1, <1>3 DEF StoCreateVolume, StoVolumes
  <2> QED BY <1>1, <1>2, <2>2, <2>3, <2>4, StoVolumeStep DEF StoVolumeOps
<1>4. CASE stoVolume.file # "none"
  <2>1. stoVolume' = stoVolume /\ stoTask' = [stoTask EXCEPT ![c] = stoTask[c]]
    BY <1>1, <1>4 DEF StoCreateVolume
  <2> QED BY <1>1, <1>2, <2>1, StoVolumeStep
<1> QED BY <1>3, <1>4

\* mkfs fills the image, or the image goes.
LEMMA StoFormatInv ==
  ASSUME StoInv, NEW c \in StoCallers, NEW ok \in BOOLEAN, StoFormat(c, ok) PROVE StoInv'
<1>1. stoTask[c] \in StoTasks /\ stoVolume \in StoVolumes /\ stoTask[c].op = "format"
      /\ stoVolume.row = 0 /\ stoVolume.holders = {}
  BY DEF StoInv, StoTypeOK, StoFormat, StoAt, StoVolumeInv
<1>2. stoFresh' = stoFresh /\ StoNotVolume  BY DEF StoFormat
<1>3. PICK t : t = IF ok THEN StoTask("insert volume", 0) ELSE StoIdle  OBVIOUS
<1>4. t \in StoTasks /\ t.op = IF ok THEN "insert volume" ELSE "none"
  BY <1>3 DEF StoTask, StoTasks, StoVolumeOps, StoIdle
<1>5. stoTask' = [stoTask EXCEPT ![c] = t]  BY <1>3 DEF StoFormat, StoSets, StoEnds
<1>6. stoVolume' \in StoVolumes /\ stoVolume'.row = 0 /\ stoVolume'.holders = {}
      /\ stoVolume'.file = IF ok THEN "whole" ELSE "none"
  BY <1>1 DEF StoFormat, StoVolumes
<1>7. t.op \in StoVolumeOps \cup {"none"}
      /\ (stoTask[c].op \in StoVolumeOps \/ (stoTask[c].op = "none" /\ StoVolumeFree))
  BY <1>1, <1>4 DEF StoVolumeOps
<1> QED BY <1>1, <1>2, <1>4, <1>5, <1>6, <1>7, StoVolumeStep

\* The row of a formatted volume.
LEMMA StoInsertVolumeInv ==
  ASSUME StoInv, NEW c \in StoCallers, NEW ok \in BOOLEAN, StoInsertVolume(c, ok) PROVE StoInv'
<1>1. stoTask[c] \in StoTasks /\ stoVolume \in StoVolumes /\ stoTask[c].op = "insert volume"
      /\ stoVolume.row = 0 /\ stoVolume.holders = {} /\ stoVolume.file = "whole"
      /\ stoFresh \in Nat \ {0}
  BY DEF StoInv, StoTypeOK, StoInsertVolume, StoAt, StoVolumeInv
<1>2. stoFresh' \in {stoFresh, stoFresh + 1} /\ StoNotVolume
  BY DEF StoInsertVolume, StoTakesId
<1>4. StoIdle \in StoTasks /\ StoIdle.op = "none"  BY DEF StoTasks, StoIdle
<1>5. stoTask' = [stoTask EXCEPT ![c] = StoIdle]  BY DEF StoInsertVolume, StoEnds
<1>6. stoVolume' \in StoVolumes /\ stoVolume'.holders = {}
      /\ (stoVolume'.row # 0 => stoVolume'.file = "whole")
  BY <1>1 DEF StoInsertVolume, StoVolumes
<1>7. StoIdle.op \in StoVolumeOps \cup {"none"}
      /\ (stoTask[c].op \in StoVolumeOps \/ (stoTask[c].op = "none" /\ StoVolumeFree))
  BY <1>1, <1>4 DEF StoVolumeOps
<1> QED BY <1>1, <1>2, <1>4, <1>5, <1>6, <1>7, StoVolumeStep

\* A creation that attaches the volume (resolve_volume_attachment) holds its lock.
LEMMA StoAttachInv == ASSUME StoInv, NEW c \in StoCallers, StoAttach(c) PROVE StoInv'
<1>1. stoTask[c] \in StoTasks /\ stoVolume \in StoVolumes /\ stoTask[c].op = "none"
      /\ StoVolumeFree /\ stoVolume.row # 0 /\ stoFresh \in Nat \ {0}
      /\ stoVolume.file = "whole"
  BY DEF StoInv, StoTypeOK, StoAttach, StoBegins, StoAt, StoVolumeInv
<1>2. stoFresh' \in {stoFresh, stoFresh + 1} /\ StoNotVolume /\ stoVolume' = stoVolume
  BY DEF StoAttach, StoTakesId
<1>3. PICK t : t = StoTask("boot", stoFresh)  OBVIOUS
<1>4. t \in StoTasks /\ t.op = "boot"  BY <1>1, <1>3 DEF StoTask, StoTasks, StoVolumeOps
<1>5. stoTask' = [stoTask EXCEPT ![c] = t]  BY <1>3 DEF StoAttach, StoSets
<1>7. t.op \in StoVolumeOps \cup {"none"}
      /\ (stoTask[c].op \in StoVolumeOps \/ (stoTask[c].op = "none" /\ StoVolumeFree))
  BY <1>1, <1>4 DEF StoVolumeOps
<1> QED BY <1>1, <1>2, <1>4, <1>5, <1>7, StoVolumeStep

\* insert_vm_on makes the VM the volume's holder.
LEMMA StoCommitVmInv ==
  ASSUME StoInv, NEW c \in StoCallers, NEW ok \in BOOLEAN, StoCommitVm(c, ok) PROVE StoInv'
<1>1. stoTask[c] \in StoTasks /\ stoVolume \in StoVolumes /\ stoTask[c].op = "boot"
      /\ stoVolume.row # 0 /\ stoVolume.file = "whole" /\ stoTask[c].id \in Nat
  BY DEF StoInv, StoTypeOK, StoCommitVm, StoAt, StoVolumeInv, StoTasks
<1>2. stoFresh' = stoFresh /\ StoNotVolume  BY DEF StoCommitVm
<1>4. StoIdle \in StoTasks /\ StoIdle.op = "none"  BY DEF StoTasks, StoIdle
<1>5. stoTask' = [stoTask EXCEPT ![c] = StoIdle]  BY DEF StoCommitVm, StoEnds
<1>6. stoVolume' \in StoVolumes /\ stoVolume'.row = stoVolume.row /\ stoVolume'.file = "whole"
  <2>1. PICK i : i = stoTask[c].id  OBVIOUS
  <2>2. {i} \in SUBSET Nat  BY <1>1, <2>1
  <2>3. stoVolume' = stoVolume \/ stoVolume' = [stoVolume EXCEPT !.holders = {i}]
    BY <2>1 DEF StoCommitVm
  <2> QED BY <1>1, <2>2, <2>3 DEF StoVolumes
<1>7. StoIdle.op \in StoVolumeOps \cup {"none"}
      /\ (stoTask[c].op \in StoVolumeOps \/ (stoTask[c].op = "none" /\ StoVolumeFree))
  BY <1>1, <1>4 DEF StoVolumeOps
<1> QED BY <1>1, <1>2, <1>4, <1>5, <1>6, <1>7, StoVolumeStep

\* destroy_vm of a holder frees the volume.
LEMMA StoDestroyVmInv == ASSUME StoInv, NEW v, StoDestroyVm(v) PROVE StoInv'
<1>1. stoVolume \in StoVolumes  BY DEF StoInv, StoTypeOK
<1>2. /\ stoVolume' \in StoVolumes /\ stoVolume'.row = stoVolume.row
      /\ stoVolume'.file = stoVolume.file /\ stoVolume'.holders \subseteq stoVolume.holders
  BY <1>1 DEF StoDestroyVm, StoVolumes
<1>3. UNCHANGED <<stoTask, stoFresh, stoSnap, stoSecret, stoPool, stoTorn>>
  BY DEF StoDestroyVm, StoNotVolume
<1>4. StoTypeOK'  BY <1>2, <1>3 DEF StoInv, StoTypeOK
<1>5. StoVolumeInv'  BY <1>2, <1>3 DEF StoInv, StoVolumeInv
<1>6. StoSnapInv' /\ StoSecretInv' /\ StoPoolInv'
  BY <1>3 DEF StoInv, StoSnapInv, StoSecretInv, StoPoolInv
<1> QED BY <1>4, <1>5, <1>6 DEF StoInv

\* delete_unattached_volume_by_name takes the row first.
LEMMA StoDeleteVolumeInv ==
  ASSUME StoInv, NEW c \in StoCallers, StoDeleteVolume(c)
  PROVE StoInv'
<1>1. stoTask[c] \in StoTasks /\ stoVolume \in StoVolumes /\ stoTask[c].op = "none"
      /\ StoVolumeFree /\ stoVolume.holders = {}
  BY DEF StoInv, StoTypeOK, StoDeleteVolume, StoBegins, StoAt, StoVolumeInv
<1>2. stoFresh' = stoFresh /\ StoNotVolume  BY DEF StoDeleteVolume
<1>3. PICK t : t = StoTask("unlink volume", 0)  OBVIOUS
<1>4. t \in StoTasks /\ t.op = "unlink volume"  BY <1>3 DEF StoTask, StoTasks, StoVolumeOps
<1>5. stoTask' = [stoTask EXCEPT ![c] = t]  BY <1>3 DEF StoDeleteVolume, StoSets
<1>6. stoVolume' \in StoVolumes /\ stoVolume'.row = 0 /\ stoVolume'.holders = {}
  BY <1>1 DEF StoDeleteVolume, StoVolumes
<1>7. t.op \in StoVolumeOps \cup {"none"}
      /\ (stoTask[c].op \in StoVolumeOps \/ (stoTask[c].op = "none" /\ StoVolumeFree))
  BY <1>1, <1>4 DEF StoVolumeOps
<1> QED BY <1>1, <1>2, <1>4, <1>5, <1>6, <1>7, StoVolumeStep

\* Then the file, on a best effort.
LEMMA StoUnlinkVolumeInv ==
  ASSUME StoInv, NEW c \in StoCallers, NEW ok \in BOOLEAN, StoUnlinkVolume(c, ok) PROVE StoInv'
<1>1. stoTask[c] \in StoTasks /\ stoVolume \in StoVolumes /\ stoTask[c].op = "unlink volume"
      /\ stoVolume.row = 0 /\ stoVolume.holders = {}
  BY DEF StoInv, StoTypeOK, StoUnlinkVolume, StoAt, StoVolumeInv
<1>2. stoFresh' = stoFresh /\ StoNotVolume  BY DEF StoUnlinkVolume
<1>4. StoIdle \in StoTasks /\ StoIdle.op = "none"  BY DEF StoTasks, StoIdle
<1>5. stoTask' = [stoTask EXCEPT ![c] = StoIdle]  BY DEF StoUnlinkVolume, StoEnds
<1>6. stoVolume' \in StoVolumes /\ stoVolume'.row = 0 /\ stoVolume'.holders = {}
  BY <1>1 DEF StoUnlinkVolume, StoVolumes
<1>7. StoIdle.op \in StoVolumeOps \cup {"none"}
      /\ (stoTask[c].op \in StoVolumeOps \/ (stoTask[c].op = "none" /\ StoVolumeFree))
  BY <1>1, <1>4 DEF StoVolumeOps
<1> QED BY <1>1, <1>2, <1>4, <1>5, <1>6, <1>7, StoVolumeStep


-----------------------------------------------------------------------------
(* A snapshot. *)

\* What is known of the snapshot and of a request's task.
LEMMA StoSnapFacts ==
  ASSUME StoInv
  PROVE  /\ stoTask \in [StoCallers -> StoTasks] /\ stoFresh \in Nat \ {0}
         /\ \A c \in StoCallers : stoTask[c] \in StoTasks /\ stoTask[c].id \in Nat
         /\ stoSnap \in StoSnaps /\ stoSnap.row \in Nat /\ stoSnap.file \in Nat
         /\ stoSnap.doomed \subseteq Nat /\ StoSnapInv
         /\ StoIdle \in StoTasks /\ StoIdle.op = "none"
         /\ \A i \in Nat, op \in StoSnapOps :
              StoTask(op, i) \in StoTasks /\ StoTask(op, i).op = op /\ StoTask(op, i).id = i
  BY DEF StoInv, StoTypeOK, StoTasks, StoSnaps, StoIdle, StoTask

\* The names of a snapshot's steps.
LEMMA StoSnapOpsAre ==
  /\ "insert snapshot" \in StoCloneOps /\ "unlink clone" \in StoCloneOps
  /\ "unlink snapshot" \in StoSnapOps /\ "unlink snapshot" \notin StoCloneOps
  /\ "delete snapshot" \in StoSnapOps /\ "delete snapshot" \notin StoCloneOps
  /\ "insert snapshot" \in StoSnapOps /\ "unlink clone" \in StoSnapOps
  /\ "none" \notin StoSnapOps /\ "none" \notin StoCloneOps
  /\ \A op \in StoCloneOps : op \in StoSnapOps
  BY DEF StoCloneOps, StoSnapOps

\* A request about a snapshot has an id that was given out, and a clone's id is
\* nobody else's.
LEMMA StoIds ==
  ASSUME StoInv, NEW c \in StoCallers, stoTask[c].op \in StoSnapOps
  PROVE  /\ stoTask[c].id \in Nat /\ 0 < stoTask[c].id /\ stoTask[c].id < stoFresh
         /\ \A d \in StoCallers \ {c} : stoTask[d].op \in StoCloneOps =>
              stoTask[d].id # stoTask[c].id
<1>1. StoSnapInv /\ stoTask[c].id \in Nat  BY StoSnapFacts
<1> QED BY <1>1 DEF StoSnapInv

\* The file of a clone being made is the request's own, and no row names it yet.
LEMMA StoClones ==
  ASSUME StoInv, NEW c \in StoCallers, stoTask[c].op \in StoCloneOps
  PROVE  /\ stoTask[c].id # stoSnap.row /\ stoTask[c].id \notin stoSnap.doomed
         /\ "snapshot" \notin stoTorn => stoSnap.file = stoTask[c].id
         /\ \A d \in StoCallers \ {c} : stoTask[d].op \in StoSnapOps =>
              stoTask[d].id # stoTask[c].id
  BY DEF StoInv, StoSnapInv

\* What is left to show of a step of one request about a snapshot: of the
\* snapshot, of the request's new task t, and of the clones the others have.
StoSnapKept ==
  /\ stoSnap' \in StoSnaps /\ stoSnap'.row < stoFresh' /\ stoSnap'.file < stoFresh'
  /\ \A i \in stoSnap'.doomed : i < stoFresh'
  /\ stoSnap'.row \notin stoSnap'.doomed \union {0} /\ "snapshot" \notin stoTorn' =>
       stoSnap'.file = stoSnap'.row
StoTaskKept(c, t) ==
  /\ t.op \in StoSnapOps => 0 < t.id /\ t.id < stoFresh'
  /\ t.op \in StoCloneOps =>
       /\ t.id # stoSnap'.row /\ t.id \notin stoSnap'.doomed
       /\ "snapshot" \notin stoTorn' => stoSnap'.file = t.id
StoClonesKept(c, t) ==
  \A d \in StoCallers \ {c} :
    /\ stoTask[d].op \in StoCloneOps =>
         /\ stoTask[d].id # stoSnap'.row /\ stoTask[d].id \notin stoSnap'.doomed
         /\ "snapshot" \notin stoTorn' => stoSnap'.file = stoTask[d].id
         /\ t.op \in StoSnapOps => stoTask[d].id # t.id
    /\ stoTask[d].op \in StoSnapOps /\ t.op \in StoCloneOps => stoTask[d].id # t.id

\* A request about a snapshot takes one step.
LEMMA StoSnapStep ==
  ASSUME StoInv, NEW c \in StoCallers, NEW t \in StoTasks, stoTask' = [stoTask EXCEPT ![c] = t],
         stoTask[c].op \in StoSnapOps \cup {"none"}, t.op \in StoSnapOps \cup {"none"},
         stoFresh' \in {stoFresh, stoFresh + 1}, StoNotSnap,
         "template" \in stoTorn' <=> "template" \in stoTorn,
         StoSnapKept, StoTaskKept(c, t), StoClonesKept(c, t)
  PROVE  StoInv'
<1> USE DEF StoSnapKept, StoTaskKept, StoClonesKept
<1>1. stoTask'[c] = t /\ \A d \in StoCallers \ {c} : stoTask'[d] = stoTask[d]
  BY StoSnapFacts
<1>2. \A n \in Nat : n < stoFresh => n < stoFresh'  BY StoSnapFacts
<1>3. ASSUME NEW d \in StoCallers, stoTask'[d].op \in StoSnapOps
      PROVE  0 < stoTask'[d].id /\ stoTask'[d].id < stoFresh'
  <2>1. CASE d = c  BY <1>1, <1>3, <2>1
  <2>2. CASE d # c  BY <1>1, <1>2, <1>3, <2>2, StoIds
  <2> QED BY <2>1, <2>2
<1>4. ASSUME NEW d \in StoCallers, stoTask'[d].op \in StoCloneOps
      PROVE  /\ stoTask'[d].id # stoSnap'.row /\ stoTask'[d].id \notin stoSnap'.doomed
             /\ "snapshot" \notin stoTorn' => stoSnap'.file = stoTask'[d].id
             /\ \A e \in StoCallers \ {d} : stoTask'[e].op \in StoSnapOps =>
                  stoTask'[e].id # stoTask'[d].id
  <2>1. CASE d = c  BY <1>1, <1>4, <2>1
  <2>2. CASE d # c
    <3>1. stoTask[d].op \in StoCloneOps /\ stoTask'[d] = stoTask[d]  BY <1>1, <1>4, <2>2
    <3>2. \A e \in StoCallers \ {d} : stoTask[e].op \in StoSnapOps => stoTask[e].id # stoTask[d].id
      BY <3>1, StoClones
    <3>3. \A e \in StoCallers \ {d} : stoTask'[e].op \in StoSnapOps =>
                  stoTask'[e].id # stoTask[d].id
      BY <1>1, <2>2, <3>1, <3>2
    <3> QED BY <2>2, <3>1, <3>3
  <2> QED BY <2>1, <2>2
<1>5. StoSnapInv'  BY <1>3, <1>4 DEF StoSnapInv
<1> QED BY <1>5, StoSnapMoves

\* create_snapshot clones to a path that is free, under an id nobody has.
LEMMA StoCloneSnapshotInv ==
  ASSUME StoInv, NEW c \in StoCallers, StoCloneSnapshot(c)
  PROVE StoInv'
<1>1. stoTask[c].op = "none"  BY DEF StoCloneSnapshot, StoBegins, StoAt
<1>2. StoNotSnap /\ stoTorn' = stoTorn  BY DEF StoCloneSnapshot
<1>3. CASE stoSnap.file = 0
  <2>1. PICK t : t = StoTask("insert snapshot", stoFresh)  OBVIOUS
  <2>2. t \in StoTasks /\ t.op = "insert snapshot" /\ t.id = stoFresh
    BY <2>1, StoSnapFacts, StoSnapOpsAre
  <2>3. stoTask' = [stoTask EXCEPT ![c] = t]  BY <1>3, <2>1 DEF StoCloneSnapshot, StoSets
  <2>4. stoSnap' \in StoSnaps /\ stoSnap'.row = stoSnap.row /\ stoSnap'.doomed = stoSnap.doomed
        /\ stoSnap'.file = stoFresh
    <3>1. stoSnap' = [stoSnap EXCEPT !.file = stoFresh]  BY <1>3 DEF StoCloneSnapshot
    <3> QED BY <3>1, StoSnapFacts DEF StoSnaps
  <2>5. stoFresh' = stoFresh + 1  BY <1>3 DEF StoCloneSnapshot, StoTakesId
  <2>6. stoSnap.row < stoFresh /\ \A i \in stoSnap.doomed : i < stoFresh
    BY StoSnapFacts DEF StoSnapInv
  <2>7. /\ stoSnap.row < stoFresh' /\ stoFresh < stoFresh' /\ 0 < stoFresh /\ stoFresh # stoSnap.row
        /\ \A i \in stoSnap.doomed : i < stoFresh' /\ i # stoFresh
    BY <2>5, <2>6, StoSnapFacts
  <2>8. \A d \in StoCallers : stoTask[d].op \in StoSnapOps => stoTask[d].id # stoFresh
    BY StoIds, StoSnapFacts
  <2>9. \A d \in StoCallers : stoTask[d].op \in StoCloneOps => "snapshot" \in stoTorn
    <3> SUFFICES ASSUME NEW d \in StoCallers, stoTask[d].op \in StoCloneOps
                 PROVE  "snapshot" \in stoTorn
      OBVIOUS
    <3>1. stoTask[d].id \in Nat /\ 0 < stoTask[d].id  BY StoIds, StoSnapOpsAre
    <3>2. "snapshot" \notin stoTorn => stoSnap.file = stoTask[d].id  BY StoClones
    <3> QED BY <1>3, <3>1, <3>2
  <2>10. stoSnap.row \in stoSnap.doomed \union {0} \/ "snapshot" \in stoTorn
    BY <1>3, StoSnapFacts DEF StoSnapInv
  <2>11. \A d \in StoCallers \ {c} : stoTask[d].op \in StoCloneOps =>
           stoTask[d].id # stoSnap'.row /\ stoTask[d].id \notin stoSnap'.doomed
    BY <2>4, StoClones
  <2>a. StoSnapKept
    BY <1>1, <1>2, <2>2, <2>3, <2>4, <2>5, <2>7, <2>8, <2>9, <2>10, <2>11, StoSnapOpsAre DEF
        StoSnapKept
  <2>b. StoTaskKept(c, t)
    BY <1>1, <1>2, <2>2, <2>3, <2>4, <2>5, <2>7, <2>8, <2>9, <2>10, <2>11, StoSnapOpsAre DEF
        StoTaskKept
  <2>c. StoClonesKept(c, t)
    BY <1>1, <1>2, <2>2, <2>3, <2>4, <2>5, <2>7, <2>8, <2>9, <2>10, <2>11, StoSnapOpsAre DEF
        StoClonesKept
  <2>d. stoTask[c].op \in StoSnapOps \cup {"none"} /\ t.op \in StoSnapOps \cup {"none"}
    BY <1>1, <1>2, <2>2, <2>3, <2>4, <2>5, <2>7, <2>8, <2>9, <2>10, <2>11, StoSnapOpsAre
  <2> QED BY <1>1, <1>2, <2>2, <2>3, <2>4, <2>5, <2>7, <2>8, <2>9, <2>10, <2>11, <2>a, <2>b,
      <2>c, <2>d, StoSnapStep
<1>4. CASE stoSnap.file # 0
  <2>1. UNCHANGED <<stoSnap, stoTask, stoFresh>>  BY <1>4 DEF StoCloneSnapshot
  <2>2. StoSnapInv'  BY <1>2, <2>1, StoSnapFacts DEF StoSnapInv
  <2>3. stoTask' = [stoTask EXCEPT ![c] = stoTask[c]]  BY <2>1, StoSnapFacts
  <2> QED BY <1>1, <1>2, <2>1, <2>2, <2>3, StoSnapMoves, StoSnapFacts
<1> QED BY <1>3, <1>4

\* The insert gives the row to the clone whose file is there, or leaves the
\* clone to be removed.
LEMMA StoInsertSnapshotInv ==
  ASSUME StoInv, NEW c \in StoCallers, StoInsertSnapshot(c) PROVE StoInv'
<1>1. stoTask[c].op = "insert snapshot"  BY DEF StoInsertSnapshot, StoAt
<1>2. StoNotSnap /\ stoTorn' = stoTorn /\ stoFresh' = stoFresh  BY DEF StoInsertSnapshot
<1>3. PICK i : i = stoTask[c].id  OBVIOUS
<1>4. i \in Nat /\ 0 < i /\ i < stoFresh  BY <1>1, <1>3, StoIds, StoSnapOpsAre
<1>5. stoSnap.row < stoFresh /\ stoSnap.file < stoFresh /\ \A j \in stoSnap.doomed : j < stoFresh
  BY StoSnapFacts DEF StoSnapInv
<1>6. /\ i # stoSnap.row /\ i \notin stoSnap.doomed
      /\ "snapshot" \notin stoTorn => stoSnap.file = i
      /\ \A d \in StoCallers \ {c} : stoTask[d].op \in StoSnapOps => stoTask[d].id # i
  BY <1>1, <1>3, StoClones, StoSnapOpsAre
<1>7. CASE stoSnap.row = 0
  <2>1. stoTask' = [stoTask EXCEPT ![c] = StoIdle]  BY <1>7 DEF StoInsertSnapshot, StoEnds
  <2>2. stoSnap' \in StoSnaps /\ stoSnap'.row = i /\ stoSnap'.doomed = stoSnap.doomed
        /\ stoSnap'.file = stoSnap.file
    <3>1. stoSnap' = [stoSnap EXCEPT !.row = i]  BY <1>3, <1>7 DEF StoInsertSnapshot
    <3> QED BY <1>4, <3>1, StoSnapFacts DEF StoSnaps
  <2>3. \A d \in StoCallers \ {c} : stoTask[d].op \in StoCloneOps =>
          /\ stoTask[d].id # i /\ stoTask[d].id \notin stoSnap.doomed
          /\ "snapshot" \notin stoTorn => stoSnap.file = stoTask[d].id
    BY <1>6, StoClones, StoSnapOpsAre
  <2>4. StoIdle \in StoTasks /\ StoIdle.op = "none"  BY StoSnapFacts
  <2>a. StoSnapKept
    BY <1>1, <1>2, <1>4, <1>5, <1>6, <2>1, <2>2, <2>3, <2>4, StoSnapOpsAre DEF StoSnapKept
  <2>b. StoTaskKept(c, StoIdle)
    BY <1>1, <1>2, <1>4, <1>5, <1>6, <2>1, <2>2, <2>3, <2>4, StoSnapOpsAre DEF StoTaskKept
  <2>c. StoClonesKept(c, StoIdle)
    BY <1>1, <1>2, <1>4, <1>5, <1>6, <2>1, <2>2, <2>3, <2>4, StoSnapOpsAre DEF StoClonesKept
  <2>d. stoTask[c].op \in StoSnapOps \cup {"none"} /\ StoIdle.op \in StoSnapOps \cup {"none"}
    BY <1>1, <1>2, <1>4, <1>5, <1>6, <2>1, <2>2, <2>3, <2>4, StoSnapOpsAre
  <2> QED BY <1>1, <1>2, <1>4, <1>5, <1>6, <2>1, <2>2, <2>3, <2>4, <2>a, <2>b, <2>c, <2>d,
      StoSnapStep
<1>8. CASE stoSnap.row # 0
  <2>1. PICK t : t = StoTask("unlink clone", i)  OBVIOUS
  <2>2. t \in StoTasks /\ t.op = "unlink clone" /\ t.id = i
    BY <1>4, <2>1, StoSnapFacts, StoSnapOpsAre
  <2>3. stoTask' = [stoTask EXCEPT ![c] = t] /\ stoSnap' = stoSnap
    BY <1>3, <1>8, <2>1 DEF StoInsertSnapshot, StoSets
  <2>4. \A d \in StoCallers \ {c} : stoTask[d].op \in StoCloneOps =>
          /\ stoTask[d].id # stoSnap.row /\ stoTask[d].id \notin stoSnap.doomed
          /\ "snapshot" \notin stoTorn => stoSnap.file = stoTask[d].id
    BY StoClones
  <2>5. stoSnap.row \notin stoSnap.doomed \union {0} /\ "snapshot" \notin stoTorn =>
           stoSnap.file = stoSnap.row
    BY StoSnapFacts DEF StoSnapInv
  <2>6. stoSnap \in StoSnaps  BY StoSnapFacts
  <2>a. StoSnapKept
    BY <1>1, <1>2, <1>4, <1>5, <1>6, <2>2, <2>3, <2>4, <2>5, <2>6, StoSnapOpsAre DEF StoSnapKept
  <2>b. StoTaskKept(c, t)
    BY <1>1, <1>2, <1>4, <1>5, <1>6, <2>2, <2>3, <2>4, <2>5, <2>6, StoSnapOpsAre DEF StoTaskKept
  <2>c. StoClonesKept(c, t)
    BY <1>1, <1>2, <1>4, <1>5, <1>6, <2>2, <2>3, <2>4, <2>5, <2>6, StoSnapOpsAre DEF StoClonesKept
  <2>d. stoTask[c].op \in StoSnapOps \cup {"none"} /\ t.op \in StoSnapOps \cup {"none"}
    BY <1>1, <1>2, <1>4, <1>5, <1>6, <2>2, <2>3, <2>4, <2>5, <2>6, StoSnapOpsAre
  <2> QED BY <1>1, <1>2, <1>4, <1>5, <1>6, <2>2, <2>3, <2>4, <2>5, <2>6, <2>a, <2>b, <2>c, <2>d,
      StoSnapStep
<1> QED BY <1>7, <1>8

\* The loser's removal by path: another's file is torn, and recorded as such.
LEMMA StoUnlinkCloneInv == ASSUME StoInv, NEW c \in StoCallers, StoUnlinkClone(c) PROVE StoInv'
<1>1. stoTask[c].op = "unlink clone"  BY DEF StoUnlinkClone, StoAt
<1>2. StoNotSnap /\ stoFresh' = stoFresh  BY DEF StoUnlinkClone
<1>3. stoTask' = [stoTask EXCEPT ![c] = StoIdle] /\ StoIdle \in StoTasks /\ StoIdle.op = "none"
  BY StoSnapFacts DEF StoUnlinkClone, StoEnds
<1>4. stoSnap' \in StoSnaps /\ stoSnap'.row = stoSnap.row /\ stoSnap'.doomed = stoSnap.doomed
      /\ stoSnap'.file = 0
  <2>1. stoSnap' = [stoSnap EXCEPT !.file = 0]  BY DEF StoUnlinkClone
  <2> QED BY <2>1, StoSnapFacts DEF StoSnaps
<1>5. /\ stoTorn \subseteq stoTorn' /\ ("template" \in stoTorn' <=> "template" \in stoTorn)
      /\ "snapshot" \notin stoTorn' => stoSnap.file \in {0, stoTask[c].id}
  BY DEF StoUnlinkClone, StoUnlinked
<1>6. /\ stoTask[c].id # stoSnap.row
      /\ "snapshot" \notin stoTorn => stoSnap.file = stoTask[c].id
      /\ \A d \in StoCallers \ {c} : stoTask[d].op \in StoSnapOps => stoTask[d].id # stoTask[c].id
  BY <1>1, StoClones, StoSnapOpsAre
<1>7. \A d \in StoCallers \ {c} : stoTask[d].op \in StoCloneOps =>
        /\ stoTask[d].id # stoSnap.row /\ stoTask[d].id \notin stoSnap.doomed
        /\ "snapshot" \in stoTorn'
  BY <1>5, <1>6, StoClones, StoSnapOpsAre
<1>8. stoSnap.row \in stoSnap.doomed \union {0} \/ "snapshot" \in stoTorn'
  <2>1. stoSnap.row \notin stoSnap.doomed \union {0} /\ "snapshot" \notin stoTorn =>
           stoSnap.file = stoSnap.row
    BY StoSnapFacts DEF StoSnapInv
  <2> QED BY <1>5, <1>6, <2>1
<1>9. stoSnap.row < stoFresh /\ 0 < stoFresh /\ \A j \in stoSnap.doomed : j < stoFresh
  BY StoSnapFacts DEF StoSnapInv
<1>a. StoSnapKept
  BY <1>1, <1>2, <1>3, <1>4, <1>5, <1>7, <1>8, <1>9, StoSnapOpsAre DEF StoSnapKept
<1>b. StoTaskKept(c, StoIdle)
  BY <1>1, <1>2, <1>3, <1>4, <1>5, <1>7, <1>8, <1>9, StoSnapOpsAre DEF StoTaskKept
<1>c. StoClonesKept(c, StoIdle)
  BY <1>1, <1>2, <1>3, <1>4, <1>5, <1>7, <1>8, <1>9, StoSnapOpsAre DEF StoClonesKept
<1>d. stoTask[c].op \in StoSnapOps \cup {"none"} /\ StoIdle.op \in StoSnapOps \cup {"none"}
  BY <1>1, <1>2, <1>3, <1>4, <1>5, <1>7, <1>8, <1>9, StoSnapOpsAre
<1> QED BY <1>1, <1>2, <1>3, <1>4, <1>5, <1>7, <1>8, <1>9, <1>a, <1>b, <1>c, <1>d, StoSnapStep

\* delete_snapshot reads the row it will delete.
LEMMA StoDeleteSnapshotInv ==
  ASSUME StoInv, NEW c \in StoCallers, StoDeleteSnapshot(c)
  PROVE StoInv'
<1>1. stoTask[c].op = "none" /\ stoSnap.row # 0  BY DEF StoDeleteSnapshot, StoBegins, StoAt
<1>2. StoNotSnap /\ UNCHANGED <<stoSnap, stoFresh, stoTorn>>  BY DEF StoDeleteSnapshot
<1>3. PICK t : t = StoTask("unlink snapshot", stoSnap.row)  OBVIOUS
<1>4. t \in StoTasks /\ t.op = "unlink snapshot" /\ t.id = stoSnap.row
  BY <1>3, StoSnapFacts, StoSnapOpsAre
<1>5. stoTask' = [stoTask EXCEPT ![c] = t]  BY <1>3 DEF StoDeleteSnapshot, StoSets
<1>6. /\ 0 < stoSnap.row /\ stoSnap.row < stoFresh /\ stoSnap.file < stoFresh
      /\ \A j \in stoSnap.doomed : j < stoFresh
  BY <1>1, StoSnapFacts DEF StoSnapInv
<1>7. \A d \in StoCallers \ {c} : stoTask[d].op \in StoCloneOps =>
        /\ stoTask[d].id # stoSnap.row /\ stoTask[d].id \notin stoSnap.doomed
        /\ "snapshot" \notin stoTorn => stoSnap.file = stoTask[d].id
  BY StoClones
<1>8. stoSnap.row \notin stoSnap.doomed \union {0} /\ "snapshot" \notin stoTorn =>
        stoSnap.file = stoSnap.row
  BY StoSnapFacts DEF StoSnapInv
<1>9. stoSnap \in StoSnaps  BY StoSnapFacts
<1>a. StoSnapKept
  BY <1>1, <1>2, <1>4, <1>5, <1>6, <1>7, <1>8, <1>9, StoSnapOpsAre DEF StoSnapKept
<1>b. StoTaskKept(c, t)
  BY <1>1, <1>2, <1>4, <1>5, <1>6, <1>7, <1>8, <1>9, StoSnapOpsAre DEF StoTaskKept
<1>c. StoClonesKept(c, t)
  BY <1>1, <1>2, <1>4, <1>5, <1>6, <1>7, <1>8, <1>9, StoSnapOpsAre DEF StoClonesKept
<1>d. stoTask[c].op \in StoSnapOps \cup {"none"} /\ t.op \in StoSnapOps \cup {"none"}
  BY <1>1, <1>2, <1>4, <1>5, <1>6, <1>7, <1>8, <1>9, StoSnapOpsAre
<1> QED BY <1>1, <1>2, <1>4, <1>5, <1>6, <1>7, <1>8, <1>9, <1>a, <1>b, <1>c, <1>d, StoSnapStep

\* It removes the file by its path; a file with another's bytes is torn.
LEMMA StoUnlinkSnapshotInv ==
  ASSUME StoInv, NEW c \in StoCallers, StoUnlinkSnapshot(c)
  PROVE StoInv'
<1>1. stoTask[c].op = "unlink snapshot"  BY DEF StoUnlinkSnapshot, StoAt
<1>2. StoNotSnap /\ stoFresh' = stoFresh  BY DEF StoUnlinkSnapshot
<1>3. PICK i : i = stoTask[c].id  OBVIOUS
<1>4. i \in Nat /\ 0 < i /\ i < stoFresh
      /\ \A d \in StoCallers \ {c} : stoTask[d].op \in StoCloneOps => stoTask[d].id # i
  BY <1>1, <1>3, StoIds, StoSnapOpsAre
<1>5. PICK t : t = StoTask("delete snapshot", i)  OBVIOUS
<1>6. t \in StoTasks /\ t.op = "delete snapshot" /\ t.id = i
  BY <1>4, <1>5, StoSnapFacts, StoSnapOpsAre
<1>7. stoTask' = [stoTask EXCEPT ![c] = t]  BY <1>3, <1>5 DEF StoUnlinkSnapshot, StoSets
<1>8. stoSnap' \in StoSnaps /\ stoSnap'.row = stoSnap.row /\ stoSnap'.file = 0
      /\ stoSnap'.doomed = stoSnap.doomed \union {i}
  <2>1. stoSnap' = [stoSnap EXCEPT !.file = 0, !.doomed = @ \union {i}]
    BY <1>3 DEF StoUnlinkSnapshot
  <2>2. stoSnap.doomed \union {i} \in SUBSET Nat  BY <1>4, StoSnapFacts
  <2> QED BY <2>1, <2>2, StoSnapFacts DEF StoSnaps
<1>9. /\ stoTorn \subseteq stoTorn' /\ ("template" \in stoTorn' <=> "template" \in stoTorn)
      /\ "snapshot" \notin stoTorn' => stoSnap.file \in {0, i}
  BY <1>3 DEF StoUnlinkSnapshot, StoUnlinked
<1>10. \A d \in StoCallers \ {c} : stoTask[d].op \in StoCloneOps =>
         /\ stoTask[d].id # stoSnap.row /\ stoTask[d].id \notin stoSnap'.doomed
         /\ "snapshot" \in stoTorn'
  <2> SUFFICES ASSUME NEW d \in StoCallers \ {c}, stoTask[d].op \in StoCloneOps
               PROVE  /\ stoTask[d].id # stoSnap.row /\ stoTask[d].id \notin stoSnap'.doomed
                      /\ "snapshot" \in stoTorn'
    OBVIOUS
  <2>1. stoTask[d].id # i  BY <1>4
  <2>2. stoTask[d].id \in Nat /\ 0 < stoTask[d].id  BY StoIds, StoSnapOpsAre
  <2>3. /\ stoTask[d].id # stoSnap.row /\ stoTask[d].id \notin stoSnap.doomed
        /\ "snapshot" \notin stoTorn => stoSnap.file = stoTask[d].id
    BY StoClones
  <2> QED BY <1>8, <1>9, <2>1, <2>2, <2>3
<1>11. stoSnap.row \in stoSnap'.doomed \union {0} \/ "snapshot" \in stoTorn'
  <2>1. stoSnap.row \notin stoSnap.doomed \union {0} /\ "snapshot" \notin stoTorn =>
           stoSnap.file = stoSnap.row
    BY StoSnapFacts DEF StoSnapInv
  <2> QED BY <1>8, <1>9, <2>1
<1>12. stoSnap.row < stoFresh /\ 0 < stoFresh /\ \A j \in stoSnap'.doomed : j < stoFresh
  BY <1>4, <1>8, StoSnapFacts DEF StoSnapInv
<1>a. StoSnapKept
  BY <1>1, <1>2, <1>4, <1>6, <1>7, <1>8, <1>9, <1>10, <1>11, <1>12, StoSnapOpsAre DEF StoSnapKept
<1>b. StoTaskKept(c, t)
  BY <1>1, <1>2, <1>4, <1>6, <1>7, <1>8, <1>9, <1>10, <1>11, <1>12, StoSnapOpsAre DEF StoTaskKept
<1>c. StoClonesKept(c, t)
  BY <1>1, <1>2, <1>4, <1>6, <1>7, <1>8, <1>9, <1>10, <1>11, <1>12, StoSnapOpsAre DEF
      StoClonesKept
<1>d. stoTask[c].op \in StoSnapOps \cup {"none"} /\ t.op \in StoSnapOps \cup {"none"}
  BY <1>1, <1>2, <1>4, <1>6, <1>7, <1>8, <1>9, <1>10, <1>11, <1>12, StoSnapOpsAre
<1> QED BY <1>1, <1>2, <1>4, <1>6, <1>7, <1>8, <1>9, <1>10, <1>11, <1>12, <1>a, <1>b, <1>c,
    <1>d, StoSnapStep

\* The row is deleted by its id, so a newer one of that name stays.
LEMMA StoSnapshotDeletedInv ==
  ASSUME StoInv, NEW c \in StoCallers, StoSnapshotDeleted(c)
  PROVE StoInv'
<1>1. stoTask[c].op = "delete snapshot"  BY DEF StoSnapshotDeleted, StoAt
<1>2. StoNotSnap /\ stoTorn' = stoTorn /\ stoFresh' = stoFresh  BY DEF StoSnapshotDeleted
<1>3. stoTask' = [stoTask EXCEPT ![c] = StoIdle] /\ StoIdle \in StoTasks /\ StoIdle.op = "none"
  BY StoSnapFacts DEF StoSnapshotDeleted, StoEnds
<1>4. stoSnap' \in StoSnaps /\ stoSnap'.row \in {0, stoSnap.row}
      /\ stoSnap'.doomed = stoSnap.doomed /\ stoSnap'.file = stoSnap.file
  <2>1. stoSnap' \in {stoSnap, [stoSnap EXCEPT !.row = 0]}  BY DEF StoSnapshotDeleted
  <2> QED BY <2>1, StoSnapFacts DEF StoSnaps
<1>5. \A d \in StoCallers \ {c} : stoTask[d].op \in StoCloneOps =>
        /\ stoTask[d].id # stoSnap'.row /\ stoTask[d].id \notin stoSnap.doomed
        /\ "snapshot" \notin stoTorn => stoSnap.file = stoTask[d].id
  <2> SUFFICES ASSUME NEW d \in StoCallers \ {c}, stoTask[d].op \in StoCloneOps
               PROVE  /\ stoTask[d].id # stoSnap'.row /\ stoTask[d].id \notin stoSnap.doomed
                      /\ "snapshot" \notin stoTorn => stoSnap.file = stoTask[d].id
    OBVIOUS
  <2>1. stoTask[d].id \in Nat /\ 0 < stoTask[d].id  BY StoIds, StoSnapOpsAre
  <2>2. /\ stoTask[d].id # stoSnap.row /\ stoTask[d].id \notin stoSnap.doomed
        /\ "snapshot" \notin stoTorn => stoSnap.file = stoTask[d].id
    BY StoClones
  <2> QED BY <1>4, <2>1, <2>2
<1>6. /\ stoSnap'.row < stoFresh /\ stoSnap.file < stoFresh
      /\ \A j \in stoSnap.doomed : j < stoFresh
  BY <1>4, StoSnapFacts DEF StoSnapInv
<1>7. stoSnap'.row \notin stoSnap.doomed \union {0} /\ "snapshot" \notin stoTorn =>
        stoSnap.file = stoSnap'.row
  BY <1>4, StoSnapFacts DEF StoSnapInv
<1>a. StoSnapKept  BY <1>1, <1>2, <1>3, <1>4, <1>5, <1>6, <1>7, StoSnapOpsAre DEF StoSnapKept
<1>b. StoTaskKept(c, StoIdle)
  BY <1>1, <1>2, <1>3, <1>4, <1>5, <1>6, <1>7, StoSnapOpsAre DEF StoTaskKept
<1>c. StoClonesKept(c, StoIdle)
  BY <1>1, <1>2, <1>3, <1>4, <1>5, <1>6, <1>7, StoSnapOpsAre DEF StoClonesKept
<1>d. stoTask[c].op \in StoSnapOps \cup {"none"} /\ StoIdle.op \in StoSnapOps \cup {"none"}
  BY <1>1, <1>2, <1>3, <1>4, <1>5, <1>6, <1>7, StoSnapOpsAre
<1> QED BY <1>1, <1>2, <1>3, <1>4, <1>5, <1>6, <1>7, <1>a, <1>b, <1>c, <1>d, StoSnapStep

-----------------------------------------------------------------------------
(* The secrets. *)

\* What is known of the key file,
LEMMA StoKeyFacts ==
  ASSUME StoInv
  PROVE  /\ stoFresh \in Nat /\ stoFresh > 0
         /\ stoSecret \in StoSecrets /\ stoSecret.key \in Int /\ StoSecretInv
         /\ stoSecret.rows \subseteq {stoSecret.key}
         /\ stoSecret.rows # {} => stoSecret.key > 0
<1>1. stoFresh \in Nat /\ stoFresh > 0  BY DEF StoInv, StoTypeOK
<1>2. stoSecret \in StoSecrets /\ StoSecretInv  BY DEF StoInv, StoTypeOK
<1>3. stoSecret.key \in Int  BY <1>2 DEF StoSecrets
<1>4. stoSecret.rows \subseteq {stoSecret.key} /\ (stoSecret.rows # {} => stoSecret.key > 0)
  BY <1>2 DEF StoSecretInv
<1> QED BY <1>1, <1>2, <1>3, <1>4

\* the two values that are no key,
LEMMA StoNotKeys ==
  /\ StoNoKey \in Int /\ StoShortKey \in Int /\ StoNoKey # StoShortKey
  /\ ~(StoNoKey > 0) /\ ~(StoShortKey > 0)
  BY DEF StoNoKey, StoShortKey

\* and of a request's task.
LEMMA StoKeyTasks ==
  ASSUME StoInv
  PROVE  /\ stoTask \in [StoCallers -> StoTasks]
         /\ \A c \in StoCallers : stoTask[c] \in StoTasks /\ stoTask[c].id \in Nat
         /\ StoIdle \in StoTasks /\ StoIdle.op = "none"
         /\ "new key" \in StoKeyOps /\ "write key" \in StoKeyOps /\ "seal" \in StoKeyOps
  BY DEF StoInv, StoTypeOK, StoTasks, StoIdle, StoKeyOps

\* A step that leaves the key file alone.
LEMMA StoKeyRests ==
  ASSUME StoInv, NEW c \in StoCallers, NEW t \in StoTasks, stoTask' = [stoTask EXCEPT ![c] = t],
         stoTask[c].op \in StoKeyOps \cup {"none"}, t.op \in StoKeyOps \cup {"none"},
         t.op # "write key", t.op = "seal" => t.id = stoSecret.key /\ stoSecret.key > 0,
         stoFresh' = stoFresh, StoNotSecret,
         stoSecret' \in StoSecrets, stoSecret'.key = stoSecret.key,
         stoSecret'.rows \subseteq {stoSecret.key},
         stoSecret'.rows # {} => stoSecret.key > 0
  PROVE  StoInv'
<1>1. stoTask'[c] = t /\ \A d \in StoCallers \ {c} : stoTask'[d] = stoTask[d]
  BY StoKeyFacts, StoNotKeys, StoKeyTasks
<1>2. StoSecretInv'  BY <1>1, StoKeyFacts, StoNotKeys, StoKeyTasks DEF StoSecretInv
<1> QED BY <1>2, StoSecretMoves

\* load_or_create_secret_key goes on with the key it found, if it is whole.
LEMMA StoLoadKeyInv == ASSUME StoInv, NEW c \in StoCallers, StoLoadKey(c) PROVE StoInv'
<1>1. stoTask[c].op = "none"  BY DEF StoLoadKey, StoBegins, StoAt
<1>2. StoNotSecret /\ UNCHANGED <<stoSecret, stoFresh>>  BY DEF StoLoadKey
<1>3. CASE stoSecret.key > 0
  <2>1. PICK t : t = StoTask("seal", stoSecret.key)  OBVIOUS
  <2>2. stoSecret.key \in Nat  BY <1>3, StoKeyFacts, StoNotKeys
  <2>3. t \in StoTasks /\ t.op = "seal" /\ t.id = stoSecret.key
    BY <2>1, <2>2 DEF StoTask, StoTasks, StoKeyOps
  <2>4. StoWholeKey  BY <1>3 DEF StoWholeKey
  <2>5. stoSecret.key # StoShortKey  BY <1>3, StoKeyFacts, StoNotKeys
  <2>6. stoTask' = [stoTask EXCEPT ![c] = t]
    BY <2>1, <2>4, <2>5, Zenon DEF StoLoadKey, StoSets
  <2> QED BY <1>1, <1>2, <1>3, <2>3, <2>6, StoKeyRests, StoKeyFacts, StoNotKeys, StoKeyTasks
<1>4. CASE stoSecret.key = StoShortKey
  <2>1. ~StoWholeKey  BY <1>4, StoKeyFacts, StoNotKeys DEF StoWholeKey
  <2>2. stoTask' = stoTask  BY <1>4, <2>1, Zenon DEF StoLoadKey
  <2>3. stoTask' = [stoTask EXCEPT ![c] = stoTask[c]]  BY <2>2, StoKeyTasks
  <2>4. stoTask[c].op # "write key" /\ stoTask[c].op # "seal"  BY <1>1
  <2> QED BY <1>1, <1>2, <2>3, <2>4, StoKeyRests, StoKeyFacts, StoNotKeys, StoKeyTasks
<1>5. CASE ~(stoSecret.key > 0) /\ stoSecret.key # StoShortKey
  <2>1. PICK t : t = StoTask("new key", 0)  OBVIOUS
  <2>2. t \in StoTasks /\ t.op = "new key"  BY <2>1 DEF StoTask, StoTasks, StoKeyOps
  <2>3. ~StoWholeKey  BY <1>5 DEF StoWholeKey
  <2>4. stoTask' = [stoTask EXCEPT ![c] = t]
    BY <1>5, <2>1, <2>3, Zenon DEF StoLoadKey, StoSets
  <2> QED BY <1>1, <1>2, <2>2, <2>4, StoKeyRests, StoKeyFacts, StoNotKeys, StoKeyTasks
<1> QED BY <1>3, <1>4, <1>5

\* create_new lets one request write the file.
LEMMA StoNewKeyInv == ASSUME StoInv, NEW c \in StoCallers, StoNewKey(c) PROVE StoInv'
<1>1. stoTask[c].op = "new key" /\ StoNotSecret  BY DEF StoNewKey, StoAt
<1>2. CASE stoSecret.key = StoNoKey
  <2>1. PICK t : t = StoTask("write key", stoFresh)  OBVIOUS
  <2>2. t \in StoTasks /\ t.op = "write key" /\ t.id = stoFresh
    <3>1. stoFresh \in Nat  BY StoKeyFacts
    <3> QED BY <2>1, <3>1 DEF StoTask, StoTasks, StoKeyOps
  <2>3. stoTask' = [stoTask EXCEPT ![c] = t] /\ stoFresh' = stoFresh + 1
        /\ stoSecret' = [stoSecret EXCEPT !.key = StoShortKey]
    <3>1. stoSecret.key # StoShortKey  BY <1>2, StoNotKeys
    <3> QED BY <1>2, <2>1, <3>1, Zenon DEF StoNewKey, StoSets, StoTakesId
  <2>4. stoSecret' \in StoSecrets /\ stoSecret'.key = StoShortKey
        /\ stoSecret'.rows = stoSecret.rows
    BY <2>3, StoKeyFacts, StoNotKeys, StoKeyTasks DEF StoSecrets
  <2>5. stoSecret.rows = {}  BY <1>2, StoKeyFacts, StoNotKeys, StoKeyTasks
  <2>6. \A d \in StoCallers : stoTask[d].op \notin {"seal", "write key"}
    BY <1>2, StoKeyFacts, StoNotKeys, StoKeyTasks DEF StoSecretInv
  <2>7. stoTask'[c] = t /\ \A d \in StoCallers \ {c} : stoTask'[d] = stoTask[d]
    BY <2>3, StoKeyFacts, StoNotKeys, StoKeyTasks
  <2>8. stoFresh > 0  BY StoKeyFacts, StoNotKeys, StoKeyTasks
  <2>9. StoSecretInv'
    BY <2>2, <2>4, <2>5, <2>6, <2>7, <2>8, StoKeyFacts, StoNotKeys, StoKeyTasks DEF StoSecretInv
  <2> QED BY <1>1, <2>2, <2>3, <2>4, <2>9, StoSecretMoves, StoKeyFacts, StoNotKeys, StoKeyTasks
<1>3. CASE stoSecret.key # StoNoKey
  <2>1. CASE stoSecret.key = StoShortKey
    <3>1. stoTask' = [stoTask EXCEPT ![c] = StoIdle] /\ UNCHANGED <<stoSecret, stoFresh>>
      BY <1>3, <2>1, Zenon DEF StoNewKey, StoEnds
    <3> QED BY <1>1, <3>1, StoKeyRests, StoKeyFacts, StoNotKeys, StoKeyTasks
  <2>2. CASE stoSecret.key # StoShortKey
    <3>1. stoSecret.key \in Nat /\ stoSecret.key > 0
      <4>1. stoSecret.key \in {StoNoKey, StoShortKey} \/ stoSecret.key > 0
        BY StoKeyFacts DEF StoSecretInv
      <4> QED BY <1>3, <2>2, <4>1, StoKeyFacts
    <3>2. PICK t : t = StoTask("seal", stoSecret.key)  OBVIOUS
    <3>3. t \in StoTasks /\ t.op = "seal" /\ t.id = stoSecret.key
      BY <3>1, <3>2 DEF StoTask, StoTasks, StoKeyOps
    <3>4. stoTask' = [stoTask EXCEPT ![c] = t] /\ UNCHANGED <<stoSecret, stoFresh>>
      BY <1>3, <2>2, <3>2, Zenon DEF StoNewKey, StoSets
    <3> QED BY <1>1, <3>1, <3>3, <3>4, StoKeyRests, StoKeyFacts, StoNotKeys, StoKeyTasks
  <2> QED BY <2>1, <2>2
<1> QED BY <1>2, <1>3

\* The key file is whole when its writer goes on; nothing was sealed before.
LEMMA StoWriteKeyInv ==
  ASSUME StoInv, NEW c \in StoCallers, NEW ok \in BOOLEAN, StoWriteKey(c, ok) PROVE StoInv'
<1>1. stoTask[c].op = "write key" /\ StoNotSecret /\ stoFresh' = stoFresh
  BY DEF StoWriteKey, StoAt
<1>2. stoSecret.key = StoShortKey /\ stoTask[c].id > 0
  BY <1>1, StoKeyFacts, StoNotKeys, StoKeyTasks DEF StoSecretInv
<1>3. CASE ok
  <2>1. PICK i : i = stoTask[c].id  OBVIOUS
  <2>2. PICK t : t = StoTask("seal", i)  OBVIOUS
  <2>3. t \in StoTasks /\ t.op = "seal" /\ t.id = i /\ i \in Nat /\ i > 0
    <3>1. i \in Nat /\ i > 0  BY <1>2, <2>1, StoKeyTasks
    <3> QED BY <2>2, <3>1 DEF StoTask, StoTasks, StoKeyOps
  <2>4. stoTask' = [stoTask EXCEPT ![c] = t] /\ stoSecret' = [stoSecret EXCEPT !.key = i]
    BY <1>3, <2>1, <2>2 DEF StoWriteKey, StoSets
  <2>5. stoSecret' \in StoSecrets /\ stoSecret'.key = i /\ stoSecret'.rows = stoSecret.rows
    <3>1. i \in Int /\ stoSecret \in StoSecrets  BY <2>3, StoKeyFacts
    <3> QED BY <2>4, <3>1 DEF StoSecrets
  <2>6. stoSecret.rows = {}  BY <1>2, StoKeyFacts, StoNotKeys, StoKeyTasks
  <2>7. \A d \in StoCallers \ {c} : stoTask[d].op \notin {"seal", "write key"}
    BY <1>1, <1>2, StoKeyFacts, StoNotKeys, StoKeyTasks DEF StoSecretInv
  <2>8. stoTask'[c] = t /\ \A d \in StoCallers \ {c} : stoTask'[d] = stoTask[d]
    BY <2>4, StoKeyFacts, StoNotKeys, StoKeyTasks
  <2>9. StoSecretInv'
    BY <2>3, <2>5, <2>6, <2>7, <2>8 DEF StoSecretInv
  <2> QED BY <1>1, <2>3, <2>4, <2>5, <2>9, StoSecretMoves, StoKeyFacts, StoNotKeys, StoKeyTasks
<1>4. CASE ~ok
  <2>1. stoTask' = [stoTask EXCEPT ![c] = StoIdle] /\ stoSecret' = stoSecret
    BY <1>4 DEF StoWriteKey, StoEnds
  <2> QED BY <1>1, <2>1, StoKeyRests, StoKeyFacts, StoNotKeys, StoKeyTasks
<1> QED BY <1>3, <1>4

\* create_secret and rotate_secret store what was sealed with that key.
LEMMA StoSealInv == ASSUME StoInv, NEW c \in StoCallers, StoSeal(c) PROVE StoInv'
<1>1. stoTask[c].op = "seal" /\ StoNotSecret /\ stoFresh' = stoFresh
      /\ stoTask' = [stoTask EXCEPT ![c] = StoIdle]
  BY DEF StoSeal, StoAt, StoEnds
<1>2. stoTask[c].id = stoSecret.key /\ stoSecret.key > 0
  BY <1>1, StoKeyFacts, StoNotKeys, StoKeyTasks DEF StoSecretInv
<1>3. PICK k : k = stoSecret.key  OBVIOUS
<1>4. stoSecret' = [stoSecret EXCEPT !.rows = @ \union {k}]  BY <1>2, <1>3 DEF StoSeal
<1>5. stoSecret.rows \union {k} \in SUBSET Int  BY <1>3, StoKeyFacts, StoNotKeys, StoKeyTasks
<1>6. stoSecret' \in StoSecrets /\ stoSecret'.key = stoSecret.key
      /\ stoSecret'.rows = stoSecret.rows \union {k}
  BY <1>4, <1>5, StoKeyFacts, StoNotKeys, StoKeyTasks DEF StoSecrets
<1> QED BY <1>1, <1>2, <1>3, <1>6, StoKeyRests, StoKeyFacts, StoNotKeys, StoKeyTasks

-----------------------------------------------------------------------------
(* A pool and its template. *)

\* What is known of the pool and of a request's task.
LEMMA StoPoolFacts ==
  ASSUME StoInv
  PROVE  /\ stoTask \in [StoCallers -> StoTasks] /\ stoFresh \in Nat /\ stoPool \in StoPools
         /\ \A c \in StoCallers : stoTask[c] \in StoTasks /\ stoTask[c].id \in Nat
         /\ stoPool.row \in Nat /\ stoPool.template \in Nat
         /\ stoPool.row # 0 => stoPool.template = stoPool.row /\ stoPool.state = "suspended"
         /\ stoPool.template # 0 /\ "template" \notin stoTorn => stoPool.files
  BY DEF StoInv, StoTypeOK, StoTasks, StoPools, StoPoolInv

\* The task record a request goes on with.
LEMMA StoPoolTask ==
  /\ StoIdle \in StoTasks /\ StoIdle.op \in StoPoolOps \cup {"none"}
  /\ \A i \in Nat, op \in StoPoolOps :
       StoTask(op, i) \in StoTasks /\ StoTask(op, i).op \in StoPoolOps \cup {"none"}
  /\ \A op \in {"warm", "insert pool", "remove files", "retire", "restore", "remove template",
                "retire template"} : op \in StoPoolOps
  BY DEF StoTasks, StoTask, StoIdle, StoPoolOps, StoVmOps

\* A step of a request about the pool, as a whole: its new task is t and the
\* pool is p.
LEMMA StoPoolStep ==
  ASSUME StoInv, NEW c \in StoCallers, NEW t \in StoTasks, stoTask' = [stoTask EXCEPT ![c] = t],
         stoTask[c].op \in StoPoolOps \cup {"none"}, t.op \in StoPoolOps \cup {"none"},
         stoFresh' \in {stoFresh, stoFresh + 1}, StoNotPool,
         "snapshot" \in stoTorn' <=> "snapshot" \in stoTorn,
         NEW p \in StoPools, stoPool' = p,
         p.row # 0 => p.template = p.row /\ p.state = "suspended",
         p.template # 0 /\ "template" \notin stoTorn' => p.files
  PROVE  StoInv'
<1>1. StoPoolInv'  BY DEF StoPoolInv
<1> QED BY <1>1, StoPoolMoves

\* A step that changes neither the pool nor what is torn.
LEMMA StoPoolStays ==
  ASSUME StoInv, NEW c \in StoCallers, NEW t \in StoTasks, stoTask' = [stoTask EXCEPT ![c] = t],
         stoTask[c].op \in StoPoolOps \cup {"none"}, t.op \in StoPoolOps \cup {"none"},
         stoFresh' = stoFresh, StoNotPool, UNCHANGED <<stoPool, stoTorn>>
  PROVE  StoInv'
  BY StoPoolStep, StoPoolFacts

\* The template's rows and files are gone (retire_vm).
LEMMA StoVmGoneIs ==
  ASSUME NEW p \in StoPools
  PROVE  /\ StoVmGone(p) \in StoPools /\ StoVmGone(p).row = p.row
         /\ StoVmGone(p).template = 0 /\ StoVmGone(p).state = "none"
  BY DEF StoVmGone, StoPools

\* create_pool boots a VM of the pool's name.
LEMMA StoCreatePoolInv == ASSUME StoInv, NEW c \in StoCallers, StoCreatePool(c) PROVE StoInv'
<1>1. stoTask[c].op = "none" /\ stoPool.row = 0
  BY DEF StoCreatePool, StoBegins, StoAt, StoOwned
<1>2. PICK t : t = StoTask("warm", stoFresh)  OBVIOUS
<1>3. t \in StoTasks /\ t.op \in StoPoolOps \cup {"none"}
  BY <1>2, StoPoolTask, StoPoolFacts
<1>4. PICK p : p = [stoPool EXCEPT !.template = stoFresh, !.state = "running", !.files = TRUE]
  OBVIOUS
<1>5. p \in StoPools /\ p.row = 0 /\ p.files  BY <1>1, <1>4, StoPoolFacts DEF StoPools
<1>6. stoTask' = [stoTask EXCEPT ![c] = t] /\ stoPool' = p /\ stoFresh' = stoFresh + 1
      /\ stoTorn' = stoTorn /\ StoNotPool
  BY <1>2, <1>4 DEF StoCreatePool, StoSets, StoTakesId
<1> QED BY <1>1, <1>3, <1>5, <1>6, StoPoolStep

\* A failed create_pool starts to destroy the VM of that name, whosever it is,
\* but not an owned template.
LEMMA StoRollsBackInv ==
  ASSUME StoInv, NEW c \in StoCallers, stoTask[c].op \in StoPoolOps, StoRollsBack(c),
         stoFresh' = stoFresh, StoNotPool
  PROVE  StoInv'
<1>1. UNCHANGED <<stoPool, stoTorn>>  BY DEF StoRollsBack
<1>2. CASE StoOwned \/ stoPool.template = 0
  <2>1. stoTask' = [stoTask EXCEPT ![c] = StoIdle]  BY <1>2 DEF StoRollsBack, StoEnds
  <2> QED BY <1>1, <2>1, StoPoolStays, StoPoolTask
<1>3. CASE ~(StoOwned \/ stoPool.template = 0)
  <2>1. PICK t : t = StoTask("remove files", stoPool.template)  OBVIOUS
  <2>2. t \in StoTasks /\ t.op \in StoPoolOps \cup {"none"}
    BY <2>1, StoPoolTask, StoPoolFacts
  <2>3. stoTask' = [stoTask EXCEPT ![c] = t]  BY <1>3, <2>1 DEF StoRollsBack, StoSets
  <2> QED BY <1>1, <2>2, <2>3, StoPoolStays
<1> QED BY <1>2, <1>3

\* Warming suspends the VM that runs under the name; an owned one does not run.
LEMMA StoWarmInv ==
  ASSUME StoInv, NEW c \in StoCallers, NEW ok \in BOOLEAN, StoWarm(c, ok) PROVE StoInv'
<1>1. stoTask[c].op = "warm" /\ "warm" \in StoPoolOps /\ stoFresh' = stoFresh /\ StoNotPool
  BY StoPoolTask DEF StoWarm, StoAt
<1>2. CASE ok /\ stoPool.state = "running"
  <2>1. PICK t : t = StoTask("insert pool", stoTask[c].id)  OBVIOUS
  <2>2. t \in StoTasks /\ t.op \in StoPoolOps \cup {"none"}
    BY <2>1, StoPoolTask, StoPoolFacts
  <2>3. PICK p : p = [stoPool EXCEPT !.state = "suspended"]  OBVIOUS
  <2>4. p \in StoPools /\ p.row = stoPool.row /\ p.template = stoPool.template
        /\ (p.files <=> stoPool.files)
    BY <2>3, StoPoolFacts DEF StoPools
  <2>5. stoPool.row = 0  BY <1>2, StoPoolFacts
  <2>6. stoTask' = [stoTask EXCEPT ![c] = t] /\ stoPool' = p /\ stoTorn' = stoTorn
    BY <1>2, <2>1, <2>3 DEF StoWarm, StoSets
  <2> QED BY <1>1, <2>2, <2>4, <2>5, <2>6, StoPoolStep, StoPoolFacts
<1>3. CASE ~(ok /\ stoPool.state = "running")
  BY <1>1, <1>3, StoRollsBackInv DEF StoWarm
<1> QED BY <1>2, <1>3

\* insert_pool and its triggers take the suspended template of that id.
LEMMA StoInsertPoolInv == ASSUME StoInv, NEW c \in StoCallers, StoInsertPool(c) PROVE StoInv'
<1>1. /\ stoTask[c].op = "insert pool" /\ "insert pool" \in StoPoolOps
      /\ stoFresh' = stoFresh /\ StoNotPool
  BY StoPoolTask DEF StoInsertPool, StoAt
<1>2. CASE StoPoolInsertable(stoTask[c].id)
  <2>1. PICK p : p = [stoPool EXCEPT !.row = stoTask[c].id]  OBVIOUS
  <2>2. p \in StoPools /\ p.row = stoTask[c].id /\ p.template = stoPool.template
        /\ p.state = stoPool.state /\ (p.files <=> stoPool.files)
    BY <2>1, StoPoolFacts DEF StoPools
  <2>3. stoTask' = [stoTask EXCEPT ![c] = StoIdle] /\ stoPool' = p /\ stoTorn' = stoTorn
    BY <1>2, <2>1 DEF StoInsertPool, StoEnds
  <2>4. stoPool.template = stoTask[c].id /\ stoPool.state = "suspended"
    BY <1>2 DEF StoPoolInsertable
  <2> QED BY <1>1, <2>2, <2>3, <2>4, StoPoolStep, StoPoolFacts, StoPoolTask
<1>3. CASE ~StoPoolInsertable(stoTask[c].id)
  BY <1>1, <1>3, StoRollsBackInv DEF StoInsertPool
<1> QED BY <1>2, <1>3

\* The starts of destroy_vm, resume and delete_pool only take their task.
LEMMA StoPoolBeginInv ==
  ASSUME StoInv, NEW c \in StoCallers,
         StoDestroyTemplate(c) \/ StoResume(c) \/ StoDeletePool(c)
  PROVE  StoInv'
<1>1. stoTask[c].op = "none" /\ UNCHANGED <<stoPool, stoFresh, stoTorn>> /\ StoNotPool
  BY DEF StoDestroyTemplate, StoResume, StoDeletePool, StoBegins, StoAt
<1>2. \E i \in Nat, op \in StoPoolOps : stoTask' = [stoTask EXCEPT ![c] = StoTask(op, i)]
  BY StoPoolTask, StoPoolFacts DEF StoDestroyTemplate, StoResume, StoDeletePool, StoSets
<1>3. PICK i \in Nat, op \in StoPoolOps : stoTask' = [stoTask EXCEPT ![c] = StoTask(op, i)]
  BY <1>2
<1>4. PICK t : t = StoTask(op, i)  OBVIOUS
<1>5. t \in StoTasks /\ t.op \in StoPoolOps \cup {"none"}  BY <1>4, StoPoolTask
<1> QED BY <1>1, <1>3, <1>4, <1>5, StoPoolStays

\* destroy_vm removes the files before it asks for the row again.
LEMMA StoRemoveFilesInv == ASSUME StoInv, NEW c \in StoCallers, StoRemoveFiles(c) PROVE StoInv'
<1>1. /\ stoTask[c].op = "remove files" /\ "remove files" \in StoPoolOps
      /\ stoFresh' = stoFresh /\ StoNotPool
      /\ stoTorn' = stoTorn \union {"template"}
  BY StoPoolTask DEF StoRemoveFiles, StoAt, StoTore
<1>2. PICK t : t = StoTask("retire", stoTask[c].id)  OBVIOUS
<1>3. t \in StoTasks /\ t.op \in StoPoolOps \cup {"none"}  BY <1>2, StoPoolTask, StoPoolFacts
<1>4. PICK p : p = [stoPool EXCEPT !.files = FALSE]  OBVIOUS
<1>5. p \in StoPools /\ p.row = stoPool.row /\ p.template = stoPool.template
      /\ p.state = stoPool.state
  BY <1>4, StoPoolFacts DEF StoPools
<1>6. stoTask' = [stoTask EXCEPT ![c] = t] /\ stoPool' = p
  BY <1>2, <1>4 DEF StoRemoveFiles, StoSets
<1> QED BY <1>1, <1>3, <1>5, <1>6, StoPoolStep, StoPoolFacts

\* retire_vm refuses a template that a pool has taken meanwhile.
LEMMA StoRetireInv == ASSUME StoInv, NEW c \in StoCallers, StoRetire(c) PROVE StoInv'
<1>1. /\ stoTask[c].op = "retire" /\ "retire" \in StoPoolOps
      /\ stoFresh' = stoFresh /\ StoNotPool /\ stoTask' = [stoTask EXCEPT ![c] = StoIdle]
  BY StoPoolTask DEF StoRetire, StoAt, StoEnds
<1>2. PICK p : p = IF StoOwned THEN stoPool ELSE StoVmGone(stoPool)  OBVIOUS
<1>3. p \in StoPools /\ (StoOwned => p = stoPool) /\ (~StoOwned => p.row = 0 /\ p.template = 0)
  BY <1>2, StoVmGoneIs, StoPoolFacts DEF StoOwned
<1>4. /\ stoPool' = p /\ ("snapshot" \in stoTorn' <=> "snapshot" \in stoTorn)
      /\ StoOwned => "template" \in stoTorn'
  BY <1>2 DEF StoRetire, StoTore
<1>5. CASE StoOwned
  BY <1>1, <1>3, <1>4, <1>5, StoPoolStep, StoPoolFacts, StoPoolTask
<1>6. CASE ~StoOwned
  BY <1>1, <1>3, <1>4, <1>6, StoPoolStep, StoPoolTask
<1> QED BY <1>5, <1>6

\* The trigger refuses the new state of an owned template.
LEMMA StoResumedInv == ASSUME StoInv, NEW c \in StoCallers, StoResumed(c) PROVE StoInv'
<1>1. /\ stoTask[c].op = "restore" /\ "restore" \in StoPoolOps
      /\ stoFresh' = stoFresh /\ StoNotPool /\ stoTask' = [stoTask EXCEPT ![c] = StoIdle]
  BY StoPoolTask DEF StoResumed, StoAt, StoEnds
<1>2. CASE StoOwned
  <2>1. stoPool' = stoPool /\ stoTorn' = stoTorn \union {"template"}
    BY <1>2 DEF StoResumed, StoTore
  <2> QED BY <1>1, <2>1, StoPoolStep, StoPoolFacts, StoPoolTask
<1>3. CASE ~StoOwned
  <2>1. PICK p : p = [stoPool EXCEPT !.state = "running"]  OBVIOUS
  <2>2. p \in StoPools /\ p.row = stoPool.row /\ p.template = stoPool.template
        /\ (p.files <=> stoPool.files)
    BY <2>1, StoPoolFacts DEF StoPools
  <2>3. stoPool' = p /\ stoTorn' = stoTorn /\ stoPool.row = 0
    BY <1>3, <2>1 DEF StoResumed, StoOwned
  <2> QED BY <1>1, <2>2, <2>3, StoPoolStep, StoPoolFacts, StoPoolTask
<1> QED BY <1>2, <1>3

\* delete_pool removes the template's files first.
LEMMA StoRemoveTemplateInv ==
  ASSUME StoInv, NEW c \in StoCallers, NEW ok \in BOOLEAN, StoRemoveTemplate(c, ok) PROVE StoInv'
<1>1. /\ stoTask[c].op = "remove template" /\ "remove template" \in StoPoolOps
      /\ stoFresh' = stoFresh /\ StoNotPool
  BY StoPoolTask DEF StoRemoveTemplate, StoAt
<1>2. CASE ok
  <2>1. PICK t : t = StoTask("retire template", stoTask[c].id)  OBVIOUS
  <2>2. t \in StoTasks /\ t.op \in StoPoolOps \cup {"none"}  BY <2>1, StoPoolTask, StoPoolFacts
  <2>3. PICK p : p = [stoPool EXCEPT !.files = FALSE]  OBVIOUS
  <2>4. p \in StoPools /\ p.row = stoPool.row /\ p.template = stoPool.template
        /\ p.state = stoPool.state
    BY <2>3, StoPoolFacts DEF StoPools
  <2>5. stoTask' = [stoTask EXCEPT ![c] = t] /\ stoPool' = p
        /\ stoTorn' = stoTorn \union {"template"}
    BY <1>2, <2>1, <2>3 DEF StoRemoveTemplate, StoSets, StoTore
  <2> QED BY <1>1, <2>2, <2>4, <2>5, StoPoolStep, StoPoolFacts
<1>3. CASE ~ok
  <2>1. UNCHANGED <<stoPool, stoTorn>> /\ stoTask' = [stoTask EXCEPT ![c] = StoIdle]
    BY <1>3 DEF StoRemoveTemplate, StoEnds
  <2> QED BY <1>1, <2>1, StoPoolStays, StoPoolTask
<1> QED BY <1>2, <1>3

\* Then both rows go in one transaction.
LEMMA StoRetireTemplateInv ==
  ASSUME StoInv, NEW c \in StoCallers, StoRetireTemplate(c)
  PROVE StoInv'
<1>1. /\ stoTask[c].op = "retire template" /\ "retire template" \in StoPoolOps
      /\ stoFresh' = stoFresh /\ StoNotPool /\ stoTask' = [stoTask EXCEPT ![c] = StoIdle]
      /\ "snapshot" \in stoTorn' <=> "snapshot" \in stoTorn
  BY StoPoolTask DEF StoRetireTemplate, StoAt, StoEnds
<1>2. PICK q : q = StoVmGone(stoPool)  OBVIOUS
<1>3. q \in StoPools /\ q.template = 0  BY <1>2, StoVmGoneIs, StoPoolFacts
<1>4. PICK p : p = [q EXCEPT !.row = 0]  OBVIOUS
<1>5. p \in StoPools /\ p.row = 0 /\ p.template = 0  BY <1>3, <1>4 DEF StoPools
<1>6. stoPool' = p  BY <1>2, <1>4 DEF StoRetireTemplate
<1> QED BY <1>1, <1>5, <1>6, StoPoolStep, StoPoolTask

-----------------------------------------------------------------------------

\* A crash forgets the requests and stops what ran.
LEMMA StoCrashInv == ASSUME StoInv, StoCrash PROVE StoInv'
<1>1. stoTask' \in [StoCallers -> StoTasks] /\ \A c \in StoCallers : stoTask'[c].op = "none"
  BY DEF StoCrash, StoTasks, StoIdle
<1>2. UNCHANGED <<stoVolume, stoSnap, stoSecret, stoFresh, stoTorn>>  BY DEF StoCrash
<1>3. PICK p : p = [stoPool EXCEPT !.state = IF @ = "running" THEN "stopped" ELSE @]  OBVIOUS
<1>4. p \in StoPools /\ p.row = stoPool.row /\ p.template = stoPool.template
      /\ (p.files <=> stoPool.files) /\ (stoPool.state = "suspended" => p.state = "suspended")
  BY <1>3, StoPoolFacts DEF StoPools
<1>5. stoPool' = p  BY <1>3 DEF StoCrash
<1>6. StoTypeOK'  BY <1>1, <1>2, <1>4, <1>5 DEF StoInv, StoTypeOK
<1>7. StoVolumeInv'  BY <1>1, <1>2 DEF StoInv, StoVolumeInv, StoVolumeOps
<1>8. StoSnapInv'
  <2>1. "none" \notin StoSnapOps /\ "none" \notin StoCloneOps  BY StoSnapOpsAre
  <2> QED BY <1>1, <1>2, <2>1 DEF StoInv, StoSnapInv
<1>9. StoSecretInv'  BY <1>1, <1>2 DEF StoInv, StoSecretInv
<1>10. StoPoolInv'  BY <1>2, <1>4, <1>5, StoPoolFacts DEF StoPoolInv
<1> QED BY <1>6, <1>7, <1>8, <1>9, <1>10 DEF StoInv

\* Every step keeps the invariant.
LEMMA StoStep == ASSUME StoInv, [StoNext]_stoVars PROVE StoInv'
<1>1. CASE UNCHANGED stoVars
  BY <1>1 DEF stoVars, StoInv, StoTypeOK, StoVolumeInv, StoSnapInv, StoSecretInv, StoPoolInv
<1>2. CASE StoNext
  <2>1. ASSUME NEW c \in StoCallers,
               \/ StoCreateVolume(c) \/ StoAttach(c) \/ StoDeleteVolume(c)
               \/ StoCloneSnapshot(c) \/ StoInsertSnapshot(c) \/ StoUnlinkClone(c)
               \/ StoDeleteSnapshot(c) \/ StoUnlinkSnapshot(c) \/ StoSnapshotDeleted(c)
        PROVE  StoInv'
    BY <2>1, StoCreateVolumeInv, StoAttachInv, StoDeleteVolumeInv, StoCloneSnapshotInv,
       StoInsertSnapshotInv, StoUnlinkCloneInv, StoDeleteSnapshotInv, StoUnlinkSnapshotInv,
       StoSnapshotDeletedInv
  <2>2. ASSUME NEW c \in StoCallers,
               \/ StoLoadKey(c) \/ StoNewKey(c) \/ StoSeal(c)
               \/ StoCreatePool(c) \/ StoInsertPool(c) \/ StoDestroyTemplate(c)
               \/ StoRemoveFiles(c) \/ StoRetire(c) \/ StoResume(c) \/ StoResumed(c)
               \/ StoDeletePool(c) \/ StoRetireTemplate(c)
        PROVE  StoInv'
    BY <2>2, StoLoadKeyInv, StoNewKeyInv, StoSealInv, StoCreatePoolInv, StoInsertPoolInv,
       StoPoolBeginInv, StoRemoveFilesInv, StoRetireInv, StoResumedInv, StoRetireTemplateInv
  <2>3. ASSUME NEW c \in StoCallers, NEW ok \in BOOLEAN,
               \/ StoFormat(c, ok) \/ StoInsertVolume(c, ok) \/ StoCommitVm(c, ok)
               \/ StoUnlinkVolume(c, ok) \/ StoWriteKey(c, ok) \/ StoWarm(c, ok)
               \/ StoRemoveTemplate(c, ok)
        PROVE  StoInv'
    BY <2>3, StoFormatInv, StoInsertVolumeInv, StoCommitVmInv, StoUnlinkVolumeInv,
       StoWriteKeyInv, StoWarmInv, StoRemoveTemplateInv
  <2> QED BY <1>2, <2>1, <2>2, <2>3, StoDestroyVmInv, StoCrashInv DEF StoNext
<1> QED BY <1>1, <1>2

\* The invariant says what StoSound promises.
LEMMA StoInvSound == StoInv => StoSound
<1> SUFFICES ASSUME StoInv PROVE StoSound  OBVIOUS
<1>1. /\ stoVolume.row # 0 => stoVolume.file = "whole"
      /\ (stoVolume.holders # {} \/ \E c \in StoCallers : StoAt(c, "boot")) => stoVolume.row # 0
  BY DEF StoInv, StoVolumeInv, StoAt
<1>2. stoSnap.row \notin stoSnap.doomed \union {0} /\ "snapshot" \notin stoTorn =>
        stoSnap.file = stoSnap.row
  BY DEF StoInv, StoSnapInv
<1>3. stoSecret.rows # {} => stoSecret.rows = {stoSecret.key} /\ StoWholeKey
  BY DEF StoInv, StoSecretInv, StoWholeKey
<1>4. stoPool.row # 0 => /\ stoPool.template = stoPool.row /\ stoPool.state = "suspended"
                         /\ "template" \notin stoTorn => stoPool.files
  BY DEF StoInv, StoPoolInv
<1> QED BY <1>1, <1>2, <1>3, <1>4 DEF StoSound

-----------------------------------------------------------------------------
(* Services. *)

SvcRows == [absent : {FALSE}, id : Nat, desired : 0..SvcOrdinals]
SvcVms == [absent : {FALSE}, id : Nat, service : Nat, ordinal : Nat \cup {SvcNoOrdinal},
           state : {"running", "stopped"}]
SvcMaps == [SvcNames -> SvcVms \cup {SvcNone}]
SvcItems == [name : SvcNames, vm : SvcVms]
SvcTasks == [absent : {FALSE}, kind : {"create", "scale", "delete", "tick"},
             stage : {"waiting", "scaling", "running", "deleting"},
             id : Nat, desired : 0..SvcOrdinals, extra : SUBSET SvcItems, by : SUBSET SvcItems,
             at : Nat, failed : BOOLEAN, touched : BOOLEAN]

SvcTypeOK ==
  /\ svcRow \in SvcRows \cup {SvcNone} /\ svcVm \in SvcMaps
  /\ svcTask \in [SvcCallers -> SvcTasks \cup {SvcNone}]
  /\ svcFresh \in [service : Nat, vm : Nat]

\* A VM's id is its own and was given out.
SvcIds(v, f) ==
  /\ \A n \in SvcNames : SvcHas(v[n]) => v[n].id < f
  /\ \A n, m \in SvcNames : SvcHas(v[n]) /\ SvcHas(v[m]) /\ v[n].id = v[m].id => n = m

\* The service is in the catalog, or was overtaken.
SvcLives(id, row, ot) == (SvcHas(row) /\ row.id = id) \/ id \in ot

\* Among the VMs v, n is the name of an instance of the service.
SvcOwn(v, n, id) == SvcHas(v[n]) /\ v[n].service = id

\* What a reconcile has listed: instances of its service, and a VM that still
\* has the name and the id of one is that instance.
SvcItemOK(i, t, v, f) ==
  /\ i.vm.service = t.id /\ i.vm.id < f
  /\ SvcHas(v[i.name]) /\ v[i.name].id = i.vm.id => v[i.name].service = t.id
SvcListed(t, v, f) ==
  /\ \A i \in t.extra \cup t.by : SvcItemOK(i, t, v, f)
  /\ t.extra \cap t.by = {} /\ \A i \in t.by : i.vm.ordinal >= 0
  /\ t.at <= t.desired /\ (t.extra # {} => t.at = 0)
  /\ (t.kind = "delete" => t.desired = 0) /\ t.id > 0

\* Every instance is on the list or was made by this reconcile.
SvcCovers(t, v) == \A n \in SvcNames : SvcOwn(v, n, t.id) =>
  \/ \E i \in t.extra \cup t.by : i.name = n /\ i.vm.id = v[n].id
  \/ v[n].ordinal \in 0..(t.at - 1)

\* While nobody else is at work the list is exact, the ordinals passed have a
\* running instance, and only the extra ones share an ordinal.
SvcApart(t, v) == \A n, m \in SvcNames :
  /\ SvcOwn(v, n, t.id) /\ SvcOwn(v, m, t.id) /\ v[n].ordinal = v[m].ordinal
  /\ \A i \in t.extra : i.name \notin {n, m}
  => n = m
SvcUndisturbed(t, v) ==
  /\ \A i \in t.extra \cup t.by : v[i.name] = i.vm
  /\ \A o \in 0..(t.at - 1) : \E n \in SvcNames :
       SvcOwn(v, n, t.id) /\ v[n].ordinal = o /\ v[n].state = "running"
  /\ SvcApart(t, v)

SvcTaskOK(t, v, f, row, ot) ==
  /\ SvcListed(t, v, f)
  /\ t.stage \in {"waiting", "running"} => SvcLives(t.id, row, ot)
  /\ t.stage = "waiting" => t.at = 0
  /\ t.stage = "running" /\ ~t.failed => SvcCovers(t, v)
  /\ t.stage = "running" /\ ~t.failed /\ ~t.touched => SvcUndisturbed(t, v)
  /\ t.stage = "deleting" => t.id \in ot \/ \A n \in SvcNames : ~SvcOwn(v, n, t.id)

\* The service's lock: one reconcile runs, and one that runs beside a deletion
\* of the row has overtaken it.
SvcApartTasks(t, u, ot) ==
  SvcHas(t) /\ SvcHas(u) /\ t.id = u.id /\ t.stage = "running" =>
    u.stage # "running" /\ (u.stage = "deleting" => t.id \in ot)

\* The services, and the tasks that follow them.
SvcInv ==
  /\ SvcTypeOK /\ SvcIds(svcVm, svcFresh.vm)
  /\ svcFresh.service > 0 /\ (SvcHas(svcRow) => svcRow.id > 0)
  /\ \A c, d \in SvcCallers : c # d => SvcApartTasks(svcTask[c], svcTask[d], svcOvertaken)
  /\ \A c \in SvcCallers : SvcHas(svcTask[c]) =>
       SvcTaskOK(svcTask[c], svcVm, svcFresh.vm, svcRow, svcOvertaken)
  /\ \A n \in SvcNames : SvcHas(svcVm[n]) /\ svcVm[n].service # 0 =>
       SvcLives(svcVm[n].service, svcRow, svcOvertaken)
  /\ svcHarmed = {}

\* The records by their fields.
LEMMA SvcVmIs ==
  /\ \A x \in SvcVms : /\ x.id \in Nat /\ x.service \in Nat /\ x.ordinal \in Int
                       /\ (x.ordinal # SvcNoOrdinal => x.ordinal >= 0)
                       /\ x.state \in {"running", "stopped"}
  /\ \A x \in SvcVms \cup {SvcNone} : SvcHas(x) <=> x \in SvcVms
<1>1. SvcNone \notin SvcVms
  <2>1. SvcNone.absent = TRUE  BY DEF SvcNone
  <2>2. \A x \in SvcVms : x.absent = FALSE  BY DEF SvcVms
  <2> QED BY <2>1, <2>2
<1>2. \A x \in SvcVms : x.ordinal \in Nat \cup {SvcNoOrdinal}  BY DEF SvcVms
<1>3. \A o \in Nat \cup {SvcNoOrdinal} : o \in Int /\ (o # SvcNoOrdinal => o >= 0)
  BY DEF SvcNoOrdinal
<1>4. \A x \in SvcVms : /\ x.id \in Nat /\ x.service \in Nat
                       /\ x.state \in {"running", "stopped"}
  BY DEF SvcVms
<1>5. \A x \in SvcVms \cup {SvcNone} : SvcHas(x) <=> x \in SvcVms  BY <1>1 DEF SvcHas
<1> QED BY <1>2, <1>3, <1>4, <1>5

\* A service row.
LEMMA SvcRowIs ==
  /\ \A x \in SvcRows : x.id \in Nat /\ x.desired \in 0..SvcOrdinals
  /\ \A x \in SvcRows \cup {SvcNone} : SvcHas(x) <=> x \in SvcRows
<1>1. SvcNone \notin SvcRows
  <2>1. SvcNone.absent = TRUE  BY DEF SvcNone
  <2>2. \A x \in SvcRows : x.absent = FALSE  BY DEF SvcRows
  <2> QED BY <2>1, <2>2
<1> QED BY <1>1 DEF SvcRows, SvcHas

\* A listed instance.
LEMMA SvcItemIs == \A i \in SvcItems : i.name \in SvcNames /\ i.vm \in SvcVms
  BY DEF SvcItems

\* A caller's task.
LEMMA SvcTaskIs ==
  /\ \A t \in SvcTasks : /\ t.id \in Nat /\ t.desired \in 0..SvcOrdinals /\ t.at \in Nat
                         /\ t.extra \subseteq SvcItems /\ t.by \subseteq SvcItems
                         /\ t.failed \in BOOLEAN /\ t.touched \in BOOLEAN
                         /\ t.stage \in {"waiting", "scaling", "running", "deleting"}
  /\ \A t \in SvcTasks \cup {SvcNone} : SvcHas(t) <=> t \in SvcTasks
<1>1. SvcNone \notin SvcTasks
  <2>1. SvcNone.absent = TRUE  BY DEF SvcNone
  <2>2. \A x \in SvcTasks : x.absent = FALSE  BY DEF SvcTasks
  <2> QED BY <2>1, <2>2
<1> QED BY <1>1 DEF SvcTasks, SvcHas

\* The VMs by name, and one of them replaced.
LEMMA SvcMapIs ==
  ASSUME NEW v \in SvcMaps, NEW n \in SvcNames, NEW x \in SvcVms \cup {SvcNone}
  PROVE  /\ v[n] \in SvcVms \cup {SvcNone} /\ (SvcHas(v[n]) => v[n] \in SvcVms)
         /\ [v EXCEPT ![n] = x] \in SvcMaps /\ [v EXCEPT ![n] = x][n] = x
         /\ \A m \in SvcNames \ {n} : [v EXCEPT ![n] = x][m] = v[m]
<1>1. v[n] \in SvcVms \cup {SvcNone}  BY DEF SvcMaps
<1> QED BY <1>1, SvcVmIs DEF SvcMaps

\* A VM of another service goes, or one that is no concern of the task.
LEMMA SvcOtherGone ==
  ASSUME NEW v \in SvcMaps, NEW w \in SvcMaps, NEW n \in SvcNames, SvcHas(v[n]),
         w[n] = SvcNone, \A m \in SvcNames \ {n} : w[m] = v[m],
         NEW t \in SvcTasks, NEW f, NEW row, NEW ot, SvcTaskOK(t, v, f, row, ot),
         t.stage = "running" => v[n].service # t.id
  PROVE  SvcTaskOK(t, w, f, row, ot)
<1>1. t.extra \subseteq SvcItems /\ t.by \subseteq SvcItems  BY SvcTaskIs
<1>2. \A m \in SvcNames, id \in Nat : SvcOwn(w, m, id) => SvcOwn(v, m, id) /\ w[m] = v[m]
  BY DEF SvcOwn, SvcHas
<1>3. SvcListed(t, w, f)
  <2>1. SvcListed(t, v, f)  BY DEF SvcTaskOK
  <2>2. \A i \in t.extra \cup t.by : SvcItemOK(i, t, w, f)
    <3> SUFFICES ASSUME NEW i \in t.extra \cup t.by PROVE SvcItemOK(i, t, w, f)  OBVIOUS
    <3>1. i.name \in SvcNames /\ SvcItemOK(i, t, v, f)  BY <1>1, <2>1, SvcItemIs DEF SvcListed
    <3> QED BY <3>1 DEF SvcItemOK, SvcHas
  <2> QED BY <2>1, <2>2 DEF SvcListed
<1>4. t.id \in Nat  BY SvcTaskIs
<1>5. ASSUME t.stage = "running", ~t.failed PROVE SvcCovers(t, w)
  <2>1. SvcCovers(t, v)  BY <1>5 DEF SvcTaskOK
  <2> QED BY <1>2, <1>4, <2>1 DEF SvcCovers
<1>6. ASSUME t.stage = "running", ~t.failed, ~t.touched PROVE SvcUndisturbed(t, w)
  <2>1. SvcUndisturbed(t, v) /\ SvcListed(t, v, f) /\ v[n].service # t.id
    BY <1>6 DEF SvcTaskOK
  <2>2. \A i \in t.extra \cup t.by : w[i.name] = i.vm
    <3> SUFFICES ASSUME NEW i \in t.extra \cup t.by PROVE w[i.name] = i.vm  OBVIOUS
    <3>1. i.name \in SvcNames /\ v[i.name] = i.vm /\ i.vm.service = t.id
      BY <1>1, <2>1, SvcItemIs DEF SvcUndisturbed, SvcListed, SvcItemOK
    <3> QED BY <2>1, <3>1
  <2>3. \A o \in 0..(t.at - 1) : \E m \in SvcNames :
          SvcOwn(w, m, t.id) /\ w[m].ordinal = o /\ w[m].state = "running"
    <3> SUFFICES ASSUME NEW o \in 0..(t.at - 1)
                 PROVE  \E m \in SvcNames :
                          SvcOwn(w, m, t.id) /\ w[m].ordinal = o /\ w[m].state = "running"
      OBVIOUS
    <3>1. PICK m \in SvcNames : SvcOwn(v, m, t.id) /\ v[m].ordinal = o /\ v[m].state = "running"
      BY <2>1 DEF SvcUndisturbed
    <3>2. m # n  BY <2>1, <3>1 DEF SvcOwn
    <3> QED BY <3>1, <3>2 DEF SvcOwn
  <2>4. SvcApart(t, w)
    <3>1. SvcApart(t, v)  BY <2>1 DEF SvcUndisturbed
    <3> QED BY <1>2, <1>4, <3>1 DEF SvcApart
  <2> QED BY <2>2, <2>3, <2>4 DEF SvcUndisturbed
<1>7. ASSUME t.stage = "deleting" PROVE t.id \in ot \/ \A m \in SvcNames : ~SvcOwn(w, m, t.id)
  BY <1>2, <1>4, <1>7 DEF SvcTaskOK
<1> QED BY <1>3, <1>5, <1>6, <1>7 DEF SvcTaskOK

\* A VM of another service is created under a free name.
LEMMA SvcOtherMade ==
  ASSUME NEW v \in SvcMaps, NEW w \in SvcMaps, NEW n \in SvcNames, ~SvcHas(v[n]),
         \A m \in SvcNames \ {n} : w[m] = v[m], NEW f \in Nat, w[n].id = f,
         NEW t \in SvcTasks, NEW row, NEW ot, SvcTaskOK(t, v, f, row, ot),
         t.stage = "running" => w[n].service # t.id,
         t.stage = "deleting" /\ w[n].service = t.id => t.id \in ot
  PROVE  SvcTaskOK(t, w, f + 1, row, ot)
<1>1. t.extra \subseteq SvcItems /\ t.by \subseteq SvcItems /\ t.id \in Nat  BY SvcTaskIs
<1>2. \A m \in SvcNames : m # n \/ w[n].service # t.id =>
        (SvcOwn(w, m, t.id) => m # n /\ SvcOwn(v, m, t.id) /\ w[m] = v[m])
  BY DEF SvcOwn, SvcHas
<1>3. SvcListed(t, w, f + 1)
  <2>1. SvcListed(t, v, f)  BY DEF SvcTaskOK
  <2>2. \A i \in t.extra \cup t.by : SvcItemOK(i, t, w, f + 1)
    <3> SUFFICES ASSUME NEW i \in t.extra \cup t.by PROVE SvcItemOK(i, t, w, f + 1)  OBVIOUS
    <3>1. i.name \in SvcNames /\ i.vm \in SvcVms /\ SvcItemOK(i, t, v, f)
      BY <1>1, <2>1, SvcItemIs DEF SvcListed
    <3>2. i.vm.id \in Nat /\ i.vm.id < f /\ i.vm.id < f + 1 /\ i.vm.id # f
      BY <3>1, SvcVmIs DEF SvcItemOK
    <3> QED BY <3>1, <3>2 DEF SvcItemOK
  <2> QED BY <2>1, <2>2 DEF SvcListed
<1>5. ASSUME t.stage = "running", ~t.failed PROVE SvcCovers(t, w)
  <2>1. SvcCovers(t, v)  BY <1>5 DEF SvcTaskOK
  <2> QED BY <1>2, <1>5, <2>1 DEF SvcCovers
<1>6. ASSUME t.stage = "running", ~t.failed, ~t.touched PROVE SvcUndisturbed(t, w)
  <2>1. SvcUndisturbed(t, v) /\ w[n].service # t.id
    BY <1>6 DEF SvcTaskOK
  <2>2. \A i \in t.extra \cup t.by : w[i.name] = i.vm
    <3> SUFFICES ASSUME NEW i \in t.extra \cup t.by PROVE w[i.name] = i.vm  OBVIOUS
    <3>1. i.name \in SvcNames /\ v[i.name] = i.vm /\ i.vm \in SvcVms
      BY <1>1, <2>1, SvcItemIs DEF SvcUndisturbed
    <3>2. i.name # n  BY <3>1, SvcVmIs
    <3> QED BY <3>1, <3>2
  <2>3. \A o \in 0..(t.at - 1) : \E m \in SvcNames :
          SvcOwn(w, m, t.id) /\ w[m].ordinal = o /\ w[m].state = "running"
    <3> SUFFICES ASSUME NEW o \in 0..(t.at - 1)
                 PROVE  \E m \in SvcNames :
                          SvcOwn(w, m, t.id) /\ w[m].ordinal = o /\ w[m].state = "running"
      OBVIOUS
    <3>1. PICK m \in SvcNames : SvcOwn(v, m, t.id) /\ v[m].ordinal = o /\ v[m].state = "running"
      BY <2>1 DEF SvcUndisturbed
    <3>2. m # n  BY <3>1 DEF SvcOwn
    <3> QED BY <3>1, <3>2 DEF SvcOwn
  <2>4. SvcApart(t, w)
    <3>1. SvcApart(t, v)  BY <2>1 DEF SvcUndisturbed
    <3> QED BY <1>2, <2>1, <3>1 DEF SvcApart
  <2> QED BY <2>2, <2>3, <2>4 DEF SvcUndisturbed
<1>7. ASSUME t.stage = "deleting" PROVE t.id \in ot \/ \A m \in SvcNames : ~SvcOwn(w, m, t.id)
  BY <1>2, <1>7 DEF SvcTaskOK
<1> QED BY <1>3, <1>5, <1>6, <1>7 DEF SvcTaskOK

\* The catalog changes, the VMs do not.
LEMMA SvcSameVms ==
  ASSUME NEW t \in SvcTasks, NEW v, NEW f, NEW row, NEW ot, SvcTaskOK(t, v, f, row, ot),
         NEW row2, NEW ot2, ot \subseteq ot2,
         t.stage \in {"waiting", "running"} => SvcLives(t.id, row2, ot2)
  PROVE  SvcTaskOK(t, v, f, row2, ot2)
  BY DEF SvcTaskOK

\* A user or a guest changes the VM of one name: the task learns of it, and what
\* it still relies on is what its list and its own creations cover.
LEMMA SvcTouches ==
  ASSUME NEW v \in SvcMaps, NEW w \in SvcMaps, NEW n \in SvcNames,
         \A m \in SvcNames \ {n} : w[m] = v[m], NEW f \in Nat, NEW g \in {f, f + 1},
         SvcHas(w[n]) =>
           \/ /\ SvcHas(v[n]) /\ w[n].id = v[n].id /\ w[n].service = v[n].service
              /\ w[n].ordinal = v[n].ordinal
           \/ w[n].id = f /\ w[n].service = 0,
         NEW t \in SvcTasks, NEW row, NEW ot, SvcTaskOK(t, v, f, row, ot)
  PROVE  LET u == [t EXCEPT !.touched = TRUE]
         IN u \in SvcTasks /\ SvcTaskOK(u, w, g, row, ot) /\ u.id = t.id /\ u.stage = t.stage
<1>1. PICK u : u = [t EXCEPT !.touched = TRUE]  OBVIOUS
<1>2. /\ u \in SvcTasks /\ u.touched /\ u.id = t.id /\ u.stage = t.stage /\ u.extra = t.extra
      /\ u.by = t.by /\ u.at = t.at /\ u.desired = t.desired /\ u.kind = t.kind
      /\ (u.failed <=> t.failed)
  BY <1>1 DEF SvcTasks
<1>3. t.extra \subseteq SvcItems /\ t.by \subseteq SvcItems /\ t.id \in Nat /\ t.id > 0
  BY SvcTaskIs DEF SvcTaskOK, SvcListed
<1>4. \A m \in SvcNames : SvcOwn(w, m, t.id) =>
        SvcOwn(v, m, t.id) /\ w[m].id = v[m].id /\ w[m].ordinal = v[m].ordinal
  BY <1>3 DEF SvcOwn
<1>5. SvcListed(u, w, g)
  <2>1. SvcListed(t, v, f)  BY DEF SvcTaskOK
  <2>2. \A i \in t.extra \cup t.by : SvcItemOK(i, u, w, g)
    <3> SUFFICES ASSUME NEW i \in t.extra \cup t.by PROVE SvcItemOK(i, u, w, g)  OBVIOUS
    <3>1. i.name \in SvcNames /\ i.vm \in SvcVms /\ SvcItemOK(i, t, v, f)
      BY <1>3, <2>1, SvcItemIs DEF SvcListed
    <3>2. i.vm.id \in Nat /\ i.vm.id < f /\ i.vm.id < g /\ i.vm.id # f
      BY <3>1, SvcVmIs DEF SvcItemOK
    <3> QED BY <1>2, <3>1, <3>2 DEF SvcItemOK
  <2> QED BY <1>2, <2>1, <2>2 DEF SvcListed
<1>6. ASSUME u.stage = "running", ~u.failed PROVE SvcCovers(u, w)
  <2>1. SvcCovers(t, v)  BY <1>2, <1>6 DEF SvcTaskOK
  <2> QED BY <1>2, <1>4, <2>1 DEF SvcCovers
<1>7. ASSUME u.stage = "deleting" PROVE u.id \in ot \/ \A m \in SvcNames : ~SvcOwn(w, m, u.id)
  BY <1>2, <1>4, <1>7 DEF SvcTaskOK
<1>8. u.stage \in {"waiting", "running"} => SvcLives(u.id, row, ot)
  BY <1>2 DEF SvcTaskOK
<1>9. SvcTaskOK(u, w, g, row, ot)  BY <1>2, <1>5, <1>6, <1>7, <1>8 DEF SvcTaskOK
<1> QED BY <1>1, <1>2, <1>9

\* A step of caller c, which goes on with the task t: what is left to show.
LEMMA SvcCallerMoves ==
  ASSUME SvcInv, NEW c \in SvcCallers, NEW t \in SvcTasks \cup {SvcNone},
         svcTask' = [svcTask EXCEPT ![c] = t],
         svcRow' \in SvcRows \cup {SvcNone}, svcVm' \in SvcMaps,
         svcFresh' \in [service : Nat, vm : Nat], svcFresh'.service > 0,
         SvcHas(svcRow') => svcRow'.id > 0,
         SvcIds(svcVm', svcFresh'.vm), svcOvertaken \subseteq svcOvertaken', svcHarmed' = {},
         \A n \in SvcNames : SvcHas(svcVm'[n]) /\ svcVm'[n].service # 0 =>
           SvcLives(svcVm'[n].service, svcRow', svcOvertaken'),
         SvcHas(t) => SvcTaskOK(t, svcVm', svcFresh'.vm, svcRow', svcOvertaken'),
         \A d \in SvcCallers \ {c} : SvcHas(svcTask[d]) =>
           SvcTaskOK(svcTask[d], svcVm', svcFresh'.vm, svcRow', svcOvertaken'),
         \A d \in SvcCallers \ {c} :
           SvcApartTasks(t, svcTask[d], svcOvertaken') /\ SvcApartTasks(svcTask[d], t, svcOvertaken')
  PROVE  SvcInv'
<1>1. svcTask \in [SvcCallers -> SvcTasks \cup {SvcNone}]  BY DEF SvcInv, SvcTypeOK
<1>2. svcTask'[c] = t /\ \A d \in SvcCallers \ {c} : svcTask'[d] = svcTask[d]  BY <1>1
<1>3. SvcTypeOK'  BY <1>1 DEF SvcTypeOK
<1>4. \A d, e \in SvcCallers : d # e => SvcApartTasks(svcTask'[d], svcTask'[e], svcOvertaken')
  <2> SUFFICES ASSUME NEW d \in SvcCallers, NEW e \in SvcCallers, d # e
               PROVE  SvcApartTasks(svcTask'[d], svcTask'[e], svcOvertaken')
    OBVIOUS
  <2>1. CASE d = c  BY <1>2, <2>1
  <2>2. CASE e = c  BY <1>2, <2>2
  <2>3. CASE d # c /\ e # c
    <3>1. SvcApartTasks(svcTask[d], svcTask[e], svcOvertaken)  BY DEF SvcInv
    <3> QED BY <1>2, <2>3, <3>1 DEF SvcApartTasks
  <2> QED BY <2>1, <2>2, <2>3
<1>5. \A d \in SvcCallers : SvcHas(svcTask'[d]) =>
        SvcTaskOK(svcTask'[d], svcVm', svcFresh'.vm, svcRow', svcOvertaken')
  BY <1>2
<1>6. SvcTypeOK' /\ SvcIds(svcVm', svcFresh'.vm)  BY <1>3
<1> QED BY <1>4, <1>5, <1>6 DEF SvcInv

\* What the invariant says, by parts.
LEMMA SvcFacts ==
  ASSUME SvcInv
  PROVE  /\ svcRow \in SvcRows \cup {SvcNone} /\ svcVm \in SvcMaps
         /\ svcFresh \in [service : Nat, vm : Nat] /\ svcFresh.vm \in Nat /\ svcFresh.service \in Nat
         /\ svcFresh.service > 0 /\ (SvcHas(svcRow) => svcRow.id > 0)
         /\ \A c \in SvcCallers : SvcHas(svcTask[c]) => svcTask[c] \in SvcTasks /\
              SvcTaskOK(svcTask[c], svcVm, svcFresh.vm, svcRow, svcOvertaken)
         /\ SvcIds(svcVm, svcFresh.vm) /\ svcHarmed = {}
         /\ \A n \in SvcNames : SvcHas(svcVm[n]) /\ svcVm[n].service # 0 =>
              SvcLives(svcVm[n].service, svcRow, svcOvertaken)
<1>1. \A c \in SvcCallers : svcTask[c] \in SvcTasks \cup {SvcNone}  BY DEF SvcInv, SvcTypeOK
<1>2. \A c \in SvcCallers : SvcHas(svcTask[c]) => svcTask[c] \in SvcTasks  BY <1>1, SvcTaskIs
<1>3. svcFresh \in [service : Nat, vm : Nat]  BY DEF SvcInv, SvcTypeOK
<1>4. svcFresh.vm \in Nat /\ svcFresh.service \in Nat  BY <1>3
<1>5. svcRow \in SvcRows \cup {SvcNone} /\ svcVm \in SvcMaps  BY DEF SvcInv, SvcTypeOK
<1>6. \A c \in SvcCallers : SvcHas(svcTask[c]) => svcTask[c] \in SvcTasks /\
        SvcTaskOK(svcTask[c], svcVm, svcFresh.vm, svcRow, svcOvertaken)
  BY <1>2 DEF SvcInv
<1>7. svcFresh.service > 0 /\ (SvcHas(svcRow) => svcRow.id > 0) /\ svcHarmed = {}
      /\ SvcIds(svcVm, svcFresh.vm)
  BY DEF SvcInv
<1>8. \A n \in SvcNames : SvcHas(svcVm[n]) /\ svcVm[n].service # 0 =>
        SvcLives(svcVm[n].service, svcRow, svcOvertaken)
  BY DEF SvcInv
<1> QED BY <1>3, <1>4, <1>5, <1>6, <1>7, <1>8, Zenon

\* What is known of one task.
LEMMA SvcTaskFacts ==
  ASSUME SvcInv, NEW c \in SvcCallers, SvcHas(svcTask[c])
  PROVE  /\ svcTask[c] \in SvcTasks
         /\ SvcTaskOK(svcTask[c], svcVm, svcFresh.vm, svcRow, svcOvertaken)
  BY SvcFacts

\* A step of c that changes neither VMs nor ids, and drops no service that a
\* task follows.
LEMMA SvcQuietStep ==
  ASSUME SvcInv, NEW c \in SvcCallers, NEW t \in SvcTasks \cup {SvcNone},
         svcTask' = [svcTask EXCEPT ![c] = t],
         svcRow' \in SvcRows \cup {SvcNone}, SvcHas(svcRow') => svcRow'.id > 0,
         UNCHANGED <<svcVm, svcHarmed>>,
         svcFresh' \in [service : Nat, vm : Nat], svcFresh'.vm = svcFresh.vm,
         svcFresh'.service > 0, svcOvertaken \subseteq svcOvertaken',
         \A n \in SvcNames : SvcHas(svcVm[n]) /\ svcVm[n].service # 0 =>
           SvcLives(svcVm[n].service, svcRow', svcOvertaken'),
         \A d \in SvcCallers \ {c} : SvcHas(svcTask[d]) =>
           (svcTask[d].stage \in {"waiting", "running"} =>
              SvcLives(svcTask[d].id, svcRow', svcOvertaken')),
         SvcHas(t) => SvcTaskOK(t, svcVm, svcFresh.vm, svcRow', svcOvertaken'),
         \A d \in SvcCallers \ {c} :
           SvcApartTasks(t, svcTask[d], svcOvertaken') /\ SvcApartTasks(svcTask[d], t, svcOvertaken')
  PROVE  SvcInv'
<1>1. \A d \in SvcCallers \ {c} : SvcHas(svcTask[d]) =>
        SvcTaskOK(svcTask[d], svcVm, svcFresh.vm, svcRow', svcOvertaken')
  BY SvcTaskFacts, SvcSameVms
<1>2. svcVm' = svcVm /\ svcVm \in SvcMaps /\ SvcIds(svcVm, svcFresh.vm) /\ svcHarmed' = {}
  BY SvcFacts
<1>3. \A d \in SvcCallers \ {c} : SvcHas(svcTask[d]) =>
        SvcTaskOK(svcTask[d], svcVm', svcFresh'.vm, svcRow', svcOvertaken')
  BY <1>1, <1>2
<1>4. svcVm' \in SvcMaps /\ SvcIds(svcVm', svcFresh'.vm)  BY <1>2
<1>5. SvcHas(t) => SvcTaskOK(t, svcVm', svcFresh'.vm, svcRow', svcOvertaken')  BY <1>2
<1>6. \A n \in SvcNames : SvcHas(svcVm'[n]) /\ svcVm'[n].service # 0 =>
        SvcLives(svcVm'[n].service, svcRow', svcOvertaken')
  BY <1>2
<1> QED BY <1>2, <1>3, <1>4, <1>5, <1>6, SvcCallerMoves

\* A task that has listed nothing yet.
LEMMA SvcFreshTask ==
  ASSUME NEW t \in SvcTasks, t.stage \in {"waiting", "scaling"}, t.extra = {}, t.by = {},
         t.at = 0, t.id > 0, t.kind = "delete" => t.desired = 0, NEW v, NEW f, NEW row, NEW ot,
         t.stage = "waiting" => SvcLives(t.id, row, ot)
  PROVE  SvcTaskOK(t, v, f, row, ot)
<1>1. t.desired \in Nat  BY SvcTaskIs, SvcAssumption
<1>2. SvcListed(t, v, f)  BY <1>1 DEF SvcListed
<1> QED BY <1>2 DEF SvcTaskOK

\* What a caller hands to the reconcile.
LEMMA SvcReconcileIs ==
  ASSUME NEW kind \in {"create", "scale", "delete", "tick"}, NEW row \in SvcRows
  PROVE  LET t == SvcReconcile(kind, row) IN
         /\ t \in SvcTasks /\ t.stage = "waiting" /\ t.extra = {} /\ t.by = {} /\ t.at = 0
         /\ t.id = row.id /\ t.desired = row.desired /\ t.kind = kind
  BY SvcRowIs DEF SvcReconcile, SvcTasks

\* One that neither runs nor deletes is in nobody's way.
LEMMA SvcPatient ==
  ASSUME NEW t, t.stage \in {"waiting", "scaling"}, NEW u, NEW ot
  PROVE  SvcApartTasks(t, u, ot) /\ SvcApartTasks(u, t, ot)
  BY DEF SvcApartTasks

\* Nor is one that has ended.
LEMMA SvcGoneTask ==
  ASSUME NEW u, NEW ot
  PROVE  SvcApartTasks(SvcNone, u, ot) /\ SvcApartTasks(u, SvcNone, ot) /\ ~SvcHas(SvcNone)
  BY DEF SvcApartTasks, SvcHas

-----------------------------------------------------------------------------
(* The callers. *)

\* A caller that begins only reads the row.
LEMMA SvcBeginsInv ==
  ASSUME SvcInv, NEW c \in SvcCallers, NEW t \in SvcTasks, t.stage \in {"waiting", "scaling"},
         t.extra = {}, t.by = {}, t.at = 0, t.id > 0, t.kind = "delete" => t.desired = 0,
         t.stage = "waiting" => SvcLives(t.id, svcRow, svcOvertaken),
         svcTask' = [svcTask EXCEPT ![c] = t],
         UNCHANGED <<svcRow, svcVm, svcFresh, svcHarmed, svcOvertaken>>
  PROVE  SvcInv'
<1>1. SvcTaskOK(t, svcVm, svcFresh.vm, svcRow, svcOvertaken)  BY SvcFreshTask
<1>2. \A d \in SvcCallers \ {c} : SvcHas(svcTask[d]) =>
        (svcTask[d].stage \in {"waiting", "running"} =>
           SvcLives(svcTask[d].id, svcRow, svcOvertaken))
  BY SvcTaskFacts DEF SvcTaskOK
<1>3. \A d \in SvcCallers \ {c} : SvcApartTasks(t, svcTask[d], svcOvertaken)
        /\ SvcApartTasks(svcTask[d], t, svcOvertaken)
  BY SvcPatient
<1> QED BY <1>1, <1>2, <1>3, SvcQuietStep, SvcFacts

\* create_service inserts the row and reconciles it.
LEMMA SvcCreateInv ==
  ASSUME SvcInv, NEW c \in SvcCallers, NEW desired \in 0..SvcOrdinals, SvcCreate(c, desired)
  PROVE  SvcInv'
<1>1. PICK row : row = [absent |-> FALSE, id |-> svcFresh.service, desired |-> desired]  OBVIOUS
<1>2. row \in SvcRows /\ row.id = svcFresh.service /\ row.id > 0  BY <1>1, SvcFacts DEF SvcRows
<1>3. PICK t : t = SvcReconcile("create", row)  OBVIOUS
<1>4. /\ t \in SvcTasks /\ t.stage = "waiting" /\ t.extra = {} /\ t.by = {} /\ t.at = 0
      /\ t.id = row.id /\ t.kind = "create"
  BY <1>2, <1>3, SvcReconcileIs
<1>5. /\ svcTask' = [svcTask EXCEPT ![c] = t] /\ svcRow' = row /\ ~SvcHas(svcRow)
      /\ svcFresh' = [svcFresh EXCEPT !.service = @ + 1]
      /\ UNCHANGED <<svcVm, svcHarmed, svcOvertaken>>
  BY <1>1, <1>3 DEF SvcCreate, SvcTasked
<1>6. svcFresh' \in [service : Nat, vm : Nat] /\ svcFresh'.vm = svcFresh.vm
      /\ svcFresh'.service > 0
  BY <1>5, SvcFacts
<1>7. \A id : SvcLives(id, svcRow, svcOvertaken) => SvcLives(id, row, svcOvertaken)
  BY <1>5 DEF SvcLives
<1>8. SvcHas(row) /\ SvcLives(t.id, row, svcOvertaken)
  <2>1. SvcHas(row)  BY <1>2, SvcRowIs
  <2> QED BY <1>4, <2>1 DEF SvcLives
<1>9. SvcTaskOK(t, svcVm, svcFresh.vm, row, svcOvertaken)  BY <1>2, <1>4, <1>8, SvcFreshTask
<1>10. \A d \in SvcCallers \ {c} : SvcHas(svcTask[d]) =>
        (svcTask[d].stage \in {"waiting", "running"} =>
           SvcLives(svcTask[d].id, row, svcOvertaken))
  BY <1>7, SvcTaskFacts DEF SvcTaskOK
<1>11. \A d \in SvcCallers \ {c} : SvcApartTasks(t, svcTask[d], svcOvertaken)
        /\ SvcApartTasks(svcTask[d], t, svcOvertaken)
  BY <1>4, SvcPatient
<1>12. \A n \in SvcNames : SvcHas(svcVm[n]) /\ svcVm[n].service # 0 =>
           SvcLives(svcVm[n].service, row, svcOvertaken)
  BY <1>7, SvcFacts
<1> QED BY <1>2, <1>4, <1>5, <1>6, <1>9, <1>10, <1>11, <1>12, SvcQuietStep

\* scale_service checks the request against the row it read.
LEMMA SvcScaleInv ==
  ASSUME SvcInv, NEW c \in SvcCallers, NEW desired \in 0..SvcOrdinals, SvcScale(c, desired)
  PROVE  SvcInv'
<1>0. SvcHas(svcRow)  BY DEF SvcScale
<1>1. svcRow \in SvcRows /\ svcRow.id > 0  BY <1>0, SvcFacts, SvcRowIs
<1>2. PICK r : r = SvcReconcile("scale", svcRow)  OBVIOUS
<1>3. /\ r \in SvcTasks /\ r.extra = {} /\ r.by = {} /\ r.at = 0
      /\ r.id = svcRow.id /\ r.kind = "scale"
  BY <1>1, <1>2, SvcReconcileIs
<1>4. PICK t : t = [r EXCEPT !.stage = "scaling", !.desired = desired]  OBVIOUS
<1>5. /\ t \in SvcTasks /\ t.stage = "scaling" /\ t.extra = {} /\ t.by = {} /\ t.at = 0
      /\ t.id > 0 /\ t.kind = "scale"
  BY <1>1, <1>3, <1>4 DEF SvcTasks
<1>6. svcTask' = [svcTask EXCEPT ![c] = t]
      /\ UNCHANGED <<svcRow, svcVm, svcFresh, svcHarmed, svcOvertaken>>
  BY <1>2, <1>4 DEF SvcScale, SvcTasked
<1> QED BY <1>5, <1>6, SvcBeginsInv

\* delete_service scales to nothing first.
LEMMA SvcDeleteInv == ASSUME SvcInv, NEW c \in SvcCallers, SvcDelete(c) PROVE SvcInv'
<1>1. svcRow \in SvcRows /\ svcRow.id > 0 /\ SvcHas(svcRow)  BY SvcFacts, SvcRowIs DEF SvcDelete
<1>2. PICK r : r = [svcRow EXCEPT !.desired = 0]  OBVIOUS
<1>3. r \in SvcRows /\ r.id = svcRow.id /\ r.desired = 0
  <2>1. 0 \in 0..SvcOrdinals  BY SvcAssumption
  <2> QED BY <1>1, <1>2, <2>1 DEF SvcRows
<1>4. PICK t : t = SvcReconcile("delete", r)  OBVIOUS
<1>5. /\ t \in SvcTasks /\ t.stage = "waiting" /\ t.extra = {} /\ t.by = {} /\ t.at = 0
      /\ t.id = svcRow.id /\ t.desired = 0
  BY <1>3, <1>4, SvcReconcileIs
<1>6. svcTask' = [svcTask EXCEPT ![c] = t]
      /\ UNCHANGED <<svcRow, svcVm, svcFresh, svcHarmed, svcOvertaken>>
  BY <1>2, <1>4 DEF SvcDelete, SvcTasked
<1>7. SvcLives(t.id, svcRow, svcOvertaken)  BY <1>1, <1>5 DEF SvcLives
<1> QED BY <1>1, <1>5, <1>6, <1>7, SvcBeginsInv

\* The daemon's loop takes the record it listed.
LEMMA SvcTickInv == ASSUME SvcInv, NEW c \in SvcCallers, SvcTick(c) PROVE SvcInv'
<1>1. svcRow \in SvcRows /\ svcRow.id > 0 /\ SvcHas(svcRow)  BY SvcFacts, SvcRowIs DEF SvcTick
<1>4. PICK t : t = SvcReconcile("tick", svcRow)  OBVIOUS
<1>5. /\ t \in SvcTasks /\ t.stage = "waiting" /\ t.extra = {} /\ t.by = {} /\ t.at = 0
      /\ t.id = svcRow.id /\ t.kind = "tick"
  BY <1>1, <1>4, SvcReconcileIs
<1>6. svcTask' = [svcTask EXCEPT ![c] = t]
      /\ UNCHANGED <<svcRow, svcVm, svcFresh, svcHarmed, svcOvertaken>>
  BY <1>4 DEF SvcTick, SvcTasked
<1>7. SvcLives(t.id, svcRow, svcOvertaken)  BY <1>1, <1>5 DEF SvcLives
<1> QED BY <1>1, <1>5, <1>6, <1>7, SvcBeginsInv

\* The update by id leaves the row's id, or the caller stops.
LEMMA SvcScaledInv == ASSUME SvcInv, NEW c \in SvcCallers, SvcScaled(c) PROVE SvcInv'
<1>1. PICK s : s = svcTask[c]  OBVIOUS
<1>2. s \in SvcTasks /\ s.desired \in 0..SvcOrdinals
  BY <1>1, SvcTaskFacts, SvcTaskIs DEF SvcScaled
<1>3. UNCHANGED <<svcVm, svcFresh, svcHarmed, svcOvertaken>>  BY DEF SvcScaled
<1>4. CASE SvcHas(svcRow) /\ svcRow.id = s.id
  <2>1. svcRow \in SvcRows /\ svcRow.id > 0  BY <1>4, SvcFacts, SvcRowIs
  <2>2. PICK row : row = [svcRow EXCEPT !.desired = s.desired]  OBVIOUS
  <2>3. row \in SvcRows /\ row.id = svcRow.id  BY <1>2, <2>1, <2>2 DEF SvcRows
  <2>4. PICK t : t = SvcReconcile("scale", row)  OBVIOUS
  <2>5. /\ t \in SvcTasks /\ t.stage = "waiting" /\ t.extra = {} /\ t.by = {} /\ t.at = 0
        /\ t.id = row.id /\ t.kind = "scale"
    BY <2>3, <2>4, SvcReconcileIs
  <2>6. svcTask' = [svcTask EXCEPT ![c] = t] /\ svcRow' = row
    BY <1>1, <1>4, <2>2, <2>4 DEF SvcScaled, SvcTasked
  <2>7. SvcHas(row)  BY <2>3, SvcRowIs
  <2>8. \A id : SvcLives(id, svcRow, svcOvertaken) => SvcLives(id, row, svcOvertaken)
    BY <1>4, <2>3, <2>7 DEF SvcLives
  <2>9. SvcTaskOK(t, svcVm, svcFresh.vm, row, svcOvertaken)
    <3>1. SvcLives(t.id, row, svcOvertaken)  BY <2>5, <2>7 DEF SvcLives
    <3> QED BY <2>1, <2>3, <2>5, <3>1, SvcFreshTask
  <2>10. \A d \in SvcCallers \ {c} : SvcHas(svcTask[d]) =>
          (svcTask[d].stage \in {"waiting", "running"} =>
             SvcLives(svcTask[d].id, row, svcOvertaken))
    BY <2>8, SvcTaskFacts DEF SvcTaskOK
  <2>11. \A d \in SvcCallers \ {c} : SvcApartTasks(t, svcTask[d], svcOvertaken)
          /\ SvcApartTasks(svcTask[d], t, svcOvertaken)
    BY <2>5, SvcPatient
  <2>12. \A n \in SvcNames : SvcHas(svcVm[n]) /\ svcVm[n].service # 0 =>
             SvcLives(svcVm[n].service, row, svcOvertaken)
    BY <2>8, SvcFacts
  <2> QED BY <1>3, <2>1, <2>3, <2>5, <2>6, <2>9, <2>10, <2>11, <2>12, SvcQuietStep, SvcFacts
<1>5. CASE ~(SvcHas(svcRow) /\ svcRow.id = s.id)
  <2>1. svcRow' = svcRow /\ svcTask' = [svcTask EXCEPT ![c] = SvcNone]
    BY <1>1, <1>5 DEF SvcScaled, SvcTasked
  <2>2. \A d \in SvcCallers \ {c} : SvcHas(svcTask[d]) =>
          (svcTask[d].stage \in {"waiting", "running"} =>
             SvcLives(svcTask[d].id, svcRow, svcOvertaken))
    BY SvcTaskFacts DEF SvcTaskOK
  <2> QED BY <1>3, <2>1, <2>2, SvcQuietStep, SvcFacts, SvcGoneTask
<1> QED BY <1>4, <1>5

-----------------------------------------------------------------------------
(* A reconcile under the service's lock. *)

\* Whose stage and service stay the same is apart from the others as before.
LEMMA SvcStaysApart ==
  ASSUME NEW t, NEW u, SvcHas(t), u.id = t.id, u.stage = t.stage, NEW d, NEW ot,
         SvcApartTasks(t, d, ot), SvcApartTasks(d, t, ot)
  PROVE  SvcApartTasks(u, d, ot) /\ SvcApartTasks(d, u, ot)
  BY DEF SvcApartTasks

\* The invariant's conjunct about two callers.
LEMMA SvcApartFacts ==
  ASSUME SvcInv, NEW c \in SvcCallers, NEW d \in SvcCallers \ {c}
  PROVE  /\ SvcApartTasks(svcTask[c], svcTask[d], svcOvertaken)
         /\ SvcApartTasks(svcTask[d], svcTask[c], svcOvertaken)
  BY DEF SvcInv

\* A reconcile that failed somewhere promises little.
LEMMA SvcFails ==
  ASSUME NEW t \in SvcTasks, NEW u \in SvcTasks, NEW v, NEW f, NEW row, NEW ot,
         SvcTaskOK(t, v, f, row, ot), t.stage = "running", u.stage = "running", u.failed,
         u.id = t.id, u.kind = t.kind, u.desired = t.desired, u.extra \subseteq t.extra,
         u.by \subseteq t.by, u.at <= u.desired, u.extra # {} => u.at = 0
  PROVE  SvcTaskOK(u, v, f, row, ot)
<1>1. SvcListed(t, v, f) /\ SvcLives(t.id, row, ot)  BY DEF SvcTaskOK
<1>2. \A i \in u.extra \cup u.by : SvcItemOK(i, u, v, f)  BY <1>1 DEF SvcListed, SvcItemOK
<1>3. SvcListed(u, v, f)  BY <1>1, <1>2 DEF SvcListed
<1> QED BY <1>1, <1>3 DEF SvcTaskOK

\* From task t to task u: done with the listed instance i.
SvcDoneWith(t, u, i) ==
  /\ t.stage = "running" /\ u.stage = "running" /\ u.id = t.id /\ u.kind = t.kind
  /\ u.desired = t.desired /\ u.at = t.at /\ (u.touched <=> t.touched)
  /\ (t.failed => u.failed) /\ i \in t.extra \cup t.by
  /\ u.extra = t.extra \ {i} /\ u.by = t.by \ {i} /\ (t.at = 0 \/ i.vm.ordinal >= t.at)

\* A reconcile is done with one listed instance: it is gone, or was replaced, or
\* the failure is noted.
LEMMA SvcOwnGone ==
  ASSUME NEW v \in SvcMaps, NEW w \in SvcMaps, NEW t \in SvcTasks, NEW u \in SvcTasks,
         NEW f, NEW row, NEW ot, SvcTaskOK(t, v, f, row, ot), t.stage = "running",
         u.stage = "running", u.id = t.id, u.kind = t.kind, u.desired = t.desired,
         u.at = t.at, u.touched <=> t.touched, t.failed => u.failed,
         NEW i \in t.extra \cup t.by, u.extra = t.extra \ {i}, u.by = t.by \ {i},
         t.at = 0 \/ i.vm.ordinal >= t.at,
         \A m \in SvcNames \ {i.name} : w[m] = v[m], w[i.name] \in {SvcNone, v[i.name]},
         u.failed \/ ~SvcHas(w[i.name]) \/ w[i.name].id # i.vm.id
  PROVE  SvcTaskOK(u, w, f, row, ot)
<1>1. SvcListed(t, v, f) /\ SvcLives(t.id, row, ot)  BY DEF SvcTaskOK
<1>2. /\ t.extra \subseteq SvcItems /\ t.by \subseteq SvcItems /\ t.id \in Nat /\ t.at \in Nat
      /\ i \in SvcItems /\ i.name \in SvcNames /\ i.vm \in SvcVms
  BY SvcTaskIs, SvcItemIs
<1>3. \A m \in SvcNames : SvcHas(w[m]) => w[m] = v[m] /\ SvcHas(v[m])  BY DEF SvcHas
<1>4. \A m \in SvcNames, id \in Nat : SvcOwn(w, m, id) => SvcOwn(v, m, id) /\ w[m] = v[m]
  BY <1>3 DEF SvcOwn
<1>5. SvcListed(u, w, f)
  <2>1. \A j \in u.extra \cup u.by : SvcItemOK(j, u, w, f)
    <3> SUFFICES ASSUME NEW j \in u.extra \cup u.by PROVE SvcItemOK(j, u, w, f)  OBVIOUS
    <3>1. j \in t.extra \cup t.by /\ j.name \in SvcNames  BY <1>2, SvcItemIs
    <3>2. SvcItemOK(j, t, v, f)  BY <1>1, <3>1 DEF SvcListed
    <3> QED BY <1>3, <3>1, <3>2 DEF SvcItemOK
  <2> QED BY <1>1, <2>1 DEF SvcListed
<1>6. ASSUME ~u.failed PROVE SvcCovers(u, w)
  <2>1. SvcCovers(t, v)  BY <1>6 DEF SvcTaskOK
  <2> SUFFICES ASSUME NEW n \in SvcNames, SvcOwn(w, n, u.id)
               PROVE  \/ \E j \in u.extra \cup u.by : j.name = n /\ j.vm.id = w[n].id
                      \/ w[n].ordinal \in 0..(u.at - 1)
    BY DEF SvcCovers
  <2>2. SvcOwn(v, n, t.id) /\ w[n] = v[n]  BY <1>2, <1>4
  <2>3. \/ \E j \in t.extra \cup t.by : j.name = n /\ j.vm.id = v[n].id
        \/ v[n].ordinal \in 0..(t.at - 1)
    BY <2>1, <2>2 DEF SvcCovers
  <2>4. CASE v[n].ordinal \in 0..(t.at - 1)  BY <2>2, <2>4
  <2>5. CASE \E j \in t.extra \cup t.by : j.name = n /\ j.vm.id = v[n].id
    <3>1. PICK j \in t.extra \cup t.by : j.name = n /\ j.vm.id = v[n].id  BY <2>5
    <3>2. j # i  BY <1>6, <2>2, <3>1 DEF SvcOwn
    <3> QED BY <2>2, <3>1, <3>2
  <2> QED BY <2>3, <2>4, <2>5
<1>7. ASSUME ~u.failed, ~u.touched PROVE SvcUndisturbed(u, w)
  <2>1. SvcUndisturbed(t, v)  BY <1>7 DEF SvcTaskOK
  <2>2. v[i.name] = i.vm /\ w[i.name] = SvcNone
    <3>1. v[i.name] = i.vm  BY <2>1 DEF SvcUndisturbed
    <3>2. SvcHas(v[i.name])  BY <1>2, <3>1, SvcVmIs
    <3> QED BY <1>7, <3>1, <3>2
  <2>3. \A j \in u.extra \cup u.by : w[j.name] = j.vm
    <3> SUFFICES ASSUME NEW j \in u.extra \cup u.by PROVE w[j.name] = j.vm  OBVIOUS
    <3>1. j \in SvcItems /\ j # i /\ v[j.name] = j.vm /\ j.name \in SvcNames
      BY <1>2, <2>1, SvcItemIs DEF SvcUndisturbed
    <3>2. j.name # i.name
      <4> SUFFICES ASSUME j.name = i.name PROVE FALSE  OBVIOUS
      <4>1. j.vm = i.vm  BY <2>2, <3>1
      <4> QED BY <1>2, <3>1, <4>1 DEF SvcItems
    <3> QED BY <3>1, <3>2
  <2>4. \A o \in 0..(u.at - 1) : \E m \in SvcNames :
          SvcOwn(w, m, u.id) /\ w[m].ordinal = o /\ w[m].state = "running"
    <3> SUFFICES ASSUME NEW o \in 0..(u.at - 1)
                 PROVE  \E m \in SvcNames :
                          SvcOwn(w, m, u.id) /\ w[m].ordinal = o /\ w[m].state = "running"
      OBVIOUS
    <3>1. PICK m \in SvcNames : SvcOwn(v, m, t.id) /\ v[m].ordinal = o /\ v[m].state = "running"
      BY <2>1 DEF SvcUndisturbed
    <3>2. i.vm.ordinal \in Int /\ o < i.vm.ordinal  BY <1>2, SvcVmIs
    <3>3. m # i.name  BY <2>2, <3>1, <3>2
    <3> QED BY <3>1, <3>3 DEF SvcOwn
  <2>5. SvcApart(u, w)
    <3>1. SvcApart(t, v)  BY <2>1 DEF SvcUndisturbed
    <3> SUFFICES ASSUME NEW n \in SvcNames, NEW m \in SvcNames, SvcOwn(w, n, u.id),
                        SvcOwn(w, m, u.id), w[n].ordinal = w[m].ordinal,
                        \A j \in u.extra : j.name \notin {n, m}
                 PROVE  n = m
      BY DEF SvcApart
    <3>2. SvcOwn(v, n, t.id) /\ SvcOwn(v, m, t.id) /\ w[n] = v[n] /\ w[m] = v[m]  BY <1>2, <1>4
    <3>3. n # i.name /\ m # i.name  BY <2>2 DEF SvcOwn, SvcHas
    <3>4. \A j \in t.extra : j.name \notin {n, m}  BY <3>3
    <3> QED BY <3>1, <3>2, <3>4 DEF SvcApart
  <2> QED BY <2>3, <2>4, <2>5 DEF SvcUndisturbed
<1> QED BY <1>1, <1>5, <1>6, <1>7 DEF SvcTaskOK

\* A name is freed.
LEMMA SvcFreed ==
  ASSUME NEW v, NEW w, NEW n \in SvcNames, \A m \in SvcNames \ {n} : w[m] = v[m],
         w[n] \in {SvcNone, v[n]}, NEW f, SvcIds(v, f), NEW row, NEW ot,
         \A m \in SvcNames : SvcHas(v[m]) /\ v[m].service # 0 => SvcLives(v[m].service, row, ot)
  PROVE  /\ SvcIds(w, f)
         /\ \A m \in SvcNames : SvcHas(w[m]) /\ w[m].service # 0 =>
              SvcLives(w[m].service, row, ot)
<1>1. \A m \in SvcNames : SvcHas(w[m]) => w[m] = v[m] /\ SvcHas(v[m])  BY DEF SvcHas
<1> QED BY <1>1 DEF SvcIds

\* destroy_instance: a reconcile is done with the listed instance i.
LEMMA SvcDestroyStep ==
  ASSUME SvcInv, NEW c \in SvcCallers, svcTask[c] \in SvcTasks,
         NEW u \in SvcTasks, svcTask' = [svcTask EXCEPT ![c] = u],
         NEW i, SvcDoneWith(svcTask[c], u, i),
         SvcDestroyed(i) \/ (u.failed /\ UNCHANGED <<svcVm, svcHarmed>>),
         UNCHANGED <<svcRow, svcFresh, svcOvertaken>>
  PROVE  SvcInv'
<1> DEFINE t == svcTask[c]
<1>0. /\ t \in SvcTasks /\ t.stage = "running" /\ u.stage = "running" /\ u.id = t.id
      /\ u.kind = t.kind /\ u.desired = t.desired /\ u.at = t.at /\ (u.touched <=> t.touched)
      /\ (t.failed => u.failed) /\ i \in t.extra \cup t.by
      /\ u.extra = t.extra \ {i} /\ u.by = t.by \ {i} /\ (t.at = 0 \/ i.vm.ordinal >= t.at)
  BY DEF SvcDoneWith
<1>1. SvcHas(t) /\ SvcTaskOK(t, svcVm, svcFresh.vm, svcRow, svcOvertaken)
  <2>1. SvcHas(t)  BY <1>0, SvcTaskIs
  <2> QED BY <1>0, <2>1, SvcTaskFacts
<1>2. i \in SvcItems /\ i.name \in SvcNames /\ i.vm \in SvcVms
      /\ SvcItemOK(i, t, svcVm, svcFresh.vm)
  <2>1. SvcItemOK(i, t, svcVm, svcFresh.vm)  BY <1>0, <1>1 DEF SvcTaskOK, SvcListed
  <2> QED BY <1>0, <2>1, SvcTaskIs, SvcItemIs
<1>3. svcVm \in SvcMaps /\ svcHarmed = {}  BY SvcFacts
<1>4. /\ svcVm' \in SvcMaps /\ \A m \in SvcNames \ {i.name} : svcVm'[m] = svcVm[m]
      /\ svcVm'[i.name] \in {SvcNone, svcVm[i.name]} /\ svcHarmed' = {}
      /\ (u.failed \/ ~SvcHas(svcVm'[i.name]) \/ svcVm'[i.name].id # i.vm.id)
      /\ (svcVm' = svcVm \/ (/\ SvcHas(svcVm[i.name]) /\ svcVm[i.name].service = t.id
                            /\ svcVm'[i.name] = SvcNone))
  <2>1. CASE UNCHANGED <<svcVm, svcHarmed>> /\ u.failed  BY <1>3, <2>1
  <2>2. CASE SvcDestroyed(i) /\ SvcSameGeneration(svcVm[i.name], i.vm)
    <3>1. SvcHas(svcVm[i.name]) /\ svcVm[i.name].id = i.vm.id  BY <2>2 DEF SvcSameGeneration
    <3>2. svcVm[i.name].service = t.id /\ i.vm.service = t.id  BY <1>2, <3>1 DEF SvcItemOK
    <3>3. svcVm' = [svcVm EXCEPT ![i.name] = SvcNone] /\ svcHarmed' = svcHarmed
      BY <2>2, <3>2 DEF SvcDestroyed
    <3>4. svcVm' \in SvcMaps /\ svcVm'[i.name] = SvcNone
          /\ \A m \in SvcNames \ {i.name} : svcVm'[m] = svcVm[m]
      BY <1>2, <1>3, <3>3 DEF SvcMaps
    <3>5. ~SvcHas(svcVm'[i.name])  BY <3>4 DEF SvcHas
    <3> QED BY <1>3, <3>1, <3>2, <3>3, <3>4, <3>5
  <2>3. CASE SvcDestroyed(i) /\ ~SvcSameGeneration(svcVm[i.name], i.vm)
    <3>1. svcVm' = svcVm /\ svcHarmed' = svcHarmed  BY <2>3 DEF SvcDestroyed
    <3>2. ~SvcHas(svcVm[i.name]) \/ svcVm[i.name].id # i.vm.id  BY <2>3 DEF SvcSameGeneration
    <3> QED BY <1>3, <3>1, <3>2
  <2> QED BY <2>1, <2>2, <2>3, Zenon
<1>5. SvcTaskOK(u, svcVm', svcFresh.vm, svcRow, svcOvertaken)
  BY <1>0, <1>1, <1>3, <1>4, SvcOwnGone
<1>6. \A d \in SvcCallers \ {c} : SvcHas(svcTask[d]) =>
        SvcTaskOK(svcTask[d], svcVm', svcFresh.vm, svcRow, svcOvertaken)
  <2> SUFFICES ASSUME NEW d \in SvcCallers \ {c}, SvcHas(svcTask[d])
               PROVE  SvcTaskOK(svcTask[d], svcVm', svcFresh.vm, svcRow, svcOvertaken)
    OBVIOUS
  <2>1. svcTask[d] \in SvcTasks
        /\ SvcTaskOK(svcTask[d], svcVm, svcFresh.vm, svcRow, svcOvertaken)
    BY SvcTaskFacts
  <2>2. CASE svcVm' = svcVm  BY <2>1, <2>2
  <2>3. CASE svcVm' # svcVm
    <3>1. SvcHas(svcVm[i.name]) /\ svcVm[i.name].service = t.id /\ svcVm'[i.name] = SvcNone
      BY <1>4, <2>3
    <3>2. svcTask[d].stage = "running" => svcTask[d].id # t.id
      BY <1>0, <1>1, SvcApartFacts DEF SvcApartTasks
    <3> QED BY <1>2, <1>3, <1>4, <2>1, <3>1, <3>2, SvcOtherGone
  <2> QED BY <2>2, <2>3
<1>7. \A d \in SvcCallers \ {c} :
        SvcApartTasks(u, svcTask[d], svcOvertaken) /\ SvcApartTasks(svcTask[d], u, svcOvertaken)
  BY <1>0, <1>1, SvcApartFacts, SvcStaysApart
<1>8. SvcIds(svcVm', svcFresh.vm) /\ \A n \in SvcNames :
        SvcHas(svcVm'[n]) /\ svcVm'[n].service # 0 =>
          SvcLives(svcVm'[n].service, svcRow, svcOvertaken)
  <2>1. SvcIds(svcVm, svcFresh.vm)  BY SvcFacts
  <2>2. \A m \in SvcNames : SvcHas(svcVm[m]) /\ svcVm[m].service # 0 =>
          SvcLives(svcVm[m].service, svcRow, svcOvertaken)
    BY SvcFacts
  <2> QED BY <1>2, <1>4, <2>1, <2>2, SvcFreed
<1>9. svcRow' = svcRow /\ svcFresh' = svcFresh /\ svcOvertaken' = svcOvertaken  OBVIOUS
<1>10. /\ svcRow' \in SvcRows \cup {SvcNone} /\ svcFresh' \in [service : Nat, vm : Nat]
       /\ svcFresh'.service > 0 /\ (SvcHas(svcRow') => svcRow'.id > 0)
  BY <1>9, SvcFacts
<1>11. /\ SvcIds(svcVm', svcFresh'.vm)
       /\ \A n \in SvcNames : SvcHas(svcVm'[n]) /\ svcVm'[n].service # 0 =>
            SvcLives(svcVm'[n].service, svcRow', svcOvertaken')
       /\ SvcTaskOK(u, svcVm', svcFresh'.vm, svcRow', svcOvertaken')
       /\ \A d \in SvcCallers \ {c} : SvcHas(svcTask[d]) =>
            SvcTaskOK(svcTask[d], svcVm', svcFresh'.vm, svcRow', svcOvertaken')
       /\ \A d \in SvcCallers \ {c} : SvcApartTasks(u, svcTask[d], svcOvertaken')
            /\ SvcApartTasks(svcTask[d], u, svcOvertaken')
  BY <1>5, <1>6, <1>7, <1>8, <1>9
<1> QED BY <1>4, <1>9, <1>10, <1>11, SvcCallerMoves

\* Duplicates and instances without an ordinal go first.
LEMMA SvcDestroyExtraInv ==
  ASSUME SvcInv, NEW c \in SvcCallers, NEW i, NEW ok \in BOOLEAN, SvcDestroyExtra(c, i, ok)
  PROVE  SvcInv'
<1>1. PICK t : t = svcTask[c]  OBVIOUS
<1>2. t \in SvcTasks /\ t.stage = "running" /\ i \in t.extra
      /\ SvcTaskOK(t, svcVm, svcFresh.vm, svcRow, svcOvertaken)
  <2>1. SvcHas(svcTask[c]) /\ svcTask[c].stage = "running" /\ i \in svcTask[c].extra
    BY DEF SvcDestroyExtra, SvcRunning
  <2> QED BY <1>1, <2>1, SvcTaskFacts
<1>3. i \notin t.by /\ t.at = 0  BY <1>2 DEF SvcTaskOK, SvcListed
<1>4. PICK u : u = [t EXCEPT !.extra = @ \ {i}, !.failed = @ \/ ~ok]  OBVIOUS
<1>5. /\ u \in SvcTasks /\ u.stage = "running" /\ u.id = t.id /\ u.kind = t.kind
      /\ u.desired = t.desired /\ u.at = t.at /\ (u.touched <=> t.touched)
      /\ (u.failed <=> t.failed \/ ~ok) /\ u.extra = t.extra \ {i} /\ u.by = t.by
  <2>1. t.extra \ {i} \in SUBSET SvcItems /\ (t.failed \/ ~ok) \in BOOLEAN  BY <1>2, SvcTaskIs
  <2> QED BY <1>2, <1>4, <2>1 DEF SvcTasks
<1>6. u.by = t.by \ {i}  BY <1>3, <1>5
<1>7. svcTask' = [svcTask EXCEPT ![c] = u] /\ UNCHANGED <<svcRow, svcFresh, svcOvertaken>>
  BY <1>1, <1>4 DEF SvcDestroyExtra, SvcTasked
<1>8. SvcDestroyed(i) \/ (u.failed /\ UNCHANGED <<svcVm, svcHarmed>>)
  BY <1>5 DEF SvcDestroyExtra
<1>9. SvcDoneWith(t, u, i)  BY <1>2, <1>3, <1>5, <1>6 DEF SvcDoneWith
<1> QED BY <1>1, <1>2, <1>5, <1>7, <1>8, <1>9, SvcDestroyStep

\* Scale-down removes the survivors beyond the desired count.
LEMMA SvcScaleDownInv ==
  ASSUME SvcInv, NEW c \in SvcCallers, NEW ok \in BOOLEAN, SvcScaleDown(c, ok)
  PROVE  SvcInv'
<1>1. PICK t : t = svcTask[c]  OBVIOUS
<1>2. PICK i \in SvcExcess(t) :
        /\ svcTask' = [svcTask EXCEPT ![c] = [t EXCEPT !.by = @ \ {i}, !.failed = @ \/ ~ok]]
        /\ IF ok THEN SvcDestroyed(i) ELSE UNCHANGED <<svcVm, svcHarmed>>
  BY <1>1 DEF SvcScaleDown, SvcTasked
<1>3. t \in SvcTasks /\ t.stage = "running" /\ t.extra = {} /\ t.at = t.desired /\ i \in t.by
      /\ i.vm.ordinal >= t.desired
  <2>1. SvcHas(svcTask[c]) /\ t.stage = "running" /\ t.extra = {} /\ t.at = t.desired
    BY <1>1 DEF SvcScaleDown, SvcRunning
  <2>2. t \in SvcTasks  BY <1>1, <2>1, SvcTaskFacts
  <2> QED BY <2>1, <2>2, <1>2 DEF SvcExcess
<1>4. PICK u : u = [t EXCEPT !.by = @ \ {i}, !.failed = @ \/ ~ok]  OBVIOUS
<1>5. /\ u \in SvcTasks /\ u.stage = "running" /\ u.id = t.id /\ u.kind = t.kind
      /\ u.desired = t.desired /\ u.at = t.at /\ (u.touched <=> t.touched)
      /\ (u.failed <=> t.failed \/ ~ok) /\ u.extra = t.extra /\ u.by = t.by \ {i}
  <2>1. t.by \ {i} \in SUBSET SvcItems /\ (t.failed \/ ~ok) \in BOOLEAN  BY <1>3, SvcTaskIs
  <2> QED BY <1>3, <1>4, <2>1 DEF SvcTasks
<1>6. u.extra = t.extra \ {i}  BY <1>3, <1>5
<1>7. svcTask' = [svcTask EXCEPT ![c] = u] /\ UNCHANGED <<svcRow, svcFresh, svcOvertaken>>
  BY <1>2, <1>4 DEF SvcScaleDown
<1>8. SvcDestroyed(i) \/ (u.failed /\ UNCHANGED <<svcVm, svcHarmed>>)
  BY <1>2, <1>5
<1>9. t.at = 0 \/ i.vm.ordinal >= t.at  BY <1>3
<1>10. i \in t.extra \cup t.by  BY <1>3
<1>11. t.failed => u.failed  BY <1>5
<1>12. SvcDoneWith(t, u, i)  BY <1>3, <1>5, <1>6, <1>9, <1>10, <1>11 DEF SvcDoneWith
<1> QED BY <1>1, <1>3, <1>5, <1>7, <1>8, <1>12, SvcDestroyStep

\* A step of c that only changes its own task, in the same stage.
LEMMA SvcOwnStep ==
  ASSUME SvcInv, NEW c \in SvcCallers, NEW t \in SvcTasks, t = svcTask[c],
         NEW u \in SvcTasks, svcTask' = [svcTask EXCEPT ![c] = u], u.id = t.id,
         u.stage = t.stage, SvcTaskOK(u, svcVm, svcFresh.vm, svcRow, svcOvertaken),
         UNCHANGED <<svcRow, svcVm, svcFresh, svcHarmed, svcOvertaken>>
  PROVE  SvcInv'
<1>1. SvcHas(t)  BY SvcTaskIs
<1>2. \A d \in SvcCallers \ {c} :
        SvcApartTasks(u, svcTask[d], svcOvertaken) /\ SvcApartTasks(svcTask[d], u, svcOvertaken)
  BY <1>1, SvcApartFacts, SvcStaysApart
<1>3. \A d \in SvcCallers \ {c} : SvcHas(svcTask[d]) =>
        (svcTask[d].stage \in {"waiting", "running"} =>
           SvcLives(svcTask[d].id, svcRow, svcOvertaken))
  BY SvcTaskFacts DEF SvcTaskOK
<1> QED BY <1>2, <1>3, SvcQuietStep, SvcFacts

\* A listed instance that runs fills its ordinal.
LEMMA SvcKeepInv == ASSUME SvcInv, NEW c \in SvcCallers, SvcKeep(c) PROVE SvcInv'
<1>1. PICK t : t = svcTask[c]  OBVIOUS
<1>2. t \in SvcTasks /\ t.stage = "running" /\ t.extra = {} /\ t.at < t.desired
      /\ SvcTaskOK(t, svcVm, svcFresh.vm, svcRow, svcOvertaken)
  <2>1. SvcHas(svcTask[c]) /\ t.stage = "running" /\ t.extra = {} /\ t.at < t.desired
    BY <1>1 DEF SvcKeep, SvcTurn, SvcRunning
  <2> QED BY <1>1, <2>1, SvcTaskFacts
<1>3. PICK i \in t.by : i.vm.ordinal = t.at /\ i.vm.state = "running"
  BY <1>1 DEF SvcKeep, SvcNow, SvcAt
<1>4. PICK u : u = [t EXCEPT !.at = @ + 1]  OBVIOUS
<1>5. t.at \in Nat /\ t.desired \in Nat /\ t.id \in Nat  BY <1>2, SvcTaskIs, SvcAssumption
<1>6. /\ u \in SvcTasks /\ u.stage = "running" /\ u.id = t.id /\ u.kind = t.kind
      /\ u.desired = t.desired /\ u.at = t.at + 1 /\ (u.touched <=> t.touched)
      /\ (u.failed <=> t.failed) /\ u.extra = {} /\ u.by = t.by
  <2>1. t.at + 1 \in Nat  BY <1>5
  <2> QED BY <1>2, <1>4, <2>1 DEF SvcTasks
<1>7. svcTask' = [svcTask EXCEPT ![c] = u]
      /\ UNCHANGED <<svcRow, svcVm, svcFresh, svcHarmed, svcOvertaken>>
  BY <1>1, <1>4 DEF SvcKeep, SvcTasked
<1>8. SvcListed(t, svcVm, svcFresh.vm) /\ SvcLives(t.id, svcRow, svcOvertaken)
  BY <1>2 DEF SvcTaskOK
<1>9. SvcListed(u, svcVm, svcFresh.vm)
  <2>1. \A j \in u.extra \cup u.by : SvcItemOK(j, u, svcVm, svcFresh.vm)
    BY <1>6, <1>8 DEF SvcListed, SvcItemOK
  <2>2. u.at <= u.desired  BY <1>2, <1>5, <1>6
  <2> QED BY <1>6, <1>8, <2>1, <2>2 DEF SvcListed
<1>10. ASSUME ~u.failed PROVE SvcCovers(u, svcVm)
  <2>1. SvcCovers(t, svcVm)  BY <1>2, <1>6, <1>10 DEF SvcTaskOK
  <2>2. \A o \in 0..(t.at - 1) : o \in 0..(u.at - 1)  BY <1>5, <1>6
  <2> QED BY <1>2, <1>6, <2>1, <2>2 DEF SvcCovers
<1>11. ASSUME ~u.failed, ~u.touched PROVE SvcUndisturbed(u, svcVm)
  <2>1. SvcUndisturbed(t, svcVm)  BY <1>2, <1>6, <1>11 DEF SvcTaskOK
  <2>2. \A j \in u.extra \cup u.by : svcVm[j.name] = j.vm  BY <1>6, <2>1 DEF SvcUndisturbed
  <2>3. \A o \in 0..(u.at - 1) : \E m \in SvcNames :
          SvcOwn(svcVm, m, u.id) /\ svcVm[m].ordinal = o /\ svcVm[m].state = "running"
    <3> SUFFICES ASSUME NEW o \in 0..(u.at - 1)
                 PROVE  \E m \in SvcNames : SvcOwn(svcVm, m, u.id)
                          /\ svcVm[m].ordinal = o /\ svcVm[m].state = "running"
      OBVIOUS
    <3>1. CASE o = t.at
      <4>1. i \in SvcItems /\ i.vm.service = t.id
        BY <1>2, <1>8, <1>3, SvcTaskIs DEF SvcListed, SvcItemOK
      <4>2. i.name \in SvcNames /\ i.vm \in SvcVms  BY <4>1, SvcItemIs
      <4>3. svcVm[i.name] = i.vm /\ SvcHas(i.vm)
        BY <1>3, <2>1, <4>2, SvcVmIs DEF SvcUndisturbed
      <4>4. SvcOwn(svcVm, i.name, u.id)  BY <1>6, <4>1, <4>3 DEF SvcOwn
      <4> QED BY <1>3, <3>1, <4>2, <4>3, <4>4
    <3>2. CASE o # t.at
      <4>1. o \in 0..(t.at - 1)  BY <1>5, <1>6, <3>2
      <4> QED BY <1>6, <2>1, <4>1 DEF SvcUndisturbed
    <3> QED BY <3>1, <3>2
  <2>4. SvcApart(u, svcVm)
    <3>1. SvcApart(t, svcVm)  BY <2>1 DEF SvcUndisturbed
    <3> QED BY <1>2, <1>6, <3>1 DEF SvcApart
  <2> QED BY <2>2, <2>3, <2>4 DEF SvcUndisturbed
<1>12. SvcTaskOK(u, svcVm, svcFresh.vm, svcRow, svcOvertaken)
  BY <1>6, <1>8, <1>9, <1>10, <1>11 DEF SvcTaskOK
<1> QED BY <1>1, <1>2, <1>6, <1>7, <1>12, SvcOwnStep

\* A failure at an ordinal is noted and the next ordinal tried.
LEMMA SvcNotesFailure ==
  ASSUME SvcInv, NEW c \in SvcCallers, SvcTurn(c),
         NEW u, u = [svcTask[c] EXCEPT !.at = @ + 1, !.failed = TRUE],
         svcTask' = [svcTask EXCEPT ![c] = u],
         UNCHANGED <<svcRow, svcVm, svcFresh, svcHarmed, svcOvertaken>>
  PROVE  SvcInv'
<1>1. PICK t : t = svcTask[c]  OBVIOUS
<1>2. t \in SvcTasks /\ t.stage = "running" /\ t.extra = {} /\ t.at < t.desired
      /\ SvcTaskOK(t, svcVm, svcFresh.vm, svcRow, svcOvertaken)
  <2>1. SvcHas(svcTask[c]) /\ t.stage = "running" /\ t.extra = {} /\ t.at < t.desired
    BY <1>1 DEF SvcTurn, SvcRunning
  <2> QED BY <1>1, <2>1, SvcTaskFacts
<1>3. u = [t EXCEPT !.at = @ + 1, !.failed = TRUE]  BY <1>1
<1>4. t.at \in Nat /\ t.desired \in Nat  BY <1>2, SvcTaskIs, SvcAssumption
<1>5. /\ u \in SvcTasks /\ u.stage = "running" /\ u.id = t.id /\ u.kind = t.kind
      /\ u.desired = t.desired /\ u.at = t.at + 1 /\ u.failed /\ u.extra = {} /\ u.by = t.by
  <2>1. t.at + 1 \in Nat  BY <1>4
  <2> QED BY <1>2, <1>3, <2>1 DEF SvcTasks
<1>6. u.at <= u.desired  BY <1>2, <1>4, <1>5
<1>7. SvcTaskOK(u, svcVm, svcFresh.vm, svcRow, svcOvertaken)
  BY <1>2, <1>5, <1>6, SvcFails
<1>8. /\ t \in SvcTasks /\ t = svcTask[c] /\ u \in SvcTasks
      /\ u.id = t.id /\ u.stage = t.stage
  BY <1>1, <1>2, <1>5
<1> QED BY <1>7, <1>8, SvcOwnStep, Zenon

\* An instance that does not run is destroyed before its ordinal is filled.
LEMMA SvcReplaceInv ==
  ASSUME SvcInv, NEW c \in SvcCallers, NEW ok \in BOOLEAN, SvcReplace(c, ok)
  PROVE  SvcInv'
<1>1. CASE ok
  <2>1. PICK t : t = svcTask[c]  OBVIOUS
  <2>2. PICK i \in t.by : /\ i.vm.ordinal = t.at /\ SvcDestroyed(i)
                         /\ svcTask' = [svcTask EXCEPT ![c] = [t EXCEPT !.by = @ \ {i}]]
    BY <1>1, <2>1 DEF SvcReplace, SvcNow, SvcAt, SvcTasked
  <2>3. t \in SvcTasks /\ t.stage = "running" /\ t.extra = {}
    <3>1. SvcHas(svcTask[c]) /\ t.stage = "running" /\ t.extra = {}
      BY <2>1 DEF SvcReplace, SvcTurn, SvcRunning
    <3> QED BY <2>1, <3>1, SvcTaskFacts
  <2>4. PICK u : u = [t EXCEPT !.by = @ \ {i}]  OBVIOUS
  <2>5. /\ u \in SvcTasks /\ u.stage = "running" /\ u.id = t.id /\ u.kind = t.kind
        /\ u.desired = t.desired /\ u.at = t.at /\ (u.touched <=> t.touched)
        /\ (u.failed <=> t.failed) /\ u.extra = t.extra /\ u.by = t.by \ {i}
    <3>1. t.by \ {i} \in SUBSET SvcItems  BY <2>3, SvcTaskIs
    <3> QED BY <2>3, <2>4, <3>1 DEF SvcTasks
  <2>6. u.extra = t.extra \ {i} /\ i.vm.ordinal >= t.at
    <3>1. t.at \in Nat  BY <2>3, SvcTaskIs
    <3> QED BY <2>2, <2>3, <2>5, <3>1
  <2>7. svcTask' = [svcTask EXCEPT ![c] = u] /\ UNCHANGED <<svcRow, svcFresh, svcOvertaken>>
    BY <2>2, <2>4 DEF SvcReplace
  <2>8. SvcDoneWith(t, u, i)  BY <2>2, <2>3, <2>5, <2>6 DEF SvcDoneWith
  <2> QED BY <2>1, <2>2, <2>3, <2>5, <2>7, <2>8, SvcDestroyStep
<1>2. CASE ~ok
  <2>1. PICK u : u = [svcTask[c] EXCEPT !.at = @ + 1, !.failed = TRUE]  OBVIOUS
  <2>2. /\ SvcTurn(c) /\ UNCHANGED <<svcRow, svcVm, svcFresh, svcHarmed, svcOvertaken>>
        /\ svcTask' = [svcTask EXCEPT ![c] = u]
    BY <1>2, <2>1 DEF SvcReplace, SvcTasked
  <2> QED BY <2>1, <2>2, SvcNotesFailure
<1> QED BY <1>1, <1>2

\* A reconcile fills the ordinal at hand, of which it has listed no instance.
LEMMA SvcOwnMade ==
  ASSUME NEW v \in SvcMaps, NEW w \in SvcMaps, NEW n \in SvcNames, ~SvcHas(v[n]), SvcHas(w[n]),
         \A m \in SvcNames \ {n} : w[m] = v[m], NEW f \in Nat, w[n].id = f,
         NEW t \in SvcTasks, NEW u \in SvcTasks, NEW row, NEW ot, SvcTaskOK(t, v, f, row, ot),
         w[n].service = t.id, w[n].ordinal = t.at, w[n].state = "running",
         t.stage = "running", t.extra = {}, t.at < t.desired, SvcAt(t, t.at) = {},
         u.stage = "running", u.id = t.id, u.kind = t.kind, u.desired = t.desired,
         u.at = t.at + 1, u.touched <=> t.touched, u.failed <=> t.failed,
         u.extra = {}, u.by = t.by
  PROVE  SvcTaskOK(u, w, f + 1, row, ot)
<1>1. SvcListed(t, v, f) /\ SvcLives(t.id, row, ot)  BY DEF SvcTaskOK
<1>2. /\ t.by \subseteq SvcItems /\ t.id \in Nat /\ t.at \in Nat /\ t.desired \in Nat
  BY SvcTaskIs, SvcAssumption
<1>3. \A m \in SvcNames : SvcOwn(w, m, t.id) => m = n \/ (SvcOwn(v, m, t.id) /\ w[m] = v[m])
  BY DEF SvcOwn
<1>4. SvcListed(u, w, f + 1)
  <2>1. \A i \in u.extra \cup u.by : SvcItemOK(i, u, w, f + 1)
    <3> SUFFICES ASSUME NEW i \in u.by PROVE SvcItemOK(i, u, w, f + 1)  OBVIOUS
    <3>1. i.name \in SvcNames /\ i.vm \in SvcVms /\ SvcItemOK(i, t, v, f)
      BY <1>1, <1>2, SvcItemIs DEF SvcListed
    <3>2. i.vm.id \in Nat /\ i.vm.id < f /\ i.vm.id < f + 1 /\ i.vm.id # f
      BY <3>1, SvcVmIs DEF SvcItemOK
    <3> QED BY <3>1, <3>2 DEF SvcItemOK
  <2>2. u.at <= u.desired  BY <1>2
  <2> QED BY <1>1, <2>1, <2>2 DEF SvcListed
<1>5. ASSUME ~u.failed PROVE SvcCovers(u, w) /\ SvcCovers(t, v)
  <2>1. SvcCovers(t, v)  BY <1>5 DEF SvcTaskOK
  <2> SUFFICES ASSUME NEW m \in SvcNames, SvcOwn(w, m, u.id)
               PROVE  \/ \E j \in u.extra \cup u.by : j.name = m /\ j.vm.id = w[m].id
                      \/ w[m].ordinal \in 0..(u.at - 1)
    BY <2>1 DEF SvcCovers
  <2>2. CASE m = n  BY <1>2, <2>2
  <2>3. CASE m # n
    <3>1. SvcOwn(v, m, t.id) /\ w[m] = v[m]  BY <1>3, <2>3
    <3>2. \/ \E j \in t.extra \cup t.by : j.name = m /\ j.vm.id = v[m].id
          \/ v[m].ordinal \in 0..(t.at - 1)
      BY <2>1, <3>1 DEF SvcCovers
    <3>3. \A o \in 0..(t.at - 1) : o \in 0..(u.at - 1)  BY <1>2
    <3> QED BY <3>1, <3>2, <3>3
  <2> QED BY <2>2, <2>3
<1>6. ASSUME ~u.failed, ~u.touched PROVE SvcUndisturbed(u, w)
  <2>1. SvcUndisturbed(t, v)  BY <1>6 DEF SvcTaskOK
  <2>2. \A i \in u.extra \cup u.by : w[i.name] = i.vm
    <3> SUFFICES ASSUME NEW i \in u.by PROVE w[i.name] = i.vm  OBVIOUS
    <3>1. i.name \in SvcNames /\ v[i.name] = i.vm /\ i.vm \in SvcVms
      BY <1>2, <2>1, SvcItemIs DEF SvcUndisturbed
    <3>2. i.name # n  BY <3>1, SvcVmIs
    <3> QED BY <3>1, <3>2
  <2>3. \A o \in 0..(u.at - 1) : \E m \in SvcNames :
          SvcOwn(w, m, u.id) /\ w[m].ordinal = o /\ w[m].state = "running"
    <3> SUFFICES ASSUME NEW o \in 0..(u.at - 1)
                 PROVE  \E m \in SvcNames :
                          SvcOwn(w, m, u.id) /\ w[m].ordinal = o /\ w[m].state = "running"
      OBVIOUS
    <3>1. CASE o = t.at
      <4>1. SvcOwn(w, n, u.id)  BY DEF SvcOwn
      <4> QED BY <3>1, <4>1
    <3>2. CASE o # t.at
      <4>1. o \in 0..(t.at - 1)  BY <1>2, <3>2
      <4>2. PICK m \in SvcNames :
              SvcOwn(v, m, t.id) /\ v[m].ordinal = o /\ v[m].state = "running"
        BY <2>1, <4>1 DEF SvcUndisturbed
      <4>3. m # n  BY <4>2 DEF SvcOwn
      <4> QED BY <4>2, <4>3 DEF SvcOwn
    <3> QED BY <3>1, <3>2
  <2>4. \A m \in SvcNames \ {n} : SvcOwn(v, m, t.id) => v[m].ordinal # t.at
    <3> SUFFICES ASSUME NEW m \in SvcNames \ {n}, SvcOwn(v, m, t.id), v[m].ordinal = t.at
                 PROVE  FALSE
      OBVIOUS
    <3>1. t.at \notin 0..(t.at - 1)  BY <1>2
    <3>2. PICK j \in t.by : j.name = m /\ j.vm.id = v[m].id
      BY <1>5, <1>6, <3>1 DEF SvcCovers
    <3>3. v[m] = j.vm  BY <2>1, <3>2 DEF SvcUndisturbed
    <3> QED BY <3>2, <3>3 DEF SvcAt
  <2>5. SvcApart(u, w)
    <3>1. SvcApart(t, v)  BY <2>1 DEF SvcUndisturbed
    <3> SUFFICES ASSUME NEW a \in SvcNames, NEW b \in SvcNames, SvcOwn(w, a, u.id),
                        SvcOwn(w, b, u.id), w[a].ordinal = w[b].ordinal
                 PROVE  a = b
      BY DEF SvcApart
    <3>2. CASE a # n /\ b # n
      <4>1. SvcOwn(v, a, t.id) /\ SvcOwn(v, b, t.id) /\ v[a].ordinal = v[b].ordinal
        BY <1>3, <3>2
      <4> QED BY <3>1, <4>1 DEF SvcApart
    <3>3. CASE a = n /\ b # n  BY <1>3, <2>4, <3>3
    <3>4. CASE a # n /\ b = n  BY <1>3, <2>4, <3>4
    <3> QED BY <3>2, <3>3, <3>4
  <2> QED BY <2>2, <2>3, <2>5 DEF SvcUndisturbed
<1> QED BY <1>1, <1>4, <1>5, <1>6 DEF SvcTaskOK

\* A VM is put under a free name.
LEMMA SvcPut ==
  ASSUME NEW v \in SvcMaps, NEW w \in SvcMaps, NEW n \in SvcNames, NEW f \in Nat,
         \A m \in SvcNames \ {n} : w[m] = v[m], w[n].id = f, SvcIds(v, f)
  PROVE  SvcIds(w, f + 1)
<1>1. \A m \in SvcNames : SvcHas(v[m]) => v[m].id \in Nat
  BY SvcVmIs DEF SvcMaps
<1> QED BY <1>1 DEF SvcIds

\* create_instance fills the ordinal at hand, if the name is free.
LEMMA SvcCreateInstanceInv ==
  ASSUME SvcInv, NEW c \in SvcCallers, NEW ok \in BOOLEAN, SvcCreateInstance(c, ok)
  PROVE  SvcInv'
<1>1. PICK t : t = svcTask[c]  OBVIOUS
<1>2. SvcTurn(c) /\ SvcHas(svcTask[c]) /\ t.stage = "running" /\ t.extra = {}
      /\ t.at < t.desired /\ SvcAt(t, t.at) = {}
  BY <1>1 DEF SvcCreateInstance, SvcTurn, SvcRunning, SvcNow
<1>3. t \in SvcTasks /\ SvcHas(t) /\ SvcTaskOK(t, svcVm, svcFresh.vm, svcRow, svcOvertaken)
  BY <1>1, <1>2, SvcTaskFacts
<1>4. t.at \in Nat /\ t.desired \in 0..SvcOrdinals /\ t.id \in Nat /\ t.failed \in BOOLEAN
  BY <1>3, SvcTaskIs
<1>5. PICK n : n = SvcName(t.at)  OBVIOUS
<1>6. n \in SvcNames
  <2>1. t.at \in 0..(SvcOrdinals - 1)  BY <1>2, <1>4, SvcAssumption
  <2> QED BY <1>5, <2>1 DEF SvcNames
<1>7. CASE ~(ok /\ ~SvcHas(svcVm[n]))
  <2>1. PICK u : u = [svcTask[c] EXCEPT !.at = @ + 1, !.failed = TRUE]  OBVIOUS
  <2>2. /\ UNCHANGED <<svcRow, svcVm, svcFresh, svcHarmed, svcOvertaken>>
        /\ svcTask' = [svcTask EXCEPT ![c] = [svcTask[c] EXCEPT !.at = @ + 1,
                          !.failed = @ \/ ~(ok /\ ~SvcHas(svcVm[n]))]]
    BY <1>1, <1>5, <1>7 DEF SvcCreateInstance, SvcTasked
  <2>3. (svcTask[c].failed \/ ~(ok /\ ~SvcHas(svcVm[n]))) = TRUE  BY <1>7
  <2>4. svcTask' = [svcTask EXCEPT ![c] = u]  BY <2>1, <2>2, <2>3, Zenon
  <2> QED BY <1>2, <2>1, <2>2, <2>4, SvcNotesFailure
<1>8. CASE ok /\ ~SvcHas(svcVm[n])
  <2>1. PICK x : x = SvcVm(svcFresh.vm, t.id, t.at, "running")  OBVIOUS
  <2>2. /\ x \in SvcVms /\ x.id = svcFresh.vm /\ x.service = t.id /\ x.ordinal = t.at
        /\ x.state = "running"
    <3>1. svcFresh.vm \in Nat  BY SvcFacts
    <3>2. t.at \in Nat \cup {SvcNoOrdinal}  BY <1>4
    <3> QED BY <1>4, <2>1, <3>1, <3>2 DEF SvcVm, SvcVms
  <2>3. SvcHas(x)  BY <2>2, SvcVmIs
  <2>4. /\ svcVm' = [svcVm EXCEPT ![n] = x]
        /\ svcFresh' = [svcFresh EXCEPT !.vm = @ + 1]
        /\ UNCHANGED <<svcRow, svcHarmed, svcOvertaken>>
    BY <1>1, <1>5, <1>8, <2>1 DEF SvcCreateInstance
  <2>5. svcVm \in SvcMaps /\ svcVm' \in SvcMaps /\ svcVm'[n] = x
        /\ \A m \in SvcNames \ {n} : svcVm'[m] = svcVm[m]
    <3>1. svcVm \in SvcMaps  BY SvcFacts
    <3> QED BY <1>6, <2>2, <2>4, <3>1 DEF SvcMaps
  <2>6. /\ svcFresh.vm \in Nat /\ svcFresh' \in [service : Nat, vm : Nat]
        /\ svcFresh'.vm = svcFresh.vm + 1 /\ svcFresh'.service > 0
    BY <2>4, SvcFacts
  <2>7. PICK u : u = [t EXCEPT !.at = @ + 1, !.failed = @ \/ ~(ok /\ ~SvcHas(svcVm[n]))]  OBVIOUS
  <2>8. /\ u \in SvcTasks /\ u.stage = "running" /\ u.id = t.id /\ u.kind = t.kind
        /\ u.desired = t.desired /\ u.at = t.at + 1 /\ (u.touched <=> t.touched)
        /\ (u.failed <=> t.failed) /\ u.extra = {} /\ u.by = t.by
    <3>1. t.at + 1 \in Nat  BY <1>4
    <3>2. (t.failed \/ ~(ok /\ ~SvcHas(svcVm[n]))) = t.failed  BY <1>4, <1>8
    <3>3. u = [t EXCEPT !.at = @ + 1, !.failed = t.failed]  BY <2>7, <3>2, Zenon
    <3> QED BY <1>2, <1>3, <3>1, <3>3 DEF SvcTasks
  <2>9. svcTask' = [svcTask EXCEPT ![c] = u]
    BY <1>1, <1>5, <2>7, Zenon DEF SvcCreateInstance, SvcTasked
  <2>10. SvcTaskOK(u, svcVm', svcFresh.vm + 1, svcRow, svcOvertaken)
    BY <1>2, <1>3, <1>6, <1>8, <2>2, <2>3, <2>5, <2>6, <2>8, SvcOwnMade
  <2>11. \A d \in SvcCallers \ {c} : SvcHas(svcTask[d]) =>
           SvcTaskOK(svcTask[d], svcVm', svcFresh.vm + 1, svcRow, svcOvertaken)
    <3> SUFFICES ASSUME NEW d \in SvcCallers \ {c}, SvcHas(svcTask[d])
                 PROVE  SvcTaskOK(svcTask[d], svcVm', svcFresh.vm + 1, svcRow, svcOvertaken)
      OBVIOUS
    <3>1. svcTask[d] \in SvcTasks
          /\ SvcTaskOK(svcTask[d], svcVm, svcFresh.vm, svcRow, svcOvertaken)
      BY SvcTaskFacts
    <3>2. /\ svcTask[d].stage = "running" => svcTask[d].id # t.id
          /\ svcTask[d].stage = "deleting" /\ svcTask[d].id = t.id => t.id \in svcOvertaken
      BY <1>1, <1>2, <1>3, SvcApartFacts DEF SvcApartTasks
    <3> QED BY <1>6, <1>8, <2>2, <2>5, <2>6, <3>1, <3>2, SvcOtherMade
  <2>12. \A d \in SvcCallers \ {c} : SvcApartTasks(u, svcTask[d], svcOvertaken)
           /\ SvcApartTasks(svcTask[d], u, svcOvertaken)
    BY <1>1, <1>2, <1>3, <2>8, SvcApartFacts, SvcStaysApart
  <2>13. SvcIds(svcVm', svcFresh.vm + 1)
    <3>1. SvcIds(svcVm, svcFresh.vm)  BY SvcFacts
    <3> QED BY <1>6, <2>2, <2>5, <2>6, <3>1, SvcPut
  <2>14. \A m \in SvcNames : SvcHas(svcVm'[m]) /\ svcVm'[m].service # 0 =>
           SvcLives(svcVm'[m].service, svcRow, svcOvertaken)
    <3>1. SvcLives(t.id, svcRow, svcOvertaken)  BY <1>2, <1>3 DEF SvcTaskOK
    <3>2. \A m \in SvcNames : SvcHas(svcVm[m]) /\ svcVm[m].service # 0 =>
            SvcLives(svcVm[m].service, svcRow, svcOvertaken)
      BY SvcFacts
    <3> QED BY <2>2, <2>5, <3>1, <3>2
  <2>15. /\ svcRow' = svcRow /\ svcOvertaken' = svcOvertaken /\ svcHarmed' = {}
         /\ svcRow \in SvcRows \cup {SvcNone} /\ (SvcHas(svcRow) => svcRow.id > 0)
    BY <2>4, SvcFacts
  <2>16. /\ SvcIds(svcVm', svcFresh'.vm)
         /\ \A m \in SvcNames : SvcHas(svcVm'[m]) /\ svcVm'[m].service # 0 =>
              SvcLives(svcVm'[m].service, svcRow', svcOvertaken')
         /\ SvcTaskOK(u, svcVm', svcFresh'.vm, svcRow', svcOvertaken')
         /\ \A d \in SvcCallers \ {c} : SvcHas(svcTask[d]) =>
              SvcTaskOK(svcTask[d], svcVm', svcFresh'.vm, svcRow', svcOvertaken')
         /\ \A d \in SvcCallers \ {c} : SvcApartTasks(u, svcTask[d], svcOvertaken')
              /\ SvcApartTasks(svcTask[d], u, svcOvertaken')
    BY <2>6, <2>10, <2>11, <2>12, <2>13, <2>14, <2>15
  <2> QED BY <2>5, <2>6, <2>8, <2>9, <2>15, <2>16, SvcCallerMoves
<1> QED BY <1>7, <1>8

\* The instances of a service as a reconcile lists them.
SvcAll(id) == {[name |-> SvcNameOf(vm), vm |-> vm] : vm \in SvcInstances(id)}
SvcKept(all) == {i \in all : i.vm.ordinal # SvcNoOrdinal /\
  \A j \in all : j # i /\ j.vm.ordinal = i.vm.ordinal => SvcBetter(i.vm, j.vm)}

\* A listed VM is listed under the name it has.
LEMMA SvcAllIs ==
  ASSUME SvcInv, NEW id \in Nat
  PROVE  /\ SvcAll(id) \subseteq SvcItems
         /\ \A i \in SvcAll(id) : SvcOwn(svcVm, i.name, id) /\ svcVm[i.name] = i.vm
         /\ \A n \in SvcNames : SvcOwn(svcVm, n, id) => \E i \in SvcAll(id) : i.name = n
<1>1. svcVm \in SvcMaps /\ SvcIds(svcVm, svcFresh.vm)  BY SvcFacts
<1>2. ASSUME NEW n \in SvcNames, SvcHas(svcVm[n]) PROVE SvcNameOf(svcVm[n]) = n
  <2>1. SvcNameOf(svcVm[n]) \in SvcNames /\ svcVm[SvcNameOf(svcVm[n])] = svcVm[n]
    BY DEF SvcNameOf
  <2> QED BY <1>1, <1>2, <2>1 DEF SvcIds
<1>3. ASSUME NEW i \in SvcAll(id)
      PROVE  i \in SvcItems /\ SvcOwn(svcVm, i.name, id) /\ svcVm[i.name] = i.vm
  <2>1. PICK n \in SvcNames : /\ SvcHas(svcVm[n]) /\ svcVm[n].service = id
                             /\ i = [name |-> SvcNameOf(svcVm[n]), vm |-> svcVm[n]]
    BY <1>3 DEF SvcAll, SvcInstances
  <2>2. i.name = n /\ i.vm = svcVm[n] /\ i = [name |-> n, vm |-> svcVm[n]]  BY <1>2, <2>1
  <2>3. svcVm[n] \in SvcVms  BY <1>1, <2>1, SvcVmIs DEF SvcMaps
  <2>4. i \in SvcItems  BY <2>2, <2>3 DEF SvcItems
  <2> QED BY <2>1, <2>2, <2>4 DEF SvcOwn
<1>4. ASSUME NEW n \in SvcNames, SvcOwn(svcVm, n, id) PROVE \E i \in SvcAll(id) : i.name = n
  <2>1. SvcHas(svcVm[n]) /\ svcVm[n].service = id  BY <1>4 DEF SvcOwn
  <2>2. svcVm[n] \in SvcInstances(id)  BY <2>1 DEF SvcInstances
  <2>3. [name |-> SvcNameOf(svcVm[n]), vm |-> svcVm[n]] \in SvcAll(id)  BY <2>2 DEF SvcAll
  <2> QED BY <1>2, <2>1, <2>3
<1> QED BY <1>3, <1>4

\* better_survivor leaves one survivor per ordinal.
LEMMA SvcOneKept ==
  ASSUME NEW all \in SUBSET SvcItems, NEW i \in SvcKept(all), NEW j \in SvcKept(all),
         i.vm.ordinal = j.vm.ordinal
  PROVE  i = j
<1> SUFFICES ASSUME i # j PROVE FALSE  OBVIOUS
<1>1. i \in all /\ j \in all /\ i.vm \in SvcVms /\ j.vm \in SvcVms  BY SvcItemIs DEF SvcKept
<1>2. SvcBetter(i.vm, j.vm) /\ SvcBetter(j.vm, i.vm)  BY <1>1 DEF SvcKept
<1>3. i.vm.id \in Nat /\ j.vm.id \in Nat  BY <1>1, SvcVmIs
<1> QED BY <1>2, <1>3 DEF SvcBetter

\* A reconcile takes the service's lock and lists its instances.
LEMMA SvcLockedInv == ASSUME SvcInv, NEW c \in SvcCallers, SvcLocked(c) PROVE SvcInv'
<1>1. PICK t : t = svcTask[c]  OBVIOUS
<1>2. SvcHas(svcTask[c]) /\ t.stage = "waiting" /\ SvcLockFree(c)  BY <1>1 DEF SvcLocked
<1>3. t \in SvcTasks /\ SvcTaskOK(t, svcVm, svcFresh.vm, svcRow, svcOvertaken)
  BY <1>1, <1>2, SvcTaskFacts
<1>4. t.id \in Nat /\ t.at = 0 /\ SvcListed(t, svcVm, svcFresh.vm)
      /\ SvcLives(t.id, svcRow, svcOvertaken)
  BY <1>2, <1>3, SvcTaskIs DEF SvcTaskOK
<1>5. PICK all : all = SvcAll(t.id)  OBVIOUS
<1>6. /\ all \subseteq SvcItems
      /\ \A i \in all : SvcOwn(svcVm, i.name, t.id) /\ svcVm[i.name] = i.vm
      /\ \A n \in SvcNames : SvcOwn(svcVm, n, t.id) => \E i \in all : i.name = n
  BY <1>4, <1>5, SvcAllIs
<1>7. PICK kept : kept = SvcKept(all)  OBVIOUS
<1>8. kept \subseteq all /\ (\A i \in kept : i.vm.ordinal # SvcNoOrdinal)
  BY <1>7 DEF SvcKept
<1>9. PICK u : u = [t EXCEPT !.stage = "running", !.by = kept, !.extra = all \ kept]  OBVIOUS
<1>10. /\ u \in SvcTasks /\ u.stage = "running" /\ u.id = t.id /\ u.kind = t.kind
       /\ u.desired = t.desired /\ u.at = 0 /\ u.by = kept /\ u.extra = all \ kept
  <2>1. kept \in SUBSET SvcItems /\ all \ kept \in SUBSET SvcItems  BY <1>6, <1>8
  <2> QED BY <1>3, <1>4, <1>9, <2>1 DEF SvcTasks
<1>11. svcTask' = [svcTask EXCEPT ![c] = u]
  BY <1>1, <1>5, <1>7, <1>9, Zenon DEF SvcLocked, SvcTasked, SvcAll, SvcKept
<1>12. /\ UNCHANGED <<svcRow, svcVm, svcFresh, svcHarmed>> /\ svcOvertaken \subseteq svcOvertaken'
       /\ \A d \in SvcCallers : SvcHas(svcTask[d]) /\ svcTask[d].stage = "deleting"
            /\ svcTask[d].id = t.id => t.id \in svcOvertaken'
  BY <1>1 DEF SvcLocked
<1>13. u.extra \cup u.by = all /\ u.extra \cap u.by = {}  BY <1>8, <1>10
<1>14. SvcListed(u, svcVm, svcFresh.vm)
  <2>1. \A i \in all : SvcItemOK(i, u, svcVm, svcFresh.vm)
    <3> SUFFICES ASSUME NEW i \in all PROVE SvcItemOK(i, u, svcVm, svcFresh.vm)  OBVIOUS
    <3>1. SvcOwn(svcVm, i.name, t.id) /\ svcVm[i.name] = i.vm /\ i.name \in SvcNames
      BY <1>6, SvcItemIs
    <3>2. svcVm[i.name].id < svcFresh.vm  BY <3>1, SvcFacts DEF SvcIds, SvcOwn
    <3> QED BY <1>10, <3>1, <3>2 DEF SvcItemOK, SvcOwn
  <2>2. \A i \in u.by : i.vm.ordinal >= 0
    <3>1. \A i \in u.by : i.vm \in SvcVms /\ i.vm.ordinal # SvcNoOrdinal
      BY <1>6, <1>8, <1>10, SvcItemIs
    <3> QED BY <3>1, SvcVmIs
  <2> QED BY <1>4, <1>10, <1>13, <2>1, <2>2 DEF SvcListed
<1>15. SvcCovers(u, svcVm)  BY <1>6, <1>10, <1>13 DEF SvcCovers
<1>16. SvcUndisturbed(u, svcVm)
  <2>1. \A o \in 0..(u.at - 1) : FALSE  BY <1>10
  <2>2. SvcApart(u, svcVm)
    <3> SUFFICES ASSUME NEW n \in SvcNames, NEW m \in SvcNames, SvcOwn(svcVm, n, u.id),
                        SvcOwn(svcVm, m, u.id), svcVm[n].ordinal = svcVm[m].ordinal,
                        \A i \in u.extra : i.name \notin {n, m}
                 PROVE  n = m
      BY DEF SvcApart
    <3>1. PICK i \in all : i.name = n /\ i.vm = svcVm[n]  BY <1>6, <1>10
    <3>2. PICK j \in all : j.name = m /\ j.vm = svcVm[m]  BY <1>6, <1>10
    <3>3. i \in kept /\ j \in kept  BY <1>10, <3>1, <3>2
    <3>4. i = j  BY <1>6, <1>7, <3>1, <3>2, <3>3, SvcOneKept
    <3> QED BY <3>1, <3>2, <3>4
  <2> QED BY <1>6, <1>13, <2>1, <2>2 DEF SvcUndisturbed
<1>17. \A id : SvcLives(id, svcRow, svcOvertaken) => SvcLives(id, svcRow', svcOvertaken')
  BY <1>12 DEF SvcLives
<1>18. SvcTaskOK(u, svcVm, svcFresh.vm, svcRow', svcOvertaken')
  BY <1>4, <1>10, <1>14, <1>15, <1>16, <1>17 DEF SvcTaskOK
<1>19. \A d \in SvcCallers \ {c} : SvcApartTasks(u, svcTask[d], svcOvertaken')
         /\ SvcApartTasks(svcTask[d], u, svcOvertaken')
  BY <1>1, <1>2, <1>10, <1>12 DEF SvcApartTasks, SvcLockFree
<1>20. \A d \in SvcCallers \ {c} : SvcHas(svcTask[d]) =>
         (svcTask[d].stage \in {"waiting", "running"} =>
            SvcLives(svcTask[d].id, svcRow', svcOvertaken'))
  BY <1>17, SvcTaskFacts DEF SvcTaskOK
<1>21. \A n \in SvcNames : SvcHas(svcVm[n]) /\ svcVm[n].service # 0 =>
         SvcLives(svcVm[n].service, svcRow', svcOvertaken')
  BY <1>17, SvcFacts
<1> QED BY <1>10, <1>11, <1>12, <1>18, <1>19, <1>20, <1>21, SvcQuietStep, SvcFacts

\* The lock is released; a deletion that emptied the service goes on.
LEMMA SvcUnlockInv == ASSUME SvcInv, NEW c \in SvcCallers, SvcUnlock(c) PROVE SvcInv'
<1>1. PICK t : t = svcTask[c]  OBVIOUS
<1>2. SvcHas(svcTask[c]) /\ t.stage = "running" /\ t.extra = {} /\ t.at = t.desired
      /\ SvcExcess(t) = {} /\ UNCHANGED <<svcRow, svcVm, svcFresh, svcHarmed, svcOvertaken>>
  BY <1>1 DEF SvcUnlock, SvcReconciled, SvcRunning
<1>3. t \in SvcTasks /\ SvcTaskOK(t, svcVm, svcFresh.vm, svcRow, svcOvertaken)
  BY <1>1, <1>2, SvcTaskFacts
<1>4. \A d \in SvcCallers \ {c} : SvcHas(svcTask[d]) =>
        (svcTask[d].stage \in {"waiting", "running"} =>
           SvcLives(svcTask[d].id, svcRow, svcOvertaken))
  BY SvcTaskFacts DEF SvcTaskOK
<1>5. CASE t.kind = "delete" /\ ~t.failed
  <2>1. PICK u : u = [t EXCEPT !.stage = "deleting"]  OBVIOUS
  <2>2. /\ u \in SvcTasks /\ u.stage = "deleting" /\ u.id = t.id /\ u.kind = t.kind
        /\ u.desired = t.desired /\ u.at = t.at /\ u.by = t.by /\ u.extra = t.extra
    BY <1>3, <2>1 DEF SvcTasks
  <2>3. SvcListed(t, svcVm, svcFresh.vm) /\ SvcCovers(t, svcVm)
    BY <1>2, <1>3, <1>5 DEF SvcTaskOK
  <2>4. SvcListed(u, svcVm, svcFresh.vm)
    <3>1. \A i \in u.extra \cup u.by : SvcItemOK(i, u, svcVm, svcFresh.vm)
      BY <2>2, <2>3 DEF SvcListed, SvcItemOK
    <3> QED BY <2>2, <2>3, <3>1 DEF SvcListed
  <2>5. t.desired = 0 /\ t.at = 0 /\ \A i \in t.by : i.vm.ordinal >= 0
    BY <1>2, <1>5, <2>3 DEF SvcListed
  <2>6. t.by = {}  BY <1>2, <2>5 DEF SvcExcess
  <2>7. \A n \in SvcNames : ~SvcOwn(svcVm, n, t.id)
    <3>1. \A o : o \notin 0..(t.at - 1)  BY <2>5
    <3> QED BY <1>2, <2>3, <2>6, <3>1 DEF SvcCovers
  <2>8. SvcTaskOK(u, svcVm, svcFresh.vm, svcRow, svcOvertaken)
    BY <2>2, <2>4, <2>7 DEF SvcTaskOK
  <2>9. \A d \in SvcCallers \ {c} : SvcApartTasks(u, svcTask[d], svcOvertaken)
          /\ SvcApartTasks(svcTask[d], u, svcOvertaken)
    BY <1>1, <1>2, <2>2, SvcApartFacts DEF SvcApartTasks
  <2>10. svcTask' = [svcTask EXCEPT ![c] = u]  BY <1>1, <1>5, <2>1 DEF SvcUnlock, SvcTasked
  <2> QED BY <1>2, <1>4, <2>2, <2>8, <2>9, <2>10, SvcQuietStep, SvcFacts
<1>6. CASE ~(t.kind = "delete" /\ ~t.failed)
  <2>1. svcTask' = [svcTask EXCEPT ![c] = SvcNone]  BY <1>1, <1>6 DEF SvcUnlock, SvcTasked
  <2> QED BY <1>2, <1>4, <2>1, SvcQuietStep, SvcFacts, SvcGoneTask
<1> QED BY <1>5, <1>6

\* The row goes: what still follows it has overtaken the deletion.
LEMMA SvcDeleteRowInv == ASSUME SvcInv, NEW c \in SvcCallers, SvcDeleteRow(c) PROVE SvcInv'
<1>1. PICK t : t = svcTask[c]  OBVIOUS
<1>2. SvcHas(svcTask[c]) /\ t.stage = "deleting" /\ svcTask' = [svcTask EXCEPT ![c] = SvcNone]
      /\ UNCHANGED <<svcVm, svcFresh, svcHarmed>>
  BY <1>1 DEF SvcDeleteRow, SvcTasked
<1>3. t \in SvcTasks /\ SvcTaskOK(t, svcVm, svcFresh.vm, svcRow, svcOvertaken)
  BY <1>1, <1>2, SvcTaskFacts
<1>4. svcRow' \in {SvcNone, svcRow} /\ svcOvertaken \subseteq svcOvertaken'
  BY DEF SvcDeleteRow
<1>5. svcRow' \in SvcRows \cup {SvcNone} /\ (SvcHas(svcRow') => svcRow'.id > 0)
  BY <1>4, SvcFacts DEF SvcHas
<1>6. ASSUME NEW id, SvcLives(id, svcRow, svcOvertaken),
             ~SvcLives(id, svcRow', svcOvertaken')
      PROVE  id = t.id /\ id \notin svcOvertaken /\ ~SvcPending(t.id, c)
  BY <1>1, <1>6 DEF SvcLives, SvcDeleteRow
<1>7. \A d \in SvcCallers \ {c} : SvcHas(svcTask[d]) =>
        (svcTask[d].stage \in {"waiting", "running"} =>
           SvcLives(svcTask[d].id, svcRow', svcOvertaken'))
  <2> SUFFICES ASSUME NEW d \in SvcCallers \ {c}, SvcHas(svcTask[d]),
                      svcTask[d].stage \in {"waiting", "running"}
               PROVE  SvcLives(svcTask[d].id, svcRow', svcOvertaken')
    OBVIOUS
  <2>1. SvcLives(svcTask[d].id, svcRow, svcOvertaken)  BY SvcTaskFacts DEF SvcTaskOK
  <2> QED BY <1>6, <2>1 DEF SvcPending
<1>8. \A n \in SvcNames : SvcHas(svcVm[n]) /\ svcVm[n].service # 0 =>
        SvcLives(svcVm[n].service, svcRow', svcOvertaken')
  <2> SUFFICES ASSUME NEW n \in SvcNames, SvcHas(svcVm[n]), svcVm[n].service # 0
               PROVE  SvcLives(svcVm[n].service, svcRow', svcOvertaken')
    OBVIOUS
  <2>1. SvcLives(svcVm[n].service, svcRow, svcOvertaken)  BY SvcFacts
  <2>2. t.id \in svcOvertaken \/ ~SvcOwn(svcVm, n, t.id)  BY <1>2, <1>3 DEF SvcTaskOK
  <2> QED BY <1>6, <2>1, <2>2 DEF SvcOwn
<1> QED BY <1>2, <1>4, <1>5, <1>7, <1>8, SvcQuietStep, SvcFacts, SvcGoneTask

-----------------------------------------------------------------------------
(* Everyone else. *)

\* Something happens to the VM of name n while the callers are at work.
LEMMA SvcEventStep ==
  ASSUME SvcInv, SvcEvent, NEW n \in SvcNames, NEW x \in SvcVms \cup {SvcNone},
         svcVm' = [svcVm EXCEPT ![n] = x], NEW g \in {svcFresh.vm, svcFresh.vm + 1},
         svcFresh' = [svcFresh EXCEPT !.vm = g],
         SvcHas(x) =>
           \/ /\ SvcHas(svcVm[n]) /\ x.id = svcVm[n].id /\ x.service = svcVm[n].service
              /\ x.ordinal = svcVm[n].ordinal
           \/ x.id = svcFresh.vm /\ x.service = 0 /\ g = svcFresh.vm + 1,
         UNCHANGED <<svcRow, svcHarmed, svcOvertaken>>
  PROVE  SvcInv'
<1>1. svcVm \in SvcMaps /\ svcFresh \in [service : Nat, vm : Nat] /\ svcFresh.vm \in Nat
      /\ SvcIds(svcVm, svcFresh.vm)
  BY SvcFacts
<1>2. svcVm' \in SvcMaps /\ svcVm'[n] = x /\ \A m \in SvcNames \ {n} : svcVm'[m] = svcVm[m]
  BY <1>1 DEF SvcMaps
<1>3. svcFresh' \in [service : Nat, vm : Nat] /\ svcFresh'.vm = g
      /\ svcFresh'.service = svcFresh.service
  BY <1>1
<1>4. SvcIds(svcVm', g)
  <2>1. \A m \in SvcNames : SvcHas(svcVm[m]) => svcVm[m].id \in Nat
    BY <1>1, SvcVmIs DEF SvcMaps
  <2> QED BY <1>1, <1>2, <2>1 DEF SvcIds
<1>5. \A m \in SvcNames : SvcHas(svcVm'[m]) /\ svcVm'[m].service # 0 =>
        SvcLives(svcVm'[m].service, svcRow, svcOvertaken)
  <2>1. \A m \in SvcNames : SvcHas(svcVm[m]) /\ svcVm[m].service # 0 =>
          SvcLives(svcVm[m].service, svcRow, svcOvertaken)
    BY SvcFacts
  <2> QED BY <1>2, <2>1
<1>6. svcTask' = [c \in SvcCallers |-> IF SvcHas(svcTask[c])
                    THEN [svcTask[c] EXCEPT !.touched = TRUE] ELSE SvcNone]
  BY DEF SvcEvent
<1>7. ASSUME NEW c \in SvcCallers, SvcHas(svcTask[c])
      PROVE  /\ svcTask'[c] \in SvcTasks /\ svcTask'[c].id = svcTask[c].id
             /\ svcTask'[c].stage = svcTask[c].stage
             /\ SvcTaskOK(svcTask'[c], svcVm', g, svcRow, svcOvertaken)
  <2>1. svcTask[c] \in SvcTasks
        /\ SvcTaskOK(svcTask[c], svcVm, svcFresh.vm, svcRow, svcOvertaken)
    BY <1>7, SvcTaskFacts
  <2>2. PICK u : u = [svcTask[c] EXCEPT !.touched = TRUE]  OBVIOUS
  <2>3. svcTask'[c] = u  BY <1>6, <1>7, <2>2
  <2>4. u \in SvcTasks /\ SvcTaskOK(u, svcVm', g, svcRow, svcOvertaken)
        /\ u.id = svcTask[c].id /\ u.stage = svcTask[c].stage
    <3>1. PICK w : w = svcVm'  OBVIOUS
    <3>2. w \in SvcMaps /\ (\A m \in SvcNames \ {n} : w[m] = svcVm[m]) /\ w[n] = x
      BY <1>2, <3>1
    <3>3. SvcHas(w[n]) =>
            \/ /\ SvcHas(svcVm[n]) /\ w[n].id = svcVm[n].id /\ w[n].service = svcVm[n].service
               /\ w[n].ordinal = svcVm[n].ordinal
            \/ w[n].id = svcFresh.vm /\ w[n].service = 0
      BY <3>2
    <3>4. PICK t : t = svcTask[c]  OBVIOUS
    <3>5. t \in SvcTasks /\ SvcTaskOK(t, svcVm, svcFresh.vm, svcRow, svcOvertaken)
          /\ u = [t EXCEPT !.touched = TRUE]
      BY <2>1, <2>2, <3>4
    <3>6. u \in SvcTasks /\ SvcTaskOK(u, w, g, svcRow, svcOvertaken)
          /\ u.id = t.id /\ u.stage = t.stage
      BY <1>1, <3>2, <3>3, <3>5, SvcTouches
    <3> QED BY <3>1, <3>4, <3>6
  <2> QED BY <2>3, <2>4
<1>8. ASSUME NEW c \in SvcCallers, ~SvcHas(svcTask[c]) PROVE svcTask'[c] = SvcNone
  BY <1>6, <1>8
<1>9. \A c \in SvcCallers : svcTask'[c] \in SvcTasks \cup {SvcNone}  BY <1>7, <1>8
<1>10. svcTask' \in [SvcCallers -> SvcTasks \cup {SvcNone}]  BY <1>6, <1>9
<1>11. \A c \in SvcCallers : SvcHas(svcTask'[c]) => SvcHas(svcTask[c])  BY <1>8 DEF SvcHas
<1>12. \A c, d \in SvcCallers : c # d => SvcApartTasks(svcTask'[c], svcTask'[d], svcOvertaken)
  <2>1. \A c, d \in SvcCallers : c # d => SvcApartTasks(svcTask[c], svcTask[d], svcOvertaken)
    BY DEF SvcInv
  <2> QED BY <1>7, <1>11, <2>1 DEF SvcApartTasks
<1>13. /\ svcRow' = svcRow /\ svcOvertaken' = svcOvertaken /\ svcHarmed' = {}
       /\ svcRow \in SvcRows \cup {SvcNone} /\ (SvcHas(svcRow) => svcRow.id > 0)
       /\ svcFresh.service > 0
  BY SvcFacts
<1>14. SvcTypeOK'  BY <1>2, <1>3, <1>10, <1>13 DEF SvcTypeOK
<1>15. /\ SvcIds(svcVm', svcFresh'.vm) /\ svcFresh'.service > 0
       /\ (SvcHas(svcRow') => svcRow'.id > 0) /\ svcHarmed' = {}
  BY <1>3, <1>4, <1>13
<1>16. \A c \in SvcCallers : SvcHas(svcTask'[c]) =>
         SvcTaskOK(svcTask'[c], svcVm', svcFresh'.vm, svcRow', svcOvertaken')
  BY <1>3, <1>7, <1>11, <1>13
<1>17. \A c, d \in SvcCallers : c # d => SvcApartTasks(svcTask'[c], svcTask'[d], svcOvertaken')
  BY <1>12, <1>13
<1>18. \A m \in SvcNames : SvcHas(svcVm'[m]) /\ svcVm'[m].service # 0 =>
         SvcLives(svcVm'[m].service, svcRow', svcOvertaken')
  BY <1>5, <1>13
<1> QED BY <1>14, <1>15, <1>16, <1>17, <1>18 DEF SvcInv

\* A guest dies, a user destroys or creates a VM.
LEMMA SvcOutsideInv ==
  ASSUME SvcInv, NEW n \in SvcNames, SvcGuestDies(n) \/ SvcUserDestroys(n) \/ SvcUserCreates(n)
  PROVE  SvcInv'
<1>1. svcVm \in SvcMaps /\ svcFresh \in [service : Nat, vm : Nat] /\ svcFresh.vm \in Nat
  BY SvcFacts
<1>2. svcFresh = [svcFresh EXCEPT !.vm = svcFresh.vm]  BY <1>1
<1>3. CASE SvcGuestDies(n)
  <2>1. SvcEvent /\ SvcHas(svcVm[n]) /\ svcVm' = [svcVm EXCEPT ![n].state = "stopped"]
        /\ UNCHANGED <<svcRow, svcFresh, svcHarmed, svcOvertaken>>
    BY <1>3 DEF SvcGuestDies
  <2>2. svcVm[n] \in SvcVms  BY <1>1, <2>1, SvcVmIs DEF SvcMaps
  <2>3. PICK x : x = [svcVm[n] EXCEPT !.state = "stopped"]  OBVIOUS
  <2>4. /\ x \in SvcVms /\ x.id = svcVm[n].id /\ x.service = svcVm[n].service
        /\ x.ordinal = svcVm[n].ordinal
    BY <2>2, <2>3 DEF SvcVms
  <2>5. svcVm' = [svcVm EXCEPT ![n] = x]  BY <2>1, <2>3
  <2>6. svcFresh' = [svcFresh EXCEPT !.vm = svcFresh.vm]  BY <1>2, <2>1
  <2> QED BY <2>1, <2>4, <2>5, <2>6, SvcEventStep
<1>4. CASE SvcUserDestroys(n)
  <2>1. SvcEvent /\ svcVm' = [svcVm EXCEPT ![n] = SvcNone]
        /\ UNCHANGED <<svcRow, svcFresh, svcHarmed, svcOvertaken>>
    BY <1>4 DEF SvcUserDestroys
  <2>2. svcFresh' = [svcFresh EXCEPT !.vm = svcFresh.vm]  BY <1>2, <2>1
  <2>3. ~SvcHas(SvcNone)  BY DEF SvcHas
  <2> QED BY <2>1, <2>2, <2>3, SvcEventStep
<1>5. CASE SvcUserCreates(n)
  <2>1. PICK x : x = SvcVm(svcFresh.vm, 0, SvcNoOrdinal, "running")  OBVIOUS
  <2>2. SvcEvent /\ svcVm' = [svcVm EXCEPT ![n] = x]
        /\ svcFresh' = [svcFresh EXCEPT !.vm = @ + 1]
        /\ UNCHANGED <<svcRow, svcHarmed, svcOvertaken>>
    BY <1>5, <2>1 DEF SvcUserCreates
  <2>3. x \in SvcVms /\ x.id = svcFresh.vm /\ x.service = 0
    BY <1>1, <2>1 DEF SvcVm, SvcVms
  <2>4. svcFresh' = [svcFresh EXCEPT !.vm = svcFresh.vm + 1]  BY <2>2
  <2> QED BY <2>2, <2>3, <2>4, SvcEventStep
<1> QED BY <1>3, <1>4, <1>5

\* The daemon dies: no task is left, and every VM keeps its id and owner.
LEMMA SvcCrashInv == ASSUME SvcInv, SvcCrash PROVE SvcInv'
<1>1. svcVm \in SvcMaps /\ SvcIds(svcVm, svcFresh.vm) /\ svcHarmed = {}  BY SvcFacts
<1>2. /\ svcTask' = [c \in SvcCallers |-> SvcNone]
      /\ svcVm' = [n \in SvcNames |-> IF SvcHas(svcVm[n])
                     THEN [svcVm[n] EXCEPT !.state = "stopped"] ELSE SvcNone]
      /\ UNCHANGED <<svcRow, svcFresh, svcHarmed, svcOvertaken>>
  BY DEF SvcCrash
<1>3. ASSUME NEW n \in SvcNames
      PROVE  /\ svcVm'[n] \in SvcVms \cup {SvcNone}
             /\ SvcHas(svcVm'[n]) => (SvcHas(svcVm[n]) /\ svcVm'[n].id = svcVm[n].id
                                       /\ svcVm'[n].service = svcVm[n].service)
  <2>1. CASE SvcHas(svcVm[n])
    <3>1. svcVm[n] \in SvcVms  BY <1>1, <2>1, SvcVmIs DEF SvcMaps
    <3>2. svcVm'[n] = [svcVm[n] EXCEPT !.state = "stopped"]  BY <1>2, <2>1
    <3> QED BY <2>1, <3>1, <3>2 DEF SvcVms
  <2>2. CASE ~SvcHas(svcVm[n])  BY <1>2, <2>2 DEF SvcHas
  <2> QED BY <2>1, <2>2
<1>4. svcVm' \in SvcMaps  BY <1>2, <1>3 DEF SvcMaps
<1>5. SvcTypeOK'  BY <1>2, <1>4, SvcFacts DEF SvcTypeOK
<1>6. \A c \in SvcCallers : svcTask'[c] = SvcNone  BY <1>2
<1>7. \A c, d \in SvcCallers : c # d => SvcApartTasks(svcTask'[c], svcTask'[d], svcOvertaken')
  BY <1>6 DEF SvcApartTasks, SvcHas
<1>8. SvcIds(svcVm', svcFresh'.vm)  BY <1>1, <1>2, <1>3 DEF SvcIds
<1>9. \A n \in SvcNames : SvcHas(svcVm'[n]) /\ svcVm'[n].service # 0 =>
        SvcLives(svcVm'[n].service, svcRow', svcOvertaken')
  <2>1. \A m \in SvcNames : SvcHas(svcVm[m]) /\ svcVm[m].service # 0 =>
          SvcLives(svcVm[m].service, svcRow, svcOvertaken)
    BY SvcFacts
  <2> QED BY <1>2, <1>3, <2>1
<1>10. \A c \in SvcCallers : ~SvcHas(svcTask'[c])  BY <1>6 DEF SvcHas
<1>11. svcFresh'.service > 0 /\ (SvcHas(svcRow') => svcRow'.id > 0) /\ svcHarmed' = {}
  BY <1>2, SvcFacts
<1> QED BY <1>5, <1>7, <1>8, <1>9, <1>10, <1>11 DEF SvcInv

\* A service from before ordinals satisfies the invariant.
LEMMA SvcInitInv == ASSUME SvcInit PROVE SvcInv
<1>1. PICK o \in {SvcNoOrdinal, 0}, s \in {"running", "stopped"} :
        svcVm = [n \in SvcNames |-> CASE n = SvcLegacy -> SvcVm(1, 1, o, "running")
                                       [] n = SvcName(0) -> SvcVm(2, 1, 0, s)
                                       [] OTHER -> SvcNone]
  BY DEF SvcInit
<1>2. /\ svcRow = [absent |-> FALSE, id |-> 1, desired |-> 1]
      /\ svcTask = [c \in SvcCallers |-> SvcNone]
      /\ svcFresh = [service |-> 2, vm |-> 3] /\ svcHarmed = {} /\ svcOvertaken = {}
  BY DEF SvcInit
<1>3. svcRow \in SvcRows /\ svcRow.id = 1 /\ svcFresh \in [service : Nat, vm : Nat]
      /\ svcFresh.vm = 3 /\ svcFresh.service = 2
  <2>1. 1 \in 0..SvcOrdinals  BY SvcAssumption
  <2> QED BY <1>2, <2>1 DEF SvcRows
<1>4. SvcLegacy # SvcName(0)  BY DEF SvcLegacy, SvcName
<1>5. PICK x : x = SvcVm(1, 1, o, "running")  OBVIOUS
<1>6. PICK y : y = SvcVm(2, 1, 0, s)  OBVIOUS
<1>7. x \in SvcVms /\ x.id = 1 /\ x.service = 1 /\ y \in SvcVms /\ y.id = 2 /\ y.service = 1
  BY <1>5, <1>6 DEF SvcVm, SvcVms
<1>8. \A n \in SvcNames : svcVm[n] = IF n = SvcLegacy THEN x ELSE IF n = SvcName(0) THEN y ELSE SvcNone
  <2> SUFFICES ASSUME NEW n \in SvcNames
               PROVE  svcVm[n] = IF n = SvcLegacy THEN x ELSE IF n = SvcName(0) THEN y ELSE SvcNone
    OBVIOUS
  <2>1. svcVm[n] = CASE n = SvcLegacy -> x [] n = SvcName(0) -> y [] OTHER -> SvcNone
    BY <1>1, <1>5, <1>6, Zenon
  <2>2. CASE n = SvcLegacy  BY <1>4, <2>1, <2>2
  <2>3. CASE n # SvcLegacy /\ n = SvcName(0)  BY <2>1, <2>3
  <2>4. CASE n # SvcLegacy /\ n # SvcName(0)  BY <2>1, <2>4
  <2> QED BY <2>2, <2>3, <2>4
<1>9. svcVm \in SvcMaps
  <2>1. \A n \in SvcNames : svcVm[n] \in SvcVms \cup {SvcNone}  BY <1>7, <1>8
  <2> QED BY <1>1, <2>1 DEF SvcMaps
<1>10. SvcTypeOK  BY <1>2, <1>3, <1>9 DEF SvcTypeOK
<1>11. SvcIds(svcVm, svcFresh.vm)
  <2>1. \A n \in SvcNames : SvcHas(svcVm[n]) =>
          (n = SvcLegacy /\ svcVm[n].id = 1) \/ (n = SvcName(0) /\ svcVm[n].id = 2)
    BY <1>7, <1>8 DEF SvcHas
  <2> QED BY <1>3, <2>1 DEF SvcIds
<1>12. \A n \in SvcNames : SvcHas(svcVm[n]) /\ svcVm[n].service # 0 =>
         SvcLives(svcVm[n].service, svcRow, svcOvertaken)
  <2>1. \A n \in SvcNames : SvcHas(svcVm[n]) => svcVm[n].service = 1  BY <1>7, <1>8 DEF SvcHas
  <2>2. SvcHas(svcRow)  BY <1>3, SvcRowIs
  <2> QED BY <1>3, <2>1, <2>2 DEF SvcLives
<1>13. \A c \in SvcCallers : ~SvcHas(svcTask[c])  BY <1>2 DEF SvcHas
<1>14. \A c, d \in SvcCallers : c # d => SvcApartTasks(svcTask[c], svcTask[d], svcOvertaken)
  BY <1>13 DEF SvcApartTasks
<1>15. svcFresh.service > 0 /\ (SvcHas(svcRow) => svcRow.id > 0) /\ svcHarmed = {}
  BY <1>2, <1>3
<1> QED BY <1>10, <1>11, <1>12, <1>13, <1>14, <1>15 DEF SvcInv

\* Every step of services.rs, of its users and of the guests keeps the invariant.
LEMMA SvcStep == ASSUME SvcInv, [SvcNext]_svcVars PROVE SvcInv'
<1>1. CASE UNCHANGED svcVars
  <2>1. /\ svcRow' = svcRow /\ svcVm' = svcVm /\ svcTask' = svcTask /\ svcFresh' = svcFresh
        /\ svcHarmed' = svcHarmed /\ svcOvertaken' = svcOvertaken
    BY <1>1 DEF svcVars
  <2> QED BY <2>1 DEF SvcInv, SvcTypeOK
<1>2. CASE SvcNext
  <2>1. ASSUME NEW c \in SvcCallers, NEW d \in 0..SvcOrdinals, SvcCreate(c, d) \/ SvcScale(c, d)
        PROVE  SvcInv'
    BY <2>1, SvcCreateInv, SvcScaleInv
  <2>2. ASSUME NEW c \in SvcCallers,
               SvcScaled(c) \/ SvcDelete(c) \/ SvcTick(c) \/ SvcLocked(c) \/ SvcKeep(c)
               \/ SvcUnlock(c) \/ SvcDeleteRow(c)
        PROVE  SvcInv'
    BY <2>2, SvcScaledInv, SvcDeleteInv, SvcTickInv, SvcLockedInv, SvcKeepInv, SvcUnlockInv,
       SvcDeleteRowInv
  <2>3. ASSUME NEW c \in SvcCallers, NEW ok \in BOOLEAN,
               \/ \E i \in svcTask[c].extra : SvcDestroyExtra(c, i, ok)
               \/ SvcReplace(c, ok) \/ SvcCreateInstance(c, ok) \/ SvcScaleDown(c, ok)
        PROVE  SvcInv'
    BY <2>3, SvcDestroyExtraInv, SvcReplaceInv, SvcCreateInstanceInv, SvcScaleDownInv
  <2>4. ASSUME NEW n \in SvcNames, SvcGuestDies(n) \/ SvcUserDestroys(n) \/ SvcUserCreates(n)
        PROVE  SvcInv'
    BY <2>4, SvcOutsideInv
  <2> QED BY <1>2, <2>1, <2>2, <2>3, <2>4, SvcCrashInv DEF SvcNext
<1> QED BY <1>1, <1>2

\* What a reconcile that ended undisturbed leaves.
LEMMA SvcExact ==
  ASSUME SvcInv, NEW c \in SvcCallers, SvcReconciled(c), ~svcTask[c].failed, ~svcTask[c].touched
  PROVE  LET vms == SvcInstances(svcTask[c].id) IN
         /\ SvcOrdinalsOf(svcTask[c].id) = 0..(svcTask[c].desired - 1)
         /\ Cardinality(vms) = svcTask[c].desired
         /\ \A vm \in vms : vm.state = "running"
<1>1. PICK t : t = svcTask[c]  OBVIOUS
<1>2. SvcHas(svcTask[c]) /\ t.stage = "running" /\ t.extra = {} /\ t.at = t.desired
      /\ SvcExcess(t) = {} /\ ~t.failed /\ ~t.touched
  BY <1>1 DEF SvcReconciled, SvcRunning
<1>3. t \in SvcTasks /\ SvcTaskOK(t, svcVm, svcFresh.vm, svcRow, svcOvertaken)
  BY <1>1, <1>2, SvcTaskFacts
<1>4. SvcListed(t, svcVm, svcFresh.vm) /\ SvcCovers(t, svcVm) /\ SvcUndisturbed(t, svcVm)
  BY <1>2, <1>3 DEF SvcTaskOK
<1>5. t.desired \in Nat /\ t.by \subseteq SvcItems  BY <1>3, SvcTaskIs, SvcAssumption
<1>6. PICK V : V = SvcInstances(t.id)  OBVIOUS
<1>7. PICK R : R = 0..(t.desired - 1)  OBVIOUS
<1>8. \A n \in SvcNames : SvcOwn(svcVm, n, t.id) => svcVm[n].ordinal \in R
  <2> SUFFICES ASSUME NEW n \in SvcNames, SvcOwn(svcVm, n, t.id) PROVE svcVm[n].ordinal \in R
    OBVIOUS
  <2>1. CASE svcVm[n].ordinal \in 0..(t.at - 1)  BY <1>2, <1>7, <2>1
  <2>2. CASE \E i \in t.by : i.name = n /\ i.vm.id = svcVm[n].id
    <3>1. PICK i \in t.by : i.name = n  BY <2>2
    <3>2. svcVm[n] = i.vm /\ i.vm.ordinal >= 0 /\ ~(i.vm.ordinal >= t.desired)
      BY <1>2, <1>4, <3>1 DEF SvcUndisturbed, SvcListed, SvcExcess
    <3>3. i.vm.ordinal \in Int  BY <1>5, <3>1, SvcItemIs, SvcVmIs
    <3> QED BY <1>5, <1>7, <3>2, <3>3
  <2> QED BY <1>2, <1>4, <2>1, <2>2 DEF SvcCovers
<1>9. \A o \in R : \E n \in SvcNames :
        SvcOwn(svcVm, n, t.id) /\ svcVm[n].ordinal = o /\ svcVm[n].state = "running"
  BY <1>2, <1>4, <1>7 DEF SvcUndisturbed
<1>10. \A n, m \in SvcNames : SvcOwn(svcVm, n, t.id) /\ SvcOwn(svcVm, m, t.id)
         /\ svcVm[n].ordinal = svcVm[m].ordinal => n = m
  BY <1>2, <1>4 DEF SvcUndisturbed, SvcApart
<1>11. \A vm : vm \in V <=> \E n \in SvcNames : SvcOwn(svcVm, n, t.id) /\ vm = svcVm[n]
  BY <1>6 DEF SvcInstances, SvcOwn
<1>12. \A vm \in V : vm.ordinal \in R /\ vm.state = "running"  BY <1>8, <1>9, <1>10, <1>11
<1>13. \A o \in R : \E vm \in V : vm.ordinal = o  BY <1>9, <1>11
<1>14. \A x, y \in V : x.ordinal = y.ordinal => x = y  BY <1>10, <1>11
<1>15. {vm.ordinal : vm \in V} = R  BY <1>12, <1>13
<1>16. Cardinality(V) = t.desired
  <2>1. PICK f : f = [vm \in V |-> vm.ordinal]  OBVIOUS
  <2>2. f \in [V -> R] /\ \A vm \in V : f[vm] = vm.ordinal  BY <1>12, <2>1
  <2>3. f \in Injection(V, R)  BY <1>14, <2>2 DEF Injection, IsInjective
  <2>4. f \in Surjection(V, R)  BY <1>13, <2>2 DEF Surjection
  <2>5. ExistsBijection(V, R)  BY <2>3, <2>4 DEF Bijection, ExistsBijection
  <2>6. ExistsBijection(R, V)  BY <2>5, Fun_ExistsBijSymmetric
  <2>7. IsFiniteSet(R) /\ Cardinality(R) = t.desired
    <3>1. t.desired - 1 \in Int /\ 0 \in Int  BY <1>5
    <3>2. IsFiniteSet(R) /\ Cardinality(R) =
            IF 0 > t.desired - 1 THEN 0 ELSE (t.desired - 1) - 0 + 1
      BY <1>7, <3>1, FS_Interval
    <3> QED BY <1>5, <3>2
  <2> QED BY <2>6, <2>7, FS_Bijection
<1> QED BY <1>1, <1>6, <1>7, <1>12, <1>15, <1>16 DEF SvcOrdinalsOf

\* The invariant is what the services promise.
LEMMA SvcInvSound == SvcInv => SvcSound
<1> SUFFICES ASSUME SvcInv PROVE SvcSound  OBVIOUS
<1>1. svcHarmed = {}  BY DEF SvcInv
<1>2. \A n \in SvcNames : SvcHas(svcVm[n]) /\ svcVm[n].service # 0 =>
        \/ SvcHas(svcRow) /\ svcRow.id = svcVm[n].service
        \/ svcVm[n].service \in svcOvertaken
  BY DEF SvcInv, SvcLives
<1> QED BY <1>1, <1>2, SvcExact DEF SvcSound

-----------------------------------------------------------------------------
(* ApiGate. *)

\* A set of naturals that is not empty has a least member.
LEMMA ApLeast ==
  ASSUME NEW T, T \subseteq Nat, T # {}
  PROVE  \E n \in T : \A m \in T : n <= m
<1>1. \E n \in T : \A m \in T : ~ (<<m, n>> \in OpToRel(<, Nat))
  BY NatLessThanWellFounded, WFMin, Zenon
<1>2. PICK n \in T : \A m \in T : ~ (<<m, n>> \in OpToRel(<, Nat))
  BY <1>1
<1>3. ASSUME NEW m \in T PROVE n <= m
  <2>1. m \in Nat /\ n \in Nat
    OBVIOUS
  <2>2. m < n => <<m, n>> \in OpToRel(<, Nat)
    BY <2>1 DEF OpToRel
  <2>3. ~ (m < n)
    BY <1>2, <2>2, Zenon
  <2> QED BY <2>1, <2>3
<1> QED BY <1>3

-----------------------------------------------------------------------------
(* The limiter. *)

\* The loop pops what is past the window and stops at the first event in it.
LEMMA ApPoppedFacts ==
  ASSUME NEW q \in Seq(Nat), NEW now \in Nat
  PROVE  /\ ApPopped(q, now) \in 0..Len(q)
         /\ \A i \in 1..ApPopped(q, now) : q[i] < now - ApWindow
         /\ ApPopped(q, now) < Len(q) => q[ApPopped(q, now) + 1] >= now - ApWindow
<1> DEFINE Fresh == {i \in 1..Len(q) : q[i] >= now - ApWindow}
           Stops(n) == /\ \A i \in 1..n : q[i] < now - ApWindow
                       /\ n < Len(q) => q[n + 1] >= now - ApWindow
<1>1. \E n \in 0..Len(q) : Stops(n)
  <2>0. Len(q) \in Nat /\ now - ApWindow \in Int /\ \A i \in 1..Len(q) : q[i] \in Nat
    BY ApAssumption
  <2>1. CASE Fresh = {}
    <3>1. ASSUME NEW i \in 1..Len(q) PROVE q[i] < now - ApWindow
      <4>1. ~(q[i] >= now - ApWindow)  BY <2>1
      <4> QED BY <2>0, <4>1
    <3>2. Len(q) \in 0..Len(q) /\ ~(Len(q) < Len(q))  BY <2>0
    <3> QED BY <3>1, <3>2
  <2>2. CASE Fresh # {}
    <3>1. Fresh \subseteq Nat
      BY <2>0
    <3>2. PICK m \in Fresh : \A i \in Fresh : m <= i
      <4> HIDE DEF Fresh
      <4> QED BY <2>2, <3>1, ApLeast
    <3>3. m \in 1..Len(q) /\ q[m] >= now - ApWindow
      OBVIOUS
    <3>4. \A i \in 1..(m - 1) : q[i] < now - ApWindow
      <4> SUFFICES ASSUME NEW i \in 1..(m - 1) PROVE q[i] < now - ApWindow
        OBVIOUS
      <4>1. i \in 1..Len(q) /\ ~ (m <= i)
        BY <2>0, <3>3
      <4>2. i \notin Fresh
        BY <3>2, <4>1
      <4> QED BY <2>0, <4>1, <4>2
    <3>5. m - 1 \in 0..Len(q) /\ (m - 1) + 1 = m
      BY <2>0, <3>3
    <3> QED BY <3>3, <3>4, <3>5
  <2> QED BY <2>1, <2>2
<1>2. ApPopped(q, now) = CHOOSE n \in 0..Len(q) : Stops(n)
  BY DEF ApPopped
<1> HIDE DEF Stops
<1>3. ApPopped(q, now) \in 0..Len(q) /\ Stops(ApPopped(q, now))
  BY <1>1, <1>2, Zenon
<1> QED BY <1>3 DEF Stops

\* What is left is the end of the queue.
LEMMA ApPrunedFacts ==
  ASSUME NEW q \in Seq(Nat), NEW now \in Nat
  PROVE  \E n \in 0..Len(q) :
           /\ n = ApPopped(q, now)
           /\ ApPruned(q, now) \in Seq(Nat) /\ Len(ApPruned(q, now)) = Len(q) - n
           /\ \A i \in 1..(Len(q) - n) : ApPruned(q, now)[i] = q[n + i]
<1> DEFINE n == ApPopped(q, now)
<1>1. n \in 0..Len(q) /\ Len(q) \in Nat
  BY ApPoppedFacts
<1>2. ApPruned(q, now) = SubSeq(q, n + 1, Len(q))
  BY DEF ApPruned
<1> HIDE DEF n
<1>3. \A i \in (n + 1)..Len(q) : q[i] \in Nat
  BY <1>1
<1>4. /\ SubSeq(q, n + 1, Len(q)) \in Seq(Nat)
      /\ Len(SubSeq(q, n + 1, Len(q))) = Len(q) - n
      /\ \A i \in 1..(Len(q) - n) : SubSeq(q, n + 1, Len(q))[i] = q[n + i]
  BY <1>1, <1>3
<1> QED BY <1>1, <1>2, <1>4 DEF n

\* The queue of a key is the end of its past: what was popped is out of the
\* window for good.
ApKeyOK(e, p, r, now) ==
  /\ e \in Seq(Nat) /\ p \in Seq(Nat) /\ r \in Nat
  /\ ApLimit # 0 =>
       /\ Len(e) <= Len(p) /\ Len(e) <= ApLimit
       /\ \A i \in 1..Len(e) : e[i] = p[(Len(p) - Len(e)) + i]
       /\ \A i \in 1..(Len(p) - Len(e)) : p[i] < now - ApWindow
       /\ \A i \in 1..(Len(p) - ApLimit) : p[i + ApLimit] - p[i] > ApWindow
       /\ r # 0 => Len(e) > 0 /\ e[1] + ApWindow <= r

\* Time alone takes more out of the window.
LEMMA ApKeyLater ==
  ASSUME NEW e, NEW p, NEW r, NEW now \in Nat, ApKeyOK(e, p, r, now)
  PROVE  ApKeyOK(e, p, r, now + 1)
<1> SUFFICES ASSUME ApLimit # 0, NEW i \in 1..(Len(p) - Len(e))
             PROVE  p[i] < (now + 1) - ApWindow
  BY DEF ApKeyOK
<1>1. p[i] < now - ApWindow /\ i \in 1..Len(p) /\ p \in Seq(Nat)
  BY DEF ApKeyOK
<1>2. p[i] \in Nat
  BY <1>1
<1> QED BY <1>1, <1>2, ApAssumption

\* A refused request leaves the pruned queue and a moment to come back.
LEMMA ApKeyRefused ==
  ASSUME NEW e, NEW p, NEW r, NEW now \in Nat, ApKeyOK(e, p, r, now), ApLimited(e, now)
  PROVE  ApKeyOK(ApCharged(e, now), p, ApRetryAt(e, now), now)
<1>0. ApLimit \in Nat /\ ApWindow \in Nat /\ ApLimit # 0 /\ e \in Seq(Nat) /\ p \in Seq(Nat)
  BY ApAssumption DEF ApKeyOK, ApLimited
<1>1. PICK n \in 0..Len(e) :
        /\ n = ApPopped(e, now)
        /\ ApPruned(e, now) \in Seq(Nat) /\ Len(ApPruned(e, now)) = Len(e) - n
        /\ \A i \in 1..(Len(e) - n) : ApPruned(e, now)[i] = e[n + i]
  BY <1>0, ApPrunedFacts
<1>2. PICK f : f = ApPruned(e, now)
  OBVIOUS
<1>3. ApCharged(e, now) = f
  BY <1>0, <1>2 DEF ApCharged
<1>4. Len(f) >= ApLimit /\ f \in Seq(Nat) /\ Len(f) = Len(e) - n
      /\ \A i \in 1..(Len(e) - n) : f[i] = e[n + i]
  BY <1>1, <1>2 DEF ApLimited
<1>5. \A i \in 1..n : e[i] < now - ApWindow
  BY <1>0, <1>1, ApPoppedFacts
<1>6. Len(e) \in Nat /\ Len(p) \in Nat /\ Len(f) \in Nat
  BY <1>0, <1>4, SMTT(20)
<1>7. Len(e) <= Len(p) /\ Len(e) <= ApLimit
  BY <1>0 DEF ApKeyOK
<1>8. \A i \in 1..Len(f) : f[i] = p[(Len(p) - Len(f)) + i]
  <2> SUFFICES ASSUME NEW i \in 1..Len(f) PROVE f[i] = p[(Len(p) - Len(f)) + i]
    OBVIOUS
  <2>1. n + i \in 1..Len(e) /\ (Len(p) - Len(e)) + (n + i) = (Len(p) - Len(f)) + i
    <3>1. PICK a, b, c : a = Len(e) /\ b = Len(p) /\ c = Len(f)
      OBVIOUS
    <3>2. /\ a \in Nat /\ b \in Nat /\ c \in Nat /\ n \in Nat /\ n <= a /\ i \in Nat
          /\ i >= 1 /\ i <= c /\ c = a - n
      BY <1>4, <1>6, <3>1
    <3> QED BY <3>1, <3>2
  <2>2. f[i] = e[n + i]
    BY <1>4, <1>6
  <2>3. e[n + i] = p[(Len(p) - Len(e)) + (n + i)]
    BY <1>0, <2>1 DEF ApKeyOK
  <2> QED BY <2>1, <2>2, <2>3
<1>9. \A i \in 1..(Len(p) - Len(f)) : p[i] < now - ApWindow
  <2> SUFFICES ASSUME NEW i \in 1..(Len(p) - Len(f)) PROVE p[i] < now - ApWindow
    OBVIOUS
  <2>1. CASE i \in 1..(Len(p) - Len(e))
    BY <1>0, <2>1 DEF ApKeyOK
  <2>2. CASE i \notin 1..(Len(p) - Len(e))
    <3>1. PICK m : m = i - (Len(p) - Len(e))
      OBVIOUS
    <3>2. m \in 1..n /\ m \in 1..Len(e) /\ (Len(p) - Len(e)) + m = i
      BY <1>1, <1>4, <1>6, <1>7, <2>2, <3>1
    <3>3. e[m] = p[(Len(p) - Len(e)) + m]
      BY <1>0, <3>2 DEF ApKeyOK
    <3> QED BY <1>5, <3>2, <3>3
  <2> QED BY <2>1, <2>2
<1>10. /\ ApRetryAt(e, now) \in Nat /\ Len(f) > 0 /\ f[1] + ApWindow <= ApRetryAt(e, now)
  <2>1. Len(f) > 0 /\ f[1] \in Nat /\ Head(f) = f[1]
    BY <1>0, <1>4, <1>6
  <2>2. ApRetryAt(e, now) = IF f[1] + ApWindow > now THEN f[1] + ApWindow ELSE now + 1
    BY <1>2, <2>1 DEF ApRetryAt
  <2> QED BY <1>0, <2>1, <2>2
<1>11. Len(f) <= Len(p) /\ Len(f) <= ApLimit
  BY <1>0, <1>1, <1>4, <1>6, <1>7
<1>12. \A i \in 1..(Len(p) - ApLimit) : p[i + ApLimit] - p[i] > ApWindow
  BY <1>0 DEF ApKeyOK
<1> QED BY <1>0, <1>3, <1>4, <1>8, <1>9, <1>10, <1>11, <1>12 DEF ApKeyOK

\* An admitted request has at least a window between it and the one that many
\* before it.
LEMMA ApKeyAdmitted ==
  ASSUME NEW e, NEW p, NEW r, NEW now \in Nat, ApKeyOK(e, p, r, now), ~ApLimited(e, now)
  PROVE  ApKeyOK(ApCharged(e, now), Append(p, now), 0, now)
<1>0. ApLimit \in Nat /\ ApWindow \in Nat /\ e \in Seq(Nat) /\ p \in Seq(Nat)
  BY ApAssumption DEF ApKeyOK
<1>1. PICK n \in 0..Len(e) :
        /\ n = ApPopped(e, now)
        /\ ApPruned(e, now) \in Seq(Nat) /\ Len(ApPruned(e, now)) = Len(e) - n
        /\ \A i \in 1..(Len(e) - n) : ApPruned(e, now)[i] = e[n + i]
  BY <1>0, ApPrunedFacts
<1>2. PICK f : f = ApPruned(e, now)
  OBVIOUS
<1>3. PICK g, q : g = Append(f, now) /\ q = Append(p, now)
  OBVIOUS
<1>4. f \in Seq(Nat) /\ Len(f) = Len(e) - n /\ \A i \in 1..(Len(e) - n) : f[i] = e[n + i]
  BY <1>1, <1>2
<1>5. /\ g \in Seq(Nat) /\ Len(g) = Len(f) + 1 /\ g[Len(f) + 1] = now
      /\ \A i \in 1..Len(f) : g[i] = f[i]
      /\ q \in Seq(Nat) /\ Len(q) = Len(p) + 1 /\ q[Len(p) + 1] = now
      /\ \A i \in 1..Len(p) : q[i] = p[i]
  BY <1>0, <1>3, <1>4
<1>6. CASE ApLimit = 0
  BY <1>0, <1>3, <1>5, <1>6 DEF ApKeyOK, ApCharged
<1>7. CASE ApLimit # 0
  <2>1. ApCharged(e, now) = g /\ Len(f) < ApLimit
    BY <1>0, <1>2, <1>3, <1>4, <1>7 DEF ApCharged, ApLimited
  <2>2. \A i \in 1..n : e[i] < now - ApWindow
    BY <1>0, <1>1, ApPoppedFacts
  <2>3. Len(e) \in Nat /\ Len(p) \in Nat /\ Len(f) \in Nat
    BY <1>0, <1>4
  <2>4. Len(e) <= Len(p) /\ Len(e) <= ApLimit
    BY <1>7 DEF ApKeyOK
  <2>len. /\ Len(e) \in Nat /\ Len(p) \in Nat /\ Len(f) \in Nat /\ n \in Nat /\ n <= Len(e)
          /\ Len(f) = Len(e) - n /\ Len(g) = Len(f) + 1 /\ Len(q) = Len(p) + 1
          /\ Len(e) <= Len(p)
    BY <1>1, <1>4, <1>5, <2>3, <2>4
  <2>5. \A i \in 1..Len(g) : g[i] = q[(Len(q) - Len(g)) + i]
    <3> SUFFICES ASSUME NEW i \in 1..Len(g) PROVE g[i] = q[(Len(q) - Len(g)) + i]
      OBVIOUS
    <3>1. CASE i = Len(f) + 1
      <4>1. (Len(q) - Len(g)) + i = Len(p) + 1
        BY <1>5, <2>3, <3>1
      <4> QED BY <1>5, <3>1, <4>1
    <3>2. CASE i # Len(f) + 1
      <4>1. /\ i \in 1..Len(f) /\ n + i \in 1..Len(e)
            /\ (Len(p) - Len(e)) + (n + i) = (Len(q) - Len(g)) + i
            /\ (Len(q) - Len(g)) + i \in 1..Len(p)
        BY <2>len, <3>2
      <4>2. g[i] = f[i] /\ f[i] = e[n + i]
        BY <1>4, <1>5, <2>3, <4>1
      <4>3. e[n + i] = p[(Len(p) - Len(e)) + (n + i)]
        BY <1>7, <4>1 DEF ApKeyOK
      <4>4. q[(Len(q) - Len(g)) + i] = p[(Len(q) - Len(g)) + i]
        BY <1>5, <4>1
      <4> QED BY <4>1, <4>2, <4>3, <4>4
    <3> QED BY <3>1, <3>2
  <2>6. \A i \in 1..(Len(q) - Len(g)) : q[i] < now - ApWindow
    <3> SUFFICES ASSUME NEW i \in 1..(Len(q) - Len(g)) PROVE q[i] < now - ApWindow
      OBVIOUS
    <3>0. i \in 1..Len(p) /\ q[i] = p[i]
      <4>1. i \in 1..Len(p)  BY <2>len
      <4> QED BY <1>5, <4>1
    <3>1. CASE i \in 1..(Len(p) - Len(e))
      BY <1>7, <3>0, <3>1 DEF ApKeyOK
    <3>2. CASE i \notin 1..(Len(p) - Len(e))
      <4>1. PICK m : m = i - (Len(p) - Len(e))
        OBVIOUS
      <4>2. m \in 1..n /\ m \in 1..Len(e) /\ (Len(p) - Len(e)) + m = i
        BY <2>len, <3>2, <4>1
      <4>3. e[m] = p[(Len(p) - Len(e)) + m]
        BY <1>7, <4>2 DEF ApKeyOK
      <4> QED BY <2>2, <3>0, <4>2, <4>3
    <3> QED BY <3>1, <3>2
  <2>7. ASSUME NEW i \in 1..(Len(q) - ApLimit) PROVE q[i + ApLimit] - q[i] > ApWindow
    <3>00. i \in 1..Len(p) /\ i \in Nat
      BY <1>0, <1>7, <2>len
    <3>0. i \in 1..Len(p) /\ q[i] = p[i] /\ p[i] \in Nat
      <4>1. p[i] \in Nat
        BY <1>0, <3>00, ElementOfSeq
      <4> QED BY <1>5, <3>00, <4>1
    <3>1. CASE i + ApLimit = Len(q)
      <4>1. i \in 1..(Len(q) - Len(g))
        BY <1>0, <2>1, <2>len, <3>00, <3>1
      <4>2. q[i] < now - ApWindow /\ q[i + ApLimit] = now
        BY <1>5, <2>6, <3>1, <4>1
      <4> QED BY <1>0, <3>0, <4>2
    <3>2. CASE i + ApLimit # Len(q)
      <4>0. i + ApLimit <= Len(q) /\ i >= 1
        BY <1>0, <2>len, <3>00
      <4>1. i + ApLimit \in 1..Len(p) /\ i \in 1..(Len(p) - ApLimit)
        <5>1. PICK a, b, c : a = i + ApLimit /\ b = Len(p) /\ c = Len(p) - ApLimit
          OBVIOUS
        <5>2. a \in Int /\ b \in Nat /\ a <= b + 1 /\ a # b + 1 /\ 1 <= a
          BY <1>0, <2>len, <3>00, <3>2, <4>0, <5>1
        <5>3. a <= b
          BY <5>2
        <5> QED BY <1>0, <2>len, <3>00, <5>1, <5>2, <5>3
      <4>2. p[i + ApLimit] - p[i] > ApWindow
        BY <1>7, <4>1 DEF ApKeyOK
      <4>3. q[i + ApLimit] = p[i + ApLimit]
        BY <1>5, <4>1
      <4> QED BY <3>0, <4>2, <4>3
    <3> QED BY <3>1, <3>2
  <2>8. Len(g) <= Len(q) /\ Len(g) <= ApLimit
    BY <1>0, <2>1, <2>len
  <2> QED BY <1>3, <1>5, <2>1, <2>5, <2>6, <2>7, <2>8 DEF ApKeyOK
<1> QED BY <1>6, <1>7

\* Past the moment a refusal named, the event it waited for is popped.
LEMMA ApKeyFreed ==
  ASSUME NEW e, NEW p, NEW r, NEW now \in Nat, ApKeyOK(e, p, r, now), r # 0, now > r
  PROVE  ~ApLimited(e, now)
<1> SUFFICES ASSUME ApLimit # 0 PROVE ~ (Len(ApPruned(e, now)) >= ApLimit)
  BY DEF ApLimited
<1>0. ApLimit \in Nat /\ ApWindow \in Nat /\ e \in Seq(Nat) /\ Len(e) \in Nat /\ r \in Nat
      /\ Len(e) > 0 /\ e[1] + ApWindow <= r /\ Len(e) <= ApLimit /\ e[1] \in Nat
  BY ApAssumption DEF ApKeyOK
<1>1. PICK n \in 0..Len(e) :
        /\ n = ApPopped(e, now) /\ Len(ApPruned(e, now)) = Len(e) - n
  BY <1>0, ApPrunedFacts
<1>2. n # 0
  <2> SUFFICES ASSUME n = 0 PROVE FALSE
    OBVIOUS
  <2>1. e[0 + 1] >= now - ApWindow
    BY <1>0, <1>1, ApPoppedFacts
  <2> QED BY <1>0, <2>1
<1> QED BY <1>0, <1>1, <1>2

-----------------------------------------------------------------------------
(* The routes. *)

\* The heads of the paths that need no token.
ApOpenPaths == {"health", "docs", "api-docs"}

\* What a path starts with.
LEMMA ApHeads ==
  /\ \A a : Head(<<a>>) = a
  /\ \A a, b : Head(<<a, b>>) = a
  /\ \A a, b, c : Head(<<a, b, c>>) = a
  /\ \A a, b, c, d : Head(<<a, b, c, d>>) = a
  /\ \A a, b, c, d, e : Head(<<a, b, c, d, e>>) = a
OBVIOUS

\* A named resource has its routes under its own path.
LEMMA ApNamedHead ==
  ASSUME NEW plural, NEW r \in ApNamed(plural)
  PROVE  Head(r.path) = plural
BY ApHeads DEF ApNamed, ApGet, ApPost, ApDelete, ApRoute

\* And so have its verbs.
LEMMA ApVerbHead ==
  ASSUME NEW plural, NEW verb, NEW does, NEW r \in ApActs(plural, verb, does) \cup ApViews(plural, verb)
  PROVE  Head(r.path) = plural
BY ApHeads DEF ApActs, ApViews, ApGet, ApPost, ApRoute

\* A route without a token only reads (is_unauthenticated_route).
LEMMA ApPublicReads ==
  ASSUME NEW r \in ApRoutes, ApPublic(r)
  PROVE  r.does = "read"
<1> DEFINE H == Head(r.path)
<1>0. H \in ApOpenPaths
  BY DEF ApPublic, ApOpenPaths
<1>1. CASE r \in ApHealthRoutes
  BY <1>1 DEF ApHealthRoutes, ApGet, ApRoute
<1>2. CASE r \in ApDaemonRoutes \cup ApMetricsRoutes
  BY <1>0, <1>2, ApHeads DEF ApDaemonRoutes, ApMetricsRoutes, ApGet, ApRoute, ApOpenPaths
<1>3. CASE r \in ApGroupRoutes \cup ApVolumeRoutes
  <2>1. H \in {"host-groups", "volumes"}
    BY <1>3, ApNamedHead DEF ApGroupRoutes, ApVolumeRoutes
  <2> QED BY <1>0, <2>1 DEF ApOpenPaths
<1>4. CASE r \in ApServiceRoutes \cup ApSnapshotRoutes \cup ApPoolRoutes
  <2>1. H \in {"services", "snapshots", "pools"}
    BY <1>4, ApNamedHead, ApVerbHead DEF ApServiceRoutes, ApSnapshotRoutes, ApPoolRoutes
  <2> QED BY <1>0, <2>1 DEF ApOpenPaths
<1>5. CASE r \in ApImageRoutes \cup ApImageCopies
  <2>1. H \in {"images", "vms"}
    <3>1. CASE r = ApPost(<<"images", "import-oci">>, "change")
      BY <3>1, ApHeads DEF ApPost, ApRoute
    <3> QED BY <1>5, <3>1, ApNamedHead, ApVerbHead DEF ApImageRoutes, ApImageCopies
  <2> QED BY <1>0, <2>1 DEF ApOpenPaths
<1>6. CASE r \in ApSecretRoutes
  <2>1. H = "secrets"
    BY <1>6, ApNamedHead, ApVerbHead DEF ApSecretRoutes
  <2> QED BY <1>0, <2>1 DEF ApOpenPaths
<1>7. CASE r \in ApVmRoutes
  <2>1. PICK q \in ApNamed("vms") : r = IF q.method = "POST" THEN [q EXCEPT !.does = "create vm"] ELSE q
    BY <1>7 DEF ApVmRoutes
  <2>2. \E m, p, w : q = [method |-> m, path |-> p, does |-> w]
    BY DEF ApNamed, ApGet, ApPost, ApDelete, ApRoute
  <2>3. r.path = q.path
    BY <2>1, <2>2
  <2>4. H = "vms"
    BY <2>3, ApNamedHead
  <2> QED BY <1>0, <2>4 DEF ApOpenPaths
<1>8. CASE r \in ApVmActs \cup ApPortRoutes \cup ApExecRoutes
  <2>1. H = "vms"
    <3>1. CASE r \in ApVmActs
      <4>1. CASE \E n \in ApNames : r = ApRoute("PUT", <<"vms", n, "balloon">>, "change")
        BY <4>1, ApHeads DEF ApRoute
      <4>2. CASE \E v : r \in ApActs("vms", v, "change")
        BY <4>2, ApVerbHead
      <4> DEFINE V == {"stop", "pause", "resume", "suspend", "fork"}
                 A(v) == ApActs("vms", v, "change")
      <4>0. r \in UNION {A(v) : v \in V}
              \/ \E n \in ApNames : r = ApRoute("PUT", <<"vms", n, "balloon">>, "change")
        BY <3>1 DEF ApVmActs
      <4>3. (\E v : r \in ApActs("vms", v, "change"))
              \/ \E n \in ApNames : r = ApRoute("PUT", <<"vms", n, "balloon">>, "change")
        <5> HIDE DEF V, A
        <5>1. r \in UNION {A(v) : v \in V} => \E v \in V : r \in A(v)
          OBVIOUS
        <5> QED BY <4>0, <5>1 DEF A
      <4> QED BY <4>1, <4>2, <4>3, Zenon
    <3>2. CASE r \in ApPortRoutes
      <4>1. CASE \E n \in ApNames : r = ApDelete(<<"vms", n, "ports", "8080">>)
        BY <4>1, ApHeads DEF ApRoute, ApDelete
      <4> QED BY <3>2, <4>1, ApVerbHead DEF ApPortRoutes
    <3>3. CASE r \in ApExecRoutes
      <4>1. CASE \E n \in ApNames : r = ApRoute("GET", <<"vms", n, "exec", "stream">>, "guest")
        BY <4>1, ApHeads DEF ApRoute
      <4> QED BY <3>3, <4>1, ApVerbHead DEF ApExecRoutes
    <3> QED BY <1>8, <3>1, <3>2, <3>3
  <2> QED BY <1>0, <2>1 DEF ApOpenPaths
<1>9. CASE r \in ApFileRoutes \cup ApShellRoutes \cup ApTunnelRoutes
  <2>1. H = "vms"
    BY <1>9, ApHeads DEF ApFileRoutes, ApShellRoutes, ApTunnelRoutes, ApPost, ApRoute
  <2> QED BY <1>0, <2>1 DEF ApOpenPaths
<1>10. CASE r \in ApProbeRoutes \cup ApLogRoutes
  <2>1. H = "vms"
    BY <1>10, ApVerbHead DEF ApProbeRoutes, ApLogRoutes
  <2> QED BY <1>0, <2>1 DEF ApOpenPaths
<1>11. CASE r \in ApSessionRoutes
  <2>1. H = "vms"
    <3>1. CASE \E n \in ApNames :
                 \/ r = ApGet(<<"vms", n, "sessions", "id">>)
                 \/ r = ApGet(<<"vms", n, "sessions", "id", "events">>)
                 \/ r = ApPost(<<"vms", n, "sessions", "id", "cancel">>, "guest")
                 \/ r = ApRoute("DELETE", <<"vms", n, "sessions", "id">>, "guest")
      BY <3>1, ApHeads DEF ApGet, ApPost, ApRoute
    <3> QED BY <1>11, <3>1, ApVerbHead DEF ApSessionRoutes
  <2> QED BY <1>0, <2>1 DEF ApOpenPaths
<1>12. CASE r \in ApFactoryRoutes
  <2>1. H \in {"jobs", "job-submissions"}
    <3>0. CASE r = ApGet(<<"job-submissions">>)
      <4>1. r.path = <<"job-submissions">>
        BY <3>0 DEF ApGet, ApRoute
      <4> QED BY <4>1, ApHeads
    <3>1. CASE r = ApPost(<<"jobs">>, "submit job")
      <4>1. r.path = <<"jobs">>
        BY <3>1 DEF ApPost, ApRoute
      <4> QED BY <4>1, ApHeads
    <3>2. CASE \E n \in ApNames :
                 \/ r = ApGet(<<"jobs", n>>) \/ r = ApDelete(<<"jobs", n>>)
                 \/ r = ApGet(<<"jobs", n, "artifacts", "0">>)
      BY <3>2, ApHeads DEF ApGet, ApDelete, ApRoute
    <3>3. CASE r \in ApViews("jobs", "events") \cup ApViews("jobs", "artifacts")
                     \cup ApActs("jobs", "cancel", "change")
      BY <3>3, ApVerbHead
    <3> QED BY <1>12, <3>0, <3>1, <3>2, <3>3 DEF ApFactoryRoutes
  <2> QED BY <1>0, <2>1 DEF ApOpenPaths
<1> QED
  BY <1>1, <1>2, <1>3, <1>4, <1>5, <1>6, <1>7, <1>8, <1>9, <1>10, <1>11, <1>12 DEF ApRoutes

\* A limited route has one of the limiter's keys.
LEMMA ApKindTypes ==
  ASSUME NEW r
  PROVE  ApKind(r) \in ApKinds \cup {"none"}
BY DEF ApKind, ApKinds

-----------------------------------------------------------------------------

\* A request, and what the layers have made sure of while it is open or done.
ApCallType ==
  [does : {r.does : r \in ApRoutes} \cup {"none"}, stage : {"idle", "open", "done"},
   factory : BOOLEAN, good : BOOLEAN, did : BOOLEAN, gone : BOOLEAN]
ApCallOK(call) ==
  /\ call \in ApCallType
  /\ call.did => call.does # "read"
  /\ (call.stage = "open" \/ call.did) /\ call.does # "read" /\ (apToken \/ call.factory)
       => apToken /\ call.good

ApInv ==
  /\ apNow \in Nat /\ apToken \in BOOLEAN
  /\ apEvents \in [ApKinds \X ApClients -> Seq(Nat)]
  /\ apPast \in [ApKinds \X ApClients -> Seq(Nat)]
  /\ apRetry \in [ApKinds \X ApClients -> Nat]
  /\ \A k \in ApKinds \X ApClients : ApKeyOK(apEvents[k], apPast[k], apRetry[k], apNow)
  /\ apCall \in [ApClients -> ApCallType]
  /\ \A c \in ApClients : ApCallOK(apCall[c])

\* No request is a sound one.
LEMMA ApNoCallOK == ApCallOK(ApNoCall)
BY DEF ApCallOK, ApNoCall, ApCallType

\* The daemon starts with the invariant.
LEMMA ApInitInv == ApInit => ApInv
<1> SUFFICES ASSUME ApInit PROVE ApInv
  OBVIOUS
<1>1. ASSUME NEW k \in ApKinds \X ApClients
      PROVE  ApKeyOK(<<>>, <<>>, 0, apNow)
  BY ApAssumption DEF ApInit, ApKeyOK
<1>2. ApNoCall \in ApCallType
  BY ApNoCallOK DEF ApCallOK
<1> QED BY <1>1, <1>2, ApNoCallOK, ApAssumption DEF ApInit, ApInv

\* A step that leaves the limiter and the clock alone.
LEMMA ApCallStep ==
  ASSUME ApInv, NEW c \in ApClients, NEW call, apCall' = [apCall EXCEPT ![c] = call],
         ApCallOK(call), UNCHANGED <<apToken, apNow, apEvents, apPast, apRetry>>
  PROVE  ApInv'
<1>1. call \in ApCallType
  BY DEF ApCallOK
<1>2. ASSUME NEW d \in ApClients PROVE ApCallOK(apCall[d])'
  BY <1>1 DEF ApInv, ApCallOK
<1> QED BY <1>1, <1>2 DEF ApInv

\* What passes the layers carries the token or only reads.
LEMMA ApOpenedOK ==
  ASSUME NEW r \in ApRoutes, NEW good \in BOOLEAN, apToken \in BOOLEAN, ApAuthorized(r, good)
  PROVE  ApCallOK(ApOpened(r, good))
<1>0. PICK f : f = ApIsFactory(r) /\ f \in BOOLEAN
  <2>1. CASE r \in ApFactoryRoutes
    <3>1. ApIsFactory(r) = TRUE
      BY <2>1 DEF ApIsFactory
    <3> QED BY <3>1
  <2>2. CASE r \notin ApFactoryRoutes
    <3>1. ApIsFactory(r) = FALSE
      BY <2>2 DEF ApIsFactory
    <3> QED BY <3>1
  <2> QED BY <2>1, <2>2
<1>1. PICK o : o = [does |-> r.does, stage |-> "open", factory |-> f, good |-> good,
                    did |-> FALSE, gone |-> FALSE]
  OBVIOUS
<1>1a. o = ApOpened(r, good)
  <2>1. ApNoCall = [does |-> "none", stage |-> "idle", factory |-> FALSE, good |-> FALSE,
                    did |-> FALSE, gone |-> FALSE]
    BY DEF ApNoCall
  <2>2. ApOpened(r, good) = [ApNoCall EXCEPT !.does = r.does, !.stage = "open",
                                             !.factory = f, !.good = good]
    BY <1>0, Zenon DEF ApOpened
  <2> QED BY <1>1, <2>1, <2>2
<1>2. /\ o \in ApCallType
      /\ o.does = r.does /\ o.stage = "open" /\ o.did = FALSE
      /\ o.factory = f /\ o.good = good
  <2>1. r.does \in {q.does : q \in ApRoutes} \cup {"none"}
    OBVIOUS
  <2>2. f \in BOOLEAN
    BY <1>0
  <2> QED BY <1>1, <2>1, <2>2 DEF ApCallType
<1>3. r.does # "read" => ~ApPublic(r)
  BY ApPublicReads
<1>4. ASSUME o.does # "read", apToken \/ o.factory PROVE apToken /\ o.good
  BY <1>0, <1>2, <1>3, <1>4, Zenon DEF ApAuthorized
<1> QED BY <1>1a, <1>2, <1>4, Zenon DEF ApCallOK

\* A request passes the layers in their order.
LEMMA ApRequestInv ==
  ASSUME ApInv, NEW c \in ApClients, NEW r \in ApRoutes, NEW good \in BOOLEAN,
         NEW sound \in BOOLEAN, ApRequest(c, r, good, sound)
  PROVE  ApInv'
<1> DEFINE k == <<ApKind(r), c>>
<1>1. PICK call : ApCallOK(call) /\ apCall' = [apCall EXCEPT ![c] = call]
  <2>1. CASE apCall' = [apCall EXCEPT ![c] = ApNoCall]
    BY <2>1, ApNoCallOK
  <2>2. CASE ApAuthorized(r, good) /\ apCall' = [apCall EXCEPT ![c] = ApOpened(r, good)]
    BY <2>2, ApOpenedOK DEF ApInv
  <2> QED BY <2>1, <2>2 DEF ApRequest
<1>2. UNCHANGED <<apToken, apNow>>
  BY DEF ApRequest
<1>3. CASE ApKind(r) = "none"
  BY <1>1, <1>2, <1>3, ApCallStep DEF ApRequest
<1>4. CASE ApKind(r) # "none"
  <2>1. k \in ApKinds \X ApClients
    BY <1>4, ApKindTypes
  <2>2. PICK e, p, t : /\ apEvents' = [apEvents EXCEPT ![k] = e]
                       /\ apPast' = [apPast EXCEPT ![k] = p]
                       /\ apRetry' = [apRetry EXCEPT ![k] = t]
                       /\ ApKeyOK(e, p, t, apNow)
    <3>1. apNow \in Nat /\ ApKeyOK(apEvents[k], apPast[k], apRetry[k], apNow)
      BY <2>1 DEF ApInv
    <3>2. apEvents' = [apEvents EXCEPT ![k] = ApCharged(apEvents[k], apNow)]
      BY <1>4, <2>1 DEF ApRequest, ApInv
    <3>3. CASE ApLimited(apEvents[k], apNow)
      <4>1. ApKeyOK(ApCharged(apEvents[k], apNow), apPast[k], ApRetryAt(apEvents[k], apNow), apNow)
        BY <3>1, <3>3, ApKeyRefused
      <4>2. apPast' = [apPast EXCEPT ![k] = apPast[k]]
        BY <1>4, <2>1, <3>3 DEF ApRequest, ApInv
      <4>3. apRetry' = [apRetry EXCEPT ![k] = ApRetryAt(apEvents[k], apNow)]
        BY <1>4, <3>3 DEF ApRequest
      <4> QED BY <3>2, <4>1, <4>2, <4>3
    <3>4. CASE ~ApLimited(apEvents[k], apNow)
      <4>1. ApKeyOK(ApCharged(apEvents[k], apNow), Append(apPast[k], apNow), 0, apNow)
        BY <3>1, <3>4, ApKeyAdmitted
      <4>2. apPast' = [apPast EXCEPT ![k] = Append(apPast[k], apNow)]
        BY <1>4, <2>1, <3>4 DEF ApRequest, ApInv
      <4>3. apRetry' = [apRetry EXCEPT ![k] = 0]
        BY <1>4, <3>4 DEF ApRequest
      <4> QED BY <3>2, <4>1, <4>2, <4>3
    <3> QED BY <3>3, <3>4
  <2> HIDE DEF k
  <2>3. e \in Seq(Nat) /\ p \in Seq(Nat) /\ t \in Nat
    BY <2>2 DEF ApKeyOK
  <2>4. /\ apEvents' \in [ApKinds \X ApClients -> Seq(Nat)]
        /\ apPast' \in [ApKinds \X ApClients -> Seq(Nat)]
        /\ apRetry' \in [ApKinds \X ApClients -> Nat]
    BY <2>2, <2>3 DEF ApInv
  <2>5. ASSUME NEW l \in ApKinds \X ApClients
        PROVE  ApKeyOK(apEvents'[l], apPast'[l], apRetry'[l], apNow')
    <3>1. CASE l = k
      <4>1. apEvents'[l] = e /\ apPast'[l] = p /\ apRetry'[l] = t
        BY <2>1, <2>2, <3>1 DEF ApInv
      <4> QED BY <1>2, <2>2, <4>1
    <3>2. CASE l # k
      <4>1. apEvents'[l] = apEvents[l] /\ apPast'[l] = apPast[l] /\ apRetry'[l] = apRetry[l]
        BY <2>2, <3>2 DEF ApInv
      <4> QED BY <1>2, <4>1 DEF ApInv
    <3> QED BY <3>1, <3>2
  <2>6. apCall' \in [ApClients -> ApCallType] /\ \A d \in ApClients : ApCallOK(apCall[d])'
    <3>1. call \in ApCallType
      BY <1>1 DEF ApCallOK
    <3> QED BY <1>1, <1>2, <3>1 DEF ApInv, ApCallOK
  <2> QED BY <1>2, <2>4, <2>5, <2>6 DEF ApInv
<1> QED BY <1>3, <1>4

\* Every step of the surface keeps the invariant.
LEMMA ApNextInv ==
  ASSUME ApInv, [ApNext]_apVars
  PROVE  ApInv'
<1>1. ASSUME NEW c \in ApClients, NEW ok \in BOOLEAN, ApHandled(c, ok) PROVE ApInv'
  <2>0. ApCallOK(apCall[c]) /\ apCall[c] \in ApCallType
    BY DEF ApInv
  <2>1. CASE apCall' = [apCall EXCEPT ![c] = ApNoCall]
    BY <1>1, <2>1, ApNoCallOK, ApCallStep DEF ApHandled
  <2>2. CASE apCall[c].does # "read"
             /\ apCall' = [apCall EXCEPT ![c] = [apCall[c] EXCEPT !.stage = "done", !.did = TRUE]]
    <3>1. PICK call : call = [apCall[c] EXCEPT !.stage = "done", !.did = TRUE]
      OBVIOUS
    <3>2. /\ call \in ApCallType /\ call.does = apCall[c].does
          /\ call.factory = apCall[c].factory /\ call.good = apCall[c].good
      BY <2>0, <3>1 DEF ApCallType
    <3>3. ApCallOK(call)
      BY <1>1, <2>0, <2>2, <3>2, Zenon DEF ApCallOK, ApHandled
    <3> QED BY <1>1, <2>2, <3>1, <3>3, ApCallStep DEF ApHandled
  <2> QED BY <1>1, <2>1, <2>2 DEF ApHandled, ApInv
<1>2. ASSUME NEW c \in ApClients, ApLeaves(c) PROVE ApInv'
  <2>0. ApCallOK(apCall[c]) /\ apCall[c] \in ApCallType
    BY DEF ApInv
  <2>1. CASE apCall' = [apCall EXCEPT ![c] = ApNoCall]
    BY <1>2, <2>1, ApNoCallOK, ApCallStep DEF ApLeaves
  <2>2. CASE apCall' = [apCall EXCEPT ![c] = [apCall[c] EXCEPT !.gone = TRUE]]
    <3>1. PICK call : call = [apCall[c] EXCEPT !.gone = TRUE]
      OBVIOUS
    <3>2. /\ call \in ApCallType /\ call.does = apCall[c].does /\ call.stage = apCall[c].stage
          /\ call.did = apCall[c].did
          /\ call.factory = apCall[c].factory /\ call.good = apCall[c].good
      BY <2>0, <3>1 DEF ApCallType
    <3>3. ApCallOK(call)
      BY <2>0, <3>2, Zenon DEF ApCallOK
    <3> QED BY <1>2, <2>2, <3>1, <3>3, ApCallStep DEF ApLeaves
  <2> QED BY <1>2, <2>1, <2>2 DEF ApLeaves, ApInv
<1>3. CASE ApTick
  <2>1. ASSUME NEW k \in ApKinds \X ApClients
        PROVE  ApKeyOK(apEvents[k], apPast[k], apRetry[k], apNow + 1)
    BY ApKeyLater DEF ApInv
  <2>2. \A c \in ApClients : ApCallOK(apCall[c])'
    BY <1>3 DEF ApTick, ApInv, ApCallOK
  <2> QED BY <1>3, <2>1, <2>2 DEF ApTick, ApInv
<1>4. CASE UNCHANGED <<apToken, apNow, apEvents, apPast, apRetry, apCall>>
  BY <1>4 DEF ApInv, ApCallOK
<1> QED BY <1>1, <1>2, <1>3, <1>4, ApRequestInv DEF ApNext, ApSignal, ApServed, apVars

\* The invariant says that the limiter keeps its word and that nothing happens
\* for a caller the layers refuse.
LEMMA ApInvSound == ApInv => ApSound
<1> SUFFICES ASSUME ApInv PROVE ApSound
  OBVIOUS
<1>1. ApWindowHolds
  BY ApKeyFreed DEF ApInv, ApWindowHolds, ApKeyOK
<1>2. ApOnlyAuthorized
  <2> SUFFICES ASSUME NEW c \in ApClients, apCall[c].did, apToken \/ apCall[c].factory
               PROVE  apToken /\ apCall[c].good
    BY DEF ApOnlyAuthorized
  <2> QED BY Zenon DEF ApInv, ApCallOK
<1> QED BY <1>1, <1>2 DEF ApSound

-----------------------------------------------------------------------------
(* ApiSessions. *)

MonSessions == Nat \X Nat \X {"running", "finished"}
MonTaskType == [stage : {"idle", "connect", "start", "register"}, gen : Nat, at : Nat, id : Nat]
MonWatchType == [key : Nat \X Nat, gen : Nat, guard : BOOLEAN, fails : Nat, task : MonTasks]

\* Somebody looks after the command, is about to, or has lost it.
MonCovered(g, i) ==
  \/ \E w \in monWatch : w.key = <<g, i>>
  \/ \E t \in MonTasks : monTask[t].stage = "register" /\ monTask[t].at = g /\ monTask[t].id = i
  \/ <<g, i>> \in monLost

MonTypeOK ==
  /\ monVm \in [gen : Nat, state : {"running", "suspended", "paused", "stopped"}] /\ monVm.gen # 0
  /\ monGuest \subseteq MonSessions
  /\ monTask \in [MonTasks -> MonTaskType]
  /\ monKeys \subseteq Nat \X Nat /\ monLost \subseteq Nat \X Nat
  /\ monWatch \subseteq MonWatchType
  /\ monCount \in [starts : Nat, pauses : Nat, ids : Nat]

\* The guests' sessions are of the VM that the name stands for, a stopped VM
\* has none, and a submission that has started one reached the VM it was for.
MonPlace ==
  /\ \A s \in monGuest : s[1] = monVm.gen
  /\ monVm.state = "stopped" => monGuest = {}
  /\ \A t \in MonTasks : monTask[t].stage \in {"start", "register"} => monTask[t].at = monTask[t].gen

\* A key is registered for exactly one monitor; one that watches another
\* generation than that of its key is counted as lost.
MonRegistered ==
  /\ \A w \in monWatch : w.key \in monKeys /\ (w.gen # w.key[1] => w.key \in monLost)
  /\ \A k \in monKeys : \E w \in monWatch : w.key = k
  /\ \A v, w \in monWatch : v.key = w.key => v = w

MonWatched == \A g, i \in Nat : MonIsRunning(g, i) => MonCovered(g, i)

MonInv == MonTypeOK /\ MonPlace /\ MonRegistered /\ MonWatched

\* The invariant says that a detached command is watched exactly once.
LEMMA MonInvSound == MonInv => MonSound
<1> SUFFICES ASSUME MonInv PROVE MonSound
  OBVIOUS
<1>1. ASSUME NEW s \in monGuest, s[3] = "running" PROVE MonCovered(s[1], s[2])
  <2>1. s = <<s[1], s[2], "running">> /\ s[1] \in Nat /\ s[2] \in Nat
    BY <1>1 DEF MonInv, MonTypeOK, MonSessions
  <2>2. MonIsRunning(s[1], s[2])
    BY <2>1 DEF MonIsRunning
  <2> QED BY <2>1, <2>2 DEF MonInv, MonWatched
<1> QED BY <1>1 DEF MonSound, MonInv, MonRegistered, MonCovered

\* The API starts with the invariant.
LEMMA MonInitInv == MonInit => MonInv
BY DEF MonInit, MonInv, MonTypeOK, MonPlace, MonRegistered, MonWatched, MonIsRunning, MonIdle,
   MonTaskType

\* A submission that moves on without having started a session, and without
\* having been about to register one, changes nobody's cover.
LEMMA MonGoesInv ==
  ASSUME MonInv, NEW t \in MonTasks, NEW task \in MonTaskType, MonGoes(t, task),
         monTask[t].stage # "register", task.stage # "register",
         task.stage = "start" => task.at = task.gen,
         monVm' \in [gen : Nat, state : {"running", "suspended", "paused", "stopped"}],
         monVm'.gen = monVm.gen, monVm'.state = "stopped" => monVm.state = "stopped",
         monCount' \in [starts : Nat, pauses : Nat, ids : Nat],
         UNCHANGED <<monGuest, monKeys, monWatch, monLost>>
  PROVE  MonInv'
<1>1. /\ monTask' \in [MonTasks -> MonTaskType] /\ monTask'[t] = task
      /\ \A u \in MonTasks \ {t} : monTask'[u] = monTask[u]
  BY DEF MonInv, MonTypeOK, MonGoes
<1>2. MonTypeOK'
  BY <1>1 DEF MonInv, MonTypeOK
<1>3. MonPlace'
  <2>1. \A u \in MonTasks : monTask'[u].stage \in {"start", "register"} => monTask'[u].at = monTask'[u].gen
    BY <1>1 DEF MonInv, MonPlace
  <2> QED BY <2>1 DEF MonInv, MonPlace
<1>4. MonRegistered'
  BY DEF MonInv, MonRegistered
<1>5. MonWatched'
  BY <1>1 DEF MonInv, MonWatched, MonCovered, MonIsRunning
<1> QED BY <1>2, <1>3, <1>4, <1>5 DEF MonInv

\* start_owned up to the guest's answer.
LEMMA MonBeginInv ==
  ASSUME MonInv, NEW t \in MonTasks, NEW b \in BOOLEAN, MonBegin(t, b) \/ MonConnect(t, b)
  PROVE  MonInv'
<1>0. /\ monVm \in [gen : Nat, state : {"running", "suspended", "paused", "stopped"}]
      /\ monCount \in [starts : Nat, pauses : Nat, ids : Nat] /\ monTask[t] \in MonTaskType
      /\ MonIdle \in MonTaskType /\ MonIdle.stage = "idle"
  BY DEF MonInv, MonTypeOK, MonIdle, MonTaskType
<1>1. CASE MonBegin(t, b)
  <2>1. PICK i : i = IF b THEN 0 ELSE monCount.ids
    OBVIOUS
  <2>2. i \in Nat
    BY <1>0, <2>1
  <2>3. PICK task : task = [stage |-> "connect", gen |-> monVm.gen, at |-> 0, id |-> i]
    OBVIOUS
  <2>4. task \in MonTaskType /\ task.stage = "connect"
    BY <1>0, <2>2, <2>3 DEF MonTaskType
  <2>5. MonGoes(t, task) /\ monTask[t].stage = "idle"
    BY <1>1, <2>1, <2>3 DEF MonBegin
  <2>6. monCount' \in [starts : Nat, pauses : Nat, ids : Nat]
    <3>1. PICK m, n : m = (IF b THEN monCount.ids ELSE monCount.ids + 1) /\ n = monCount.starts + 1
      OBVIOUS
    <3>2. m \in Nat /\ n \in Nat
      BY <1>0, <3>1
    <3>3. monCount' = [monCount EXCEPT !.starts = n, !.ids = m]
      BY <1>1, <3>1 DEF MonBegin
    <3> QED BY <1>0, <3>2, <3>3
  <2> QED BY <1>0, <1>1, <2>4, <2>5, <2>6, MonGoesInv DEF MonBegin
<1>2. CASE MonConnect(t, b)
  <2>0. monTask[t].stage = "connect" /\ UNCHANGED <<monGuest, monKeys, monWatch, monLost, monCount>>
    BY <1>2 DEF MonConnect
  <2>1. CASE b /\ monVm.gen # 0 /\ monVm.state \in {"running", "suspended"}
    <3>1. PICK task : task = IF monVm.gen = monTask[t].gen
                             THEN [monTask[t] EXCEPT !.stage = "start", !.at = monVm.gen] ELSE MonIdle
      OBVIOUS
    <3>2. MonGoes(t, task) /\ monVm' = [monVm EXCEPT !.state = "running"]
      BY <1>2, <2>1, <3>1 DEF MonConnect
    <3>3. /\ task \in MonTaskType /\ task.stage \in {"start", "idle"}
          /\ task.stage = "start" => task.at = task.gen
      BY <1>0, <3>1 DEF MonTaskType
    <3>4. /\ monVm' \in [gen : Nat, state : {"running", "suspended", "paused", "stopped"}]
          /\ monVm'.gen = monVm.gen /\ monVm'.state = "running"
      BY <1>0, <3>2
    <3> QED BY <1>0, <2>0, <3>2, <3>3, <3>4, MonGoesInv
  <2>2. CASE ~ (b /\ monVm.gen # 0 /\ monVm.state \in {"running", "suspended"})
    BY <1>0, <1>2, <2>0, <2>2, MonGoesInv DEF MonConnect
  <2> QED BY <2>1, <2>2
<1> QED BY <1>1, <1>2

\* session_start: the submission that started a session covers it, or is
\* counted as lost with its answer.
LEMMA MonStartInv ==
  ASSUME MonInv, NEW t \in MonTasks, NEW answered \in BOOLEAN, MonStart(t, answered)
  PROVE  MonInv'
<1>0. /\ monTask[t] \in MonTaskType /\ monTask[t].stage = "start" /\ monTask[t].at = monTask[t].gen
      /\ MonIdle \in MonTaskType /\ MonIdle.stage = "idle"
      /\ UNCHANGED <<monVm, monKeys, monWatch, monCount>>
  BY DEF MonInv, MonTypeOK, MonIdle, MonTaskType, MonStart, MonPlace
<1>1. CASE MonGoes(t, MonIdle) /\ UNCHANGED <<monGuest, monLost>>
  BY <1>0, <1>1, MonGoesInv DEF MonInv, MonTypeOK
<1>2. ASSUME NEW task \in MonTaskType, MonGoes(t, task), monTask[t].at = monVm.gen,
             monVm.state = "running",
             monGuest' \subseteq monGuest \cup {<<monTask[t].at, monTask[t].id, "running">>},
             \/ task = [monTask[t] EXCEPT !.stage = "register"] /\ monLost' = monLost
             \/ /\ task = MonIdle
                /\ monLost' = monLost \cup {<<monTask[t].at, monTask[t].id>>}
      PROVE  MonInv'
  <2>2. \/ /\ task.stage = "register" /\ task.at = monTask[t].at
           /\ task.id = monTask[t].id /\ task.gen = monTask[t].gen
        \/ task.stage = "idle" /\ <<monTask[t].at, monTask[t].id>> \in monLost'
    BY <1>0, <1>2 DEF MonTaskType
  <2>3. /\ monTask' \in [MonTasks -> MonTaskType] /\ monTask'[t] = task
        /\ \A u \in MonTasks \ {t} : monTask'[u] = monTask[u]
    BY <1>2 DEF MonInv, MonTypeOK, MonGoes
  <2>4. PICK g, i : g = monTask[t].at /\ i = monTask[t].id
    OBVIOUS
  <2>5. g \in Nat /\ i \in Nat
    BY <1>0, <2>4 DEF MonTaskType
  <2>6. monGuest' \subseteq monGuest \cup {<<g, i, "running">>}
    BY <1>2, <2>4
  <2>7. MonTypeOK'
    <3>1. <<g, i, "running">> \in MonSessions
      BY <2>5 DEF MonSessions
    <3>2. monLost' \subseteq Nat \X Nat
      BY <1>2, <2>4, <2>5 DEF MonInv, MonTypeOK
    <3> QED BY <1>0, <2>3, <2>6, <3>1, <3>2 DEF MonInv, MonTypeOK
  <2>8. MonPlace'
    <3>1. \A s \in monGuest' : s[1] = monVm.gen
      BY <1>2, <2>4, <2>6 DEF MonInv, MonPlace
    <3>2. \A u \in MonTasks : monTask'[u].stage \in {"start", "register"} => monTask'[u].at = monTask'[u].gen
      BY <1>0, <2>2, <2>3 DEF MonInv, MonPlace
    <3> QED BY <1>0, <1>2, <3>1, <3>2 DEF MonInv, MonPlace
  <2>9. MonRegistered'
    BY <1>0, <1>2 DEF MonInv, MonRegistered
  <2>10. MonWatched'
    <3> SUFFICES ASSUME NEW h \in Nat, NEW j \in Nat, MonIsRunning(h, j)' PROVE MonCovered(h, j)'
      BY DEF MonWatched
    <3>1. CASE h = g /\ j = i
      BY <2>2, <2>3, <2>4, <3>1 DEF MonCovered
    <3>2. CASE ~ (h = g /\ j = i)
      <4>1. MonIsRunning(h, j)
        BY <2>6, <3>2 DEF MonIsRunning
      <4>2. MonCovered(h, j)
        BY <4>1 DEF MonInv, MonWatched
      <4>3. monLost \subseteq monLost'
        BY <1>2
      <4> QED BY <1>0, <2>2, <2>3, <4>2, <4>3 DEF MonCovered
    <3> QED BY <3>1, <3>2
  <2> QED BY <2>7, <2>8, <2>9, <2>10 DEF MonInv
<1>3. CASE monTask[t].at = monVm.gen /\ monVm.state = "running" /\ ~ UNCHANGED <<monGuest, monLost>>
  <2>1. CASE answered
    <3>1. PICK task : task = [monTask[t] EXCEPT !.stage = "register"]
      OBVIOUS
    <3>2. task \in MonTaskType
      BY <1>0, <3>1 DEF MonTaskType
    <3>3. /\ MonGoes(t, task) /\ monLost' = monLost
          /\ monGuest' \subseteq monGuest \cup {<<monTask[t].at, monTask[t].id, "running">>}
      BY <1>3, <2>1, <3>1 DEF MonStart
    <3> QED BY <1>2, <1>3, <3>1, <3>2, <3>3
  <2>2. CASE ~ answered
    <3>1. /\ MonGoes(t, MonIdle) /\ monLost' = monLost \cup {<<monTask[t].at, monTask[t].id>>}
          /\ monGuest' \subseteq monGuest \cup {<<monTask[t].at, monTask[t].id, "running">>}
      BY <1>3, <2>2 DEF MonStart
    <3> QED BY <1>0, <1>2, <1>3, <3>1
  <2> QED BY <2>1, <2>2
<1>4. CASE /\ monTask[t].at = monVm.gen /\ monVm.state = "running" /\ UNCHANGED <<monGuest, monLost>>
           /\ MonGoes(t, [monTask[t] EXCEPT !.stage = "register"])
  <2>1. PICK task : task = [monTask[t] EXCEPT !.stage = "register"]
    OBVIOUS
  <2>2. task \in MonTaskType
    BY <1>0, <2>1 DEF MonTaskType
  <2> QED BY <1>2, <1>4, <2>1, <2>2
<1>5. \/ MonGoes(t, MonIdle) /\ UNCHANGED <<monGuest, monLost>>
      \/ monTask[t].at = monVm.gen /\ monVm.state = "running" /\ ~ UNCHANGED <<monGuest, monLost>>
      \/ /\ monTask[t].at = monVm.gen /\ monVm.state = "running" /\ UNCHANGED <<monGuest, monLost>>
         /\ MonGoes(t, [monTask[t] EXCEPT !.stage = "register"])
  BY DEF MonStart
<1> QED BY <1>1, <1>3, <1>4, <1>5

\* A submission hands its session over to one monitor.
LEMMA MonRegisterInv ==
  ASSUME MonInv, NEW t \in MonTasks, MonRegister(t)
  PROVE  MonInv'
<1>0. /\ monTask[t] \in MonTaskType /\ monTask[t].stage = "register" /\ monTask[t].at = monTask[t].gen
      /\ MonIdle \in MonTaskType /\ MonIdle.stage = "idle" /\ MonGoes(t, MonIdle)
      /\ UNCHANGED <<monVm, monGuest, monCount>>
  BY DEF MonInv, MonTypeOK, MonIdle, MonTaskType, MonRegister, MonPlace
<1>1. /\ monTask' \in [MonTasks -> MonTaskType] /\ monTask'[t] = MonIdle
      /\ \A u \in MonTasks \ {t} : monTask'[u] = monTask[u]
  BY <1>0 DEF MonInv, MonTypeOK, MonGoes
<1>2. PICK g, i : g = monTask[t].gen /\ i = monTask[t].id
  OBVIOUS
<1>3. g \in Nat /\ i \in Nat /\ monTask[t].at = g
  BY <1>0, <1>2 DEF MonTaskType
<1>4. MonPlace'
  <2>1. \A u \in MonTasks : monTask'[u].stage \in {"start", "register"} => monTask'[u].at = monTask'[u].gen
    BY <1>0, <1>1 DEF MonInv, MonPlace
  <2> QED BY <1>0, <2>1 DEF MonInv, MonPlace
<1>5. ASSUME \E w \in monWatch' : w.key = <<g, i>>,
             monWatch \subseteq monWatch', monLost \ {<<g, i>>} \subseteq monLost'
      PROVE  MonWatched'
  <2> SUFFICES ASSUME NEW h \in Nat, NEW j \in Nat, MonIsRunning(h, j)' PROVE MonCovered(h, j)'
    BY DEF MonWatched
  <2>1. CASE <<h, j>> = <<g, i>>
    BY <1>5, <2>1 DEF MonCovered
  <2>2. CASE <<h, j>> # <<g, i>>
    <3>1. MonCovered(h, j)
      BY <1>0 DEF MonInv, MonWatched, MonIsRunning
    <3>2. ~ (h = g /\ j = i)
      BY <2>2
    <3> QED BY <1>1, <1>2, <1>3, <1>5, <2>2, <3>1, <3>2 DEF MonCovered
  <2> QED BY <2>1, <2>2
<1>6. CASE MonAlready(<<g, i>>) /\ UNCHANGED <<monKeys, monWatch, monLost>>
  <2>1. \E w \in monWatch' : w.key = <<g, i>>
    BY <1>6 DEF MonAlready, MonInv, MonRegistered
  <2>2. MonWatched'
    BY <1>5, <1>6, <2>1
  <2>3. MonTypeOK'
    BY <1>0, <1>1, <1>6 DEF MonInv, MonTypeOK
  <2>4. MonRegistered'
    BY <1>6 DEF MonInv, MonRegistered
  <2> QED BY <1>4, <2>2, <2>3, <2>4 DEF MonInv
<1>7. CASE ~MonAlready(<<g, i>>)
  <2>1. PICK w : w = [key |-> <<g, i>>, gen |-> monVm.gen, guard |-> TRUE, fails |-> 0, task |-> t]
    OBVIOUS
  <2>2. w \in MonWatchType /\ w.key = <<g, i>> /\ w.gen = monVm.gen /\ w.key[1] = g
    BY <1>3, <2>1 DEF MonWatchType, MonInv, MonTypeOK
  <2>3. /\ monKeys' = monKeys \cup {<<g, i>>} /\ monWatch' = monWatch \cup {w}
        /\ monLost' = IF monVm.gen = g THEN monLost \ {<<g, i>>} ELSE monLost \cup {<<g, i>>}
    BY <1>2, <1>7, <2>1 DEF MonRegister, MonInv, MonTypeOK
  <2>4. <<g, i>> \in Nat \X Nat
    BY <1>3
  <2>5. MonTypeOK'
    BY <1>0, <1>1, <2>2, <2>3, <2>4 DEF MonInv, MonTypeOK
  <2>6. \A v \in monWatch : v.key # <<g, i>>
    BY <1>7 DEF MonAlready, MonInv, MonRegistered
  <2>7. MonRegistered'
    <3>1. \A v \in monWatch' : v.key \in monKeys' /\ (v.gen # v.key[1] => v.key \in monLost')
      BY <2>2, <2>3, <2>6 DEF MonInv, MonRegistered
    <3>2. \A k \in monKeys' : \E v \in monWatch' : v.key = k
      BY <2>2, <2>3 DEF MonInv, MonRegistered
    <3>3. \A u, v \in monWatch' : u.key = v.key => u = v
      BY <2>2, <2>3, <2>6 DEF MonInv, MonRegistered
    <3> QED BY <3>1, <3>2, <3>3 DEF MonRegistered
  <2>8. MonWatched'
    BY <1>5, <2>2, <2>3
  <2> QED BY <1>4, <2>5, <2>7, <2>8 DEF MonInv
<1> QED BY <1>2, <1>6, <1>7 DEF MonRegister, MonInv, MonTypeOK

\* A turn of a monitor: it goes on, or it ends with nothing left to watch, or
\* the key is counted as lost.
LEMMA MonPollInv ==
  ASSUME MonInv, NEW w \in monWatch, NEW heard \in BOOLEAN, MonPoll(w, heard)
  PROVE  MonInv'
<1>0. UNCHANGED <<monVm, monGuest, monTask, monCount>> /\ w \in MonWatchType
      /\ w.key \in Nat \X Nat /\ w.gen \in Nat
  BY DEF MonPoll, MonInv, MonTypeOK, MonWatchType
<1>1. MonPlace'
  BY <1>0 DEF MonInv, MonPlace
<1>2. ASSUME NEW n \in MonWatchType, n.key = w.key, n.gen = w.gen, MonGoesOn(w, n)
      PROVE  MonInv'
  <2>1. monWatch' = (monWatch \ {w}) \cup {n} /\ UNCHANGED <<monKeys, monLost>>
    BY <1>2 DEF MonGoesOn
  <2>2. MonTypeOK'
    BY <1>0, <2>1 DEF MonInv, MonTypeOK
  <2>3. MonRegistered'
    <3>1. \A v \in monWatch' : v.key \in monKeys' /\ (v.gen # v.key[1] => v.key \in monLost')
      BY <1>2, <2>1 DEF MonInv, MonRegistered
    <3>2. \A k \in monKeys' : \E v \in monWatch' : v.key = k
      BY <1>2, <2>1 DEF MonInv, MonRegistered
    <3>3. \A u, v \in monWatch' : u.key = v.key => u = v
      BY <1>2, <2>1 DEF MonInv, MonRegistered
    <3> QED BY <3>1, <3>2, <3>3 DEF MonRegistered
  <2>4. \A g, i : MonCovered(g, i) => MonCovered(g, i)'
    BY <1>0, <1>2, <2>1 DEF MonCovered
  <2>5. MonWatched'
    BY <1>0, <2>4 DEF MonInv, MonWatched, MonIsRunning
  <2> QED BY <1>1, <2>2, <2>3, <2>5 DEF MonInv
<1>3. ASSUME NEW lost \in BOOLEAN, MonEnds(w, lost),
             lost \/ w.key \in monLost \/ ~MonIsRunning(w.key[1], w.key[2])
      PROVE  MonInv'
  <2>1. /\ monWatch' = monWatch \ {w} /\ monKeys' = monKeys \ {w.key}
        /\ monLost \subseteq monLost' /\ monLost' \subseteq monLost \cup {w.key}
        /\ lost => w.key \in monLost'
    BY <1>3 DEF MonEnds
  <2>2. MonTypeOK'
    BY <1>0, <2>1 DEF MonInv, MonTypeOK
  <2>3. MonRegistered'
    <3>1. \A v \in monWatch' : v.key \in monKeys' /\ (v.gen # v.key[1] => v.key \in monLost')
      BY <2>1 DEF MonInv, MonRegistered
    <3>2. \A k \in monKeys' : \E v \in monWatch' : v.key = k
      BY <2>1 DEF MonInv, MonRegistered
    <3>3. \A u, v \in monWatch' : u.key = v.key => u = v
      BY <2>1 DEF MonInv, MonRegistered
    <3> QED BY <3>1, <3>2, <3>3 DEF MonRegistered
  <2>4. MonWatched'
    <3> SUFFICES ASSUME NEW g \in Nat, NEW i \in Nat, MonIsRunning(g, i)' PROVE MonCovered(g, i)'
      BY DEF MonWatched
    <3>1. MonIsRunning(g, i) /\ MonCovered(g, i)
      BY <1>0 DEF MonInv, MonWatched, MonIsRunning
    <3>2. CASE w.key = <<g, i>>
      <4>1. w.key[1] = g /\ w.key[2] = i
        BY <3>2
      <4>2. w.key \in monLost'
        BY <1>3, <2>1, <3>1, <4>1
      <4> QED BY <3>2, <4>2 DEF MonCovered
    <3>3. CASE w.key # <<g, i>>
      BY <1>0, <2>1, <3>1, <3>3 DEF MonCovered
    <3> QED BY <3>2, <3>3
  <2> QED BY <1>1, <2>2, <2>3, <2>4 DEF MonInv
<1>4. CASE monVm.gen # w.gen
  <2>1. w.key \in monLost \/ ~MonIsRunning(w.key[1], w.key[2])
    <3> SUFFICES ASSUME MonIsRunning(w.key[1], w.key[2]) PROVE w.key \in monLost
      OBVIOUS
    <3>1. w.key[1] = monVm.gen
      BY DEF MonIsRunning, MonInv, MonPlace
    <3> QED BY <1>4, <3>1 DEF MonInv, MonRegistered
  <2> QED BY <1>3, <1>4, <2>1 DEF MonPoll
<1>5. CASE monVm.gen = w.gen /\ monVm.state = "suspended"
  <2>1. PICK n : n = [w EXCEPT !.guard = FALSE, !.fails = 0]
    OBVIOUS
  <2>2. n \in MonWatchType /\ n.key = w.key /\ n.gen = w.gen
    BY <1>0, <2>1 DEF MonWatchType
  <2> QED BY <1>2, <1>5, <2>1, <2>2 DEF MonPoll
<1>6. CASE monVm.gen = w.gen /\ monVm.state = "stopped"
  <2>1. ~MonIsRunning(w.key[1], w.key[2])
    BY <1>6 DEF MonIsRunning, MonInv, MonPlace
  <2> QED BY <1>3, <1>6, <2>1 DEF MonPoll
<1>9. CASE monVm.gen = w.gen /\ monVm.state = "paused"
  BY <1>3, <1>9 DEF MonPoll
<1>7. CASE monVm.gen = w.gen /\ monVm.state = "running" /\ heard
  <2>1. CASE MonIsRunning(w.gen, w.key[2])
    <3>1. PICK n : n = [w EXCEPT !.guard = TRUE, !.fails = 0]
      OBVIOUS
    <3>2. n \in MonWatchType /\ n.key = w.key /\ n.gen = w.gen
      BY <1>0, <3>1 DEF MonWatchType
    <3> QED BY <1>2, <1>7, <2>1, <3>1, <3>2 DEF MonPoll
  <2>2. CASE ~MonIsRunning(w.gen, w.key[2])
    <3>1. w.key \in monLost \/ ~MonIsRunning(w.key[1], w.key[2])
      BY <2>2 DEF MonInv, MonRegistered
    <3> QED BY <1>3, <1>7, <2>2, <3>1 DEF MonPoll
  <2> QED BY <2>1, <2>2
<1>8. CASE monVm.gen = w.gen /\ monVm.state = "running" /\ ~heard
  <2>1. CASE w.fails + 1 >= MonMaxFails
    BY <1>3, <1>8, <2>1 DEF MonPoll
  <2>2. CASE ~ (w.fails + 1 >= MonMaxFails)
    <3>1. PICK n : n = [w EXCEPT !.guard = TRUE, !.fails = @ + 1]
      OBVIOUS
    <3>2. n \in MonWatchType /\ n.key = w.key /\ n.gen = w.gen
      <4>1. PICK f : f = w.fails + 1
        OBVIOUS
      <4>2. f \in Nat /\ n = [w EXCEPT !.guard = TRUE, !.fails = f]
        BY <1>0, <3>1, <4>1 DEF MonWatchType
      <4> QED BY <1>0, <4>2 DEF MonWatchType
    <3> QED BY <1>2, <1>8, <2>2, <3>1, <3>2 DEF MonPoll
  <2> QED BY <2>1, <2>2
<1> QED BY <1>4, <1>5, <1>6, <1>7, <1>8, <1>9 DEF MonInv, MonTypeOK

\* The guest and the daemon's other operations leave no command unwatched.
LEMMA MonVmInv ==
  ASSUME MonInv,
         \/ \E s \in monGuest : MonFinish(s)
         \/ MonSuspend \/ MonPause \/ MonResume \/ MonReplace \/ MonStop
  PROVE  MonInv'
<1>0. UNCHANGED <<monTask, monKeys, monWatch, monLost>>
  BY DEF MonFinish, MonSuspend, MonPause, MonResume, MonReplace, MonStop
<1>1. \A g, i \in Nat : MonIsRunning(g, i)' => MonIsRunning(g, i)
  BY DEF MonIsRunning, MonFinish, MonSuspend, MonPause, MonResume, MonReplace, MonStop
<1>2. MonWatched'
  BY <1>0, <1>1 DEF MonInv, MonWatched, MonCovered
<1>3. MonRegistered'
  BY <1>0 DEF MonInv, MonRegistered
<1>4. /\ monVm' \in [gen : Nat, state : {"running", "suspended", "paused", "stopped"}] /\ monVm'.gen # 0
      /\ monCount' \in [starts : Nat, pauses : Nat, ids : Nat]
      /\ monGuest' \subseteq MonSessions
      /\ \A s \in monGuest' : s[1] = monVm'.gen
      /\ monVm'.state = "stopped" => monGuest' = {}
  <2>1. CASE \E s \in monGuest : MonFinish(s)
    <3>1. PICK s \in monGuest : MonFinish(s)
      BY <2>1
    <3>2. <<s[1], s[2], "finished">> \in MonSessions /\ monVm.state = "running"
      BY <3>1 DEF MonFinish, MonInv, MonTypeOK, MonSessions
    <3> QED BY <3>1, <3>2 DEF MonFinish, MonInv, MonTypeOK, MonPlace
  <2>2. CASE MonSuspend \/ MonPause \/ MonResume
    BY <2>2 DEF MonSuspend, MonPause, MonResume, MonInv, MonTypeOK, MonPlace
  <2>3. CASE MonReplace
    BY <2>3 DEF MonReplace, MonInv, MonTypeOK
  <2>4. CASE MonStop
    BY <2>4 DEF MonStop, MonInv, MonTypeOK
  <2> QED BY <2>1, <2>2, <2>3, <2>4
<1>5. MonTypeOK' /\ MonPlace'
  BY <1>0, <1>4 DEF MonInv, MonTypeOK, MonPlace
<1> QED BY <1>2, <1>3, <1>5 DEF MonInv

\* Every step keeps the invariant.
LEMMA MonNextInv ==
  ASSUME MonInv, [MonNext]_monVars
  PROVE  MonInv'
<1>1. CASE UNCHANGED monVars
  BY <1>1 DEF monVars, MonInv, MonTypeOK, MonPlace, MonRegistered, MonWatched, MonCovered,
      MonIsRunning
<1> QED
  BY <1>1, MonBeginInv, MonStartInv, MonRegisterInv, MonPollInv, MonVmInv DEF MonNext

-----------------------------------------------------------------------------
(* ApiStreams. *)

StmFrames == {"started", "data", "exit", "error", "close", "lost"}

\* Where the session's task is, or is heading once its send is done.
StmAt == IF stmStage = "sending" THEN stmThen ELSE stmStage
StmEarly == {"first", "policy", "connect", "launch"}
StmLive == StmEarly \cup {"relay"}

\* What the client has or will receive, and behind it all that the guest's
\* output still passes through.
StmSeen == stmGot \o stmSent
StmBehind(seen, piped, out) == (seen \o piped) \o out
StmLine == StmBehind(StmSeen, stmPiped, stmOut)

StmTo(seq, i, frame) == Cardinality({j \in 1..i : seq[j] = frame})

StmTypeOK ==
  /\ stmKind \in {"exec", "shell", "tunnel", "read"}
  /\ stmStage \in StmLive \cup {"sending", "close", "failed", "done", "refused"}
  /\ stmStage = "sending" => stmThen \in {"relay", "close", "failed", "done"}
  /\ stmKind = "tunnel" => stmStage \in {"first", "relay", "done", "refused"}
  /\ stmOld => stmKind = "exec"
  /\ stmGuest \in {"idle", "running", "exited", "lost"}
  /\ stmMade \in Nat
  /\ stmOut \in Seq(StmFrames) /\ stmPiped \in Seq(StmFrames)
  /\ stmSent \in Seq(StmFrames) /\ stmGot \in Seq(StmFrames)

\* The connection to the guest is broken, or an interrupted read of the shell
\* put its stream out of step: the rest of the output will not be relayed.
StmBroken ==
  /\ stmOut # <<>> /\ stmOut[1] = "lost"
  /\ stmKind # "shell" => stmOut = <<"lost">> /\ stmGuest = "lost"

\* Every frame of output is on the line, in front of the exit.
StmPlain ==
  /\ \A i \in DOMAIN stmOut : /\ stmOut[i] \in {"data", "exit"}
                              /\ stmOut[i] = "exit" => i = Len(stmOut) /\ stmGuest = "exited"
  /\ stmGuest # "lost" /\ StmCount(StmLine, "data") = stmMade

StmFlow ==
  StmAt \in StmLive =>
    (\A i \in DOMAIN StmSeen : StmSeen[i] # "exit") /\ (StmBroken \/ StmPlain)

\* The tunnel's pumps: the close is the last frame, behind all the output.
StmPipe ==
  /\ \A i \in DOMAIN stmPiped :
       /\ stmPiped[i] \in {"data", "close"}
       /\ stmPiped[i] = "close" =>
            i = Len(stmPiped) /\ (stmGuest = "lost" \/ (stmGuest = "exited" /\ stmOut = <<>>))
  /\ stmKind # "tunnel" => stmPiped = <<>>

\* A guest that nobody started yet has written nothing.
StmIdle ==
  /\ StmAt = "relay" => stmGuest # "idle"
  /\ StmAt \in StmEarly => stmGuest = "idle"
  /\ stmGuest = "idle" => stmMade = 0 /\ stmOut = <<>>

\* An exit that went out is behind all of the output, and the last of it.
StmExits ==
  \A i \in DOMAIN StmSeen : StmSeen[i] = "exit" =>
    stmGuest \in {"exited", "lost"} /\ StmTo(StmSeen, i, "data") = stmMade

StmHears == (\E i \in DOMAIN StmSeen : StmSeen[i] \in {"exit", "error"}) \/ StmUntold

\* How a session ends for a client that is still there.
StmEnds ==
  stmClient = "up" =>
    /\ stmKind \in {"exec", "shell"} /\ StmAt \in {"close", "failed", "done"} => StmHears
    /\ stmKind = "exec" /\ StmAt = "done" => StmSeen # <<>> /\ StmSeen[Len(StmSeen)] = "close"
    /\ stmKind = "tunnel" /\ StmAt = "done" =>
         stmGuest = "lost" \/ (stmGuest = "exited" /\ StmCount(StmSeen, "data") = stmMade)

StmInv ==
  /\ StmTypeOK /\ StmFlow /\ StmPipe /\ StmIdle /\ StmExits /\ StmEnds /\ StmReadWhole

\* One frame more at the end.
LEMMA StmAppend ==
  ASSUME NEW s \in Seq(StmFrames), NEW x \in StmFrames
  PROVE  /\ Append(s, x) \in Seq(StmFrames) /\ Len(Append(s, x)) = Len(s) + 1 /\ Len(s) \in Nat
         /\ DOMAIN s = 1..Len(s) /\ DOMAIN Append(s, x) = 1..(Len(s) + 1)
         /\ \A i \in 1..Len(s) : Append(s, x)[i] = s[i]
         /\ Append(s, x)[Len(s) + 1] = x
<1>1. Append(s, x) \in Seq(StmFrames) /\ Len(Append(s, x)) = Len(s) + 1
  BY AppendProperties
<1> QED BY <1>1, AppendProperties, LenProperties

\* Two runs of frames, one behind the other.
LEMMA StmJoin ==
  ASSUME NEW s \in Seq(StmFrames), NEW t \in Seq(StmFrames)
  PROVE  /\ s \o t \in Seq(StmFrames) /\ Len(s \o t) = Len(s) + Len(t)
         /\ Len(s) \in Nat /\ Len(t) \in Nat
         /\ DOMAIN s = 1..Len(s) /\ DOMAIN t = 1..Len(t) /\ DOMAIN (s \o t) = 1..(Len(s) + Len(t))
         /\ \A i \in 1..Len(s) : (s \o t)[i] = s[i]
         /\ \A i \in 1..Len(t) : (s \o t)[Len(s) + i] = t[i]
<1>1. s \o t \in Seq(StmFrames) /\ Len(s \o t) = Len(s) + Len(t)
  BY ConcatProperties
<1>2. Len(s) \in Nat /\ Len(t) \in Nat
  BY LenProperties
<1>3. /\ \A i \in 1..Len(s) : (s \o t)[i] = s[i]
      /\ \A i \in 1..Len(t) : (s \o t)[Len(s) + i] = t[i]
  BY <1>2, ConcatProperties
<1> QED BY <1>1, <1>2, <1>3, LenProperties

\* The frame at the front, and the ones behind it.
LEMMA StmFront ==
  ASSUME NEW t \in Seq(StmFrames), t # <<>>
  PROVE  /\ Head(t) \in StmFrames /\ Head(t) = t[1] /\ Tail(t) \in Seq(StmFrames)
         /\ Len(t) \in Nat \ {0} /\ Len(Tail(t)) = Len(t) - 1
         /\ DOMAIN t = 1..Len(t) /\ DOMAIN Tail(t) = 1..(Len(t) - 1)
         /\ \A i \in 1..(Len(t) - 1) : Tail(t)[i] = t[i + 1]
<1>1. /\ Head(t) \in StmFrames /\ Tail(t) \in Seq(StmFrames) /\ Len(Tail(t)) = Len(t) - 1
      /\ \A i \in 1..Len(Tail(t)) : Tail(t)[i] = t[i + 1]
  BY HeadTailProperties
<1>2. Head(t) = t[1]
  OBVIOUS
<1> QED BY <1>1, <1>2, EmptySeq, LenProperties

\* A frame that moves from the front of one run to the end of the other leaves
\* the two together as they were; one that joins the second joins both.
LEMMA StmMovesOn ==
  /\ \A s, t \in Seq(StmFrames) : t # <<>> => Append(s, Head(t)) \o Tail(t) = s \o t
  /\ \A s, t \in Seq(StmFrames), x \in StmFrames : s \o Append(t, x) = Append(s \o t, x)
<1>1. ASSUME NEW s \in Seq(StmFrames), NEW t \in Seq(StmFrames), t # <<>>
      PROVE  Append(s, Head(t)) \o Tail(t) = s \o t
  <2>1. PICK a, b : a = Append(s, Head(t)) /\ b = Tail(t)
    OBVIOUS
  <2>2. /\ Head(t) \in StmFrames /\ Head(t) = t[1] /\ b \in Seq(StmFrames) /\ Len(t) \in Nat \ {0}
        /\ Len(b) = Len(t) - 1 /\ \A i \in 1..(Len(t) - 1) : b[i] = t[i + 1]
    BY <1>1, <2>1, StmFront
  <2>3. /\ a \in Seq(StmFrames) /\ Len(a) = Len(s) + 1 /\ Len(s) \in Nat
        /\ (\A i \in 1..Len(s) : a[i] = s[i]) /\ a[Len(s) + 1] = t[1]
    BY <2>1, <2>2, StmAppend
  <2>4. /\ a \o b \in Seq(StmFrames) /\ s \o t \in Seq(StmFrames)
        /\ Len(a \o b) = Len(s \o t) /\ Len(s \o t) = Len(s) + Len(t)
    <3>1. a \o b \in Seq(StmFrames) /\ Len(a \o b) = Len(a) + Len(b)
      BY <2>2, <2>3, StmJoin
    <3>2. s \o t \in Seq(StmFrames) /\ Len(s \o t) = Len(s) + Len(t)
      BY StmJoin
    <3> QED BY <2>2, <2>3, <3>1, <3>2
  <2>5. ASSUME NEW i \in 1..Len(a \o b) PROVE (a \o b)[i] = (s \o t)[i]
    <3>1. i \in Nat /\ i >= 1 /\ i <= Len(s) + Len(t)
      BY <2>2, <2>3, <2>4
    <3>2. CASE i <= Len(s)
      BY <2>2, <2>3, <3>1, <3>2, StmJoin
    <3>3. CASE i = Len(s) + 1
      <4>1. (a \o b)[i] = t[1]
        BY <2>2, <2>3, <3>3, StmJoin
      <4>2. (s \o t)[Len(s) + 1] = t[1]
        BY <2>2, <2>3, StmJoin
      <4> QED BY <3>3, <4>1, <4>2
    <3>4. CASE i > Len(s) + 1
      <4>1. PICK k \in 1..(Len(t) - 1) : i = Len(s) + 1 + k
        <5>1. i - Len(s) - 1 \in 1..(Len(t) - 1) /\ i = Len(s) + 1 + (i - Len(s) - 1)
          BY <2>2, <2>3, <3>1, <3>4
        <5> QED BY <5>1
      <4>2. (a \o b)[Len(a) + k] = b[k]
        BY <2>2, <2>3, <4>1, StmJoin
      <4>3. (s \o t)[Len(s) + (k + 1)] = t[k + 1]
        <5>1. k + 1 \in 1..Len(t)
          BY <2>2, <4>1
        <5> QED BY <5>1, StmJoin
      <4>4. Len(a) + k = i /\ Len(s) + (k + 1) = i /\ b[k] = t[k + 1]
        BY <2>2, <2>3, <4>1
      <4> QED BY <4>2, <4>3, <4>4
    <3> QED BY <2>3, <3>1, <3>2, <3>3, <3>4
  <2>6. a \o b = s \o t
    BY <2>4, <2>5, SeqEqual
  <2> QED BY <2>1, <2>6
<1>2. ASSUME NEW s \in Seq(StmFrames), NEW t \in Seq(StmFrames), NEW x \in StmFrames
      PROVE  s \o Append(t, x) = Append(s \o t, x)
  <2>1. <<x>> \in Seq(StmFrames) /\ s \o t \in Seq(StmFrames)
    BY StmJoin
  <2>2. Append(t, x) = t \o <<x>> /\ Append(s \o t, x) = (s \o t) \o <<x>>
    BY <2>1, AppendIsConcat
  <2>3. (s \o t) \o <<x>> = s \o (t \o <<x>>)
    BY <2>1, ConcatAssociative
  <2> QED BY <2>2, <2>3
<1> QED BY <1>1, <1>2

\* The frames of a kind up to a place are a finite set.
LEMMA StmFinite ==
  ASSUME NEW s, NEW n \in Nat, NEW f
  PROVE  IsFiniteSet({j \in 1..n : s[j] = f}) /\ StmTo(s, n, f) \in Nat
<1>1. IsFiniteSet(1..n)
  BY FS_Interval
<1>2. IsFiniteSet({j \in 1..n : s[j] = f})
  BY <1>1, FS_Subset
<1> QED BY <1>2, FS_CardinalityType DEF StmTo

\* Counting up to a place only looks that far.
LEMMA StmToSame ==
  ASSUME NEW s, NEW t, NEW n \in Nat, NEW f, \A j \in 1..n : s[j] = t[j]
  PROVE  StmTo(s, n, f) = StmTo(t, n, f)
<1>1. {j \in 1..n : s[j] = f} = {j \in 1..n : t[j] = f}
  OBVIOUS
<1> QED BY <1>1 DEF StmTo

\* A whole run is counted up to its end.
LEMMA StmCountTo ==
  ASSUME NEW s \in Seq(StmFrames), NEW f
  PROVE  StmCount(s, f) = StmTo(s, Len(s), f) /\ StmCount(s, f) \in Nat
<1>1. DOMAIN s = 1..Len(s) /\ Len(s) \in Nat
  BY LenProperties
<1>2. StmCount(s, f) = StmTo(s, Len(s), f)
  BY <1>1 DEF StmCount, StmTo
<1> QED BY <1>1, <1>2, StmFinite

\* One frame more counts for its own kind and for no other.
LEMMA StmCountAppend ==
  ASSUME NEW s \in Seq(StmFrames), NEW x \in StmFrames, NEW f \in StmFrames
  PROVE  /\ x = f => StmCount(Append(s, x), f) = StmCount(s, f) + 1
         /\ x # f => StmCount(Append(s, x), f) = StmCount(s, f)
<1>1. PICK a, n : a = Append(s, x) /\ n = Len(s)
  OBVIOUS
<1>2. /\ a \in Seq(StmFrames) /\ Len(a) = n + 1 /\ n \in Nat
      /\ \A i \in 1..n : a[i] = s[i]
      /\ a[n + 1] = x
  BY <1>1, StmAppend
<1>3. PICK B : B = {j \in 1..n : s[j] = f}
  OBVIOUS
<1>4. IsFiniteSet(B) /\ n + 1 \notin B /\ Cardinality(B) = StmCount(s, f)
  <2>1. IsFiniteSet({j \in 1..n : s[j] = f})
    BY <1>2, StmFinite
  <2>2. Cardinality({j \in 1..n : s[j] = f}) = StmCount(s, f)
    BY <1>1, StmCountTo DEF StmTo
  <2> QED BY <1>2, <1>3, <2>1, <2>2
<1>5. StmCount(a, f) = Cardinality({j \in 1..(n + 1) : a[j] = f})
  BY <1>2, StmCountTo DEF StmTo
<1>6. CASE x = f
  <2>1. {j \in 1..(n + 1) : a[j] = f} = B \cup {n + 1}
    BY <1>2, <1>3, <1>6
  <2> QED BY <1>1, <1>4, <1>5, <1>6, <2>1, FS_AddElement
<1>7. CASE x # f
  <2>1. {j \in 1..(n + 1) : a[j] = f} = B
    BY <1>2, <1>3, <1>7
  <2> QED BY <1>1, <1>4, <1>5, <1>7, <2>1
<1> QED BY <1>6, <1>7

\* The types of the runs of frames that the invariant speaks of.
LEMMA StmSeenType ==
  ASSUME StmTypeOK
  PROVE  /\ StmSeen \in Seq(StmFrames) /\ DOMAIN StmSeen = 1..Len(StmSeen) /\ Len(StmSeen) \in Nat
         /\ StmSeen \o stmPiped \in Seq(StmFrames) /\ StmLine \in Seq(StmFrames)
<1>1. /\ stmGot \in Seq(StmFrames) /\ stmSent \in Seq(StmFrames)
      /\ stmPiped \in Seq(StmFrames) /\ stmOut \in Seq(StmFrames)
  BY DEF StmTypeOK
<1>2. StmSeen \in Seq(StmFrames)
  BY <1>1, StmJoin DEF StmSeen
<1>3. StmSeen \o stmPiped \in Seq(StmFrames)
  BY <1>1, <1>2, StmJoin
<1>4. StmLine \in Seq(StmFrames)
  BY <1>1, <1>3, StmJoin DEF StmLine, StmBehind
<1> QED BY <1>2, <1>3, <1>4, LenProperties

\* ws.send puts a frame behind what the client sees.
LEMMA StmSendsFacts ==
  ASSUME StmTypeOK, NEW f \in StmFrames, NEW x \in {"relay", "close", "failed", "done"},
         StmSends(f, x), stmGot' = stmGot
  PROVE  /\ StmSeen' = Append(StmSeen, f) /\ StmAt' = x
         /\ stmSent' \in Seq(StmFrames) /\ stmStage' = "sending" /\ stmThen' = x
<1>1. stmGot \in Seq(StmFrames) /\ stmSent \in Seq(StmFrames) /\ stmSent' = Append(stmSent, f)
  BY DEF StmTypeOK, StmSends
<1>2. StmSeen' = Append(StmSeen, f)
  BY <1>1, StmMovesOn DEF StmSeen
<1>3. stmSent' \in Seq(StmFrames)
  BY <1>1, StmAppend
<1> QED BY <1>2, <1>3 DEF StmSends, StmAt

\* An early stage of the task moves on without a frame.
LEMMA StmGoesFacts ==
  ASSUME NEW x, x # "sending", StmGoes(x), stmGot' = stmGot
  PROVE  StmSeen' = StmSeen /\ StmAt' = x /\ stmSent' = stmSent /\ stmStage' = x
BY DEF StmGoes, StmSeen, StmAt

\* A session whose frames and guest a step leaves alone, when the step does
\* not lead back into the run and ends it for no client that is still there.
LEMMA StmQuietInv ==
  ASSUME StmInv, StmTypeOK', StmReadWhole',
         StmSeen' = StmSeen, UNCHANGED <<stmKind, stmOut, stmPiped, stmGuest, stmMade>>,
         StmAt' \in StmLive => StmAt \in StmLive,
         StmAt' \in StmEarly => StmAt \in StmEarly, StmAt' = "relay" => StmAt = "relay",
         stmClient' = "up" => stmClient = "up",
         stmCut' = stmCut \/ StmUntold',
         StmAt' \in {"close", "failed", "done"} /\ stmClient' = "up" =>
           \/ StmAt' = StmAt \/ stmKind = "read"
           \/ stmKind # "tunnel" /\ ~(stmKind = "exec" /\ StmAt' = "done") /\ StmUntold'
  PROVE  StmInv'
<1>1. StmLine' = StmLine
  BY DEF StmLine, StmBehind
<1>2. StmFlow'
  BY <1>1 DEF StmInv, StmFlow, StmBroken, StmPlain
<1>3. StmPipe' /\ StmIdle'
  BY DEF StmInv, StmPipe, StmIdle
<1>4. StmExits'
  BY DEF StmInv, StmExits
<1>5. StmEnds'
  <2>1. (StmHears => StmHears') /\ (StmUntold' => StmHears')
    BY DEF StmHears, StmUntold
  <2> QED BY <2>1 DEF StmInv, StmEnds
<1> QED BY <1>2, <1>3, <1>4, <1>5 DEF StmInv

\* An exit that went out stays true behind a frame that is none.
LEMMA StmExitsKept ==
  ASSUME StmTypeOK, StmExits, NEW f \in StmFrames, f # "exit", StmSeen' = Append(StmSeen, f),
         stmMade' = stmMade, stmGuest' = stmGuest
  PROVE  StmExits'
<1>1. PICK n : n = Len(StmSeen)
  OBVIOUS
<1>2. /\ n \in Nat /\ DOMAIN StmSeen = 1..n /\ DOMAIN StmSeen' = 1..(n + 1)
      /\ (\A i \in 1..n : StmSeen'[i] = StmSeen[i]) /\ StmSeen'[n + 1] = f
  BY <1>1, StmSeenType, StmAppend
<1>3. ASSUME NEW i \in DOMAIN StmSeen', StmSeen'[i] = "exit"
      PROVE  stmGuest' \in {"exited", "lost"} /\ StmTo(StmSeen', i, "data") = stmMade'
  <2>1. i \in 1..n
    BY <1>2, <1>3
  <2>2. StmSeen[i] = "exit" /\ i \in DOMAIN StmSeen
    BY <1>2, <1>3, <2>1
  <2>3. \A j \in 1..i : StmSeen'[j] = StmSeen[j]
    BY <1>2, <2>1
  <2>4. StmTo(StmSeen', i, "data") = StmTo(StmSeen, i, "data")
    <3>1. PICK s, t : s = StmSeen' /\ t = StmSeen
      OBVIOUS
    <3>2. i \in Nat /\ \A j \in 1..i : s[j] = t[j]
      BY <1>2, <2>1, <2>3, <3>1
    <3>3. StmTo(s, i, "data") = StmTo(t, i, "data")
      BY <3>2, StmToSame
    <3> QED BY <3>1, <3>3
  <2> QED BY <2>2, <2>4 DEF StmExits
<1> QED BY <1>3 DEF StmExits

\* The run is over and a closing frame goes out: a failure, the end of the
\* run's time, the Close.
LEMMA StmClosingInv ==
  ASSUME StmInv, StmTypeOK', NEW f \in {"error", "close"}, NEW x \in {"close", "failed", "done"},
         StmSends(f, x), stmKind # "tunnel", stmClient' = stmClient,
         UNCHANGED <<stmKind, stmOut, stmPiped, stmMade, stmRead, stmGot, stmCut>>, stmGuest' = stmGuest,
         f = "close" => StmHears \/ stmClient # "up" \/ stmKind = "read",
         x = "done" /\ stmKind = "exec" => f = "close"
  PROVE  StmInv'
<1>0. StmTypeOK /\ f \in StmFrames
  BY DEF StmInv, StmFrames
<1>1. StmSeen' = Append(StmSeen, f) /\ StmAt' = x
  BY <1>0, StmSendsFacts
<1>2. StmFlow' /\ StmPipe' /\ StmIdle'
  BY <1>1 DEF StmInv, StmFlow, StmPipe, StmIdle, StmLive, StmEarly
<1>3. StmExits'
  BY <1>0, <1>1, StmExitsKept DEF StmInv
<1>4. StmEnds'
  <2>1. PICK n : n = Len(StmSeen)
    OBVIOUS
  <2>2. /\ n \in Nat /\ DOMAIN StmSeen = 1..n /\ DOMAIN StmSeen' = 1..(n + 1) /\ Len(StmSeen') = n + 1
        /\ (\A i \in 1..n : StmSeen'[i] = StmSeen[i]) /\ StmSeen'[n + 1] = f /\ StmSeen' # <<>>
    BY <1>0, <1>1, <2>1, StmSeenType, StmAppend
  <2>3. StmHears \/ f = "error" => StmHears'
    BY <2>2 DEF StmHears, StmUntold
  <2> QED BY <1>1, <2>2, <2>3 DEF StmEnds
<1>5. StmReadWhole'
  BY DEF StmInv, StmReadWhole
<1> QED BY <1>2, <1>3, <1>4, <1>5 DEF StmInv

\* A session that fails before its command runs.
LEMMA StmFailsInv ==
  ASSUME StmInv, StmFails, stmKind # "tunnel",
         UNCHANGED <<stmKind, stmOut, stmPiped, stmMade, stmRead, stmGot, stmClient, stmGuest, stmCut>>,
         stmOld' => stmKind = "exec"
  PROVE  StmInv'
<1>1. PICK x : x = IF stmKind = "exec" THEN "failed" ELSE "done"
  OBVIOUS
<1>2. x \in {"failed", "done"} /\ (x = "done" => stmKind # "exec") /\ StmSends("error", x)
  BY <1>1 DEF StmFails
<1>3. /\ stmSent' \in Seq(StmFrames) /\ stmStage' = "sending" /\ stmThen' = x
  BY <1>2, StmSendsFacts DEF StmInv, StmFrames
<1>4. StmTypeOK'
  BY <1>2, <1>3 DEF StmInv, StmTypeOK, StmAt
<1> QED BY <1>2, <1>4, StmClosingInv

\* The first frame, the policy and the connection.
LEMMA StmOpenInv ==
  ASSUME StmInv,
         \/ \E f \in {"start", "bad", "control", "none"} : StmFirst(f)
         \/ \E ok \in BOOLEAN : StmPolicy(ok)
         \/ \E ok, old \in BOOLEAN : StmConnect(ok, old)
  PROVE  StmInv'
<1>0. /\ stmStage \in {"first", "policy", "connect"} /\ stmKind # "tunnel" /\ StmAt \in StmEarly
      /\ UNCHANGED <<stmKind, stmPiped, stmRead, stmGot, stmClient, StmGuestSide>>
      /\ stmOld' => stmKind = "exec"
      /\ stmGuest = "idle"
  <2>a. stmStage \in {"first", "policy", "connect"} /\ (stmStage = "first" => stmKind # "tunnel")
    BY DEF StmFirst, StmPolicy, StmConnect
  <2>b. StmAt = stmStage
    BY <2>a DEF StmAt
  <2>c. stmKind # "tunnel"
    BY <2>a, <2>b DEF StmInv, StmTypeOK
  <2>d. /\ UNCHANGED <<stmKind, stmPiped, stmRead, stmGot, stmClient, StmGuestSide>>
        /\ stmOld' => stmKind = "exec"
    <3>1. CASE \E f \in {"start", "bad", "control", "none"} : StmFirst(f)
      BY <3>1 DEF StmFirst, StmInv, StmTypeOK
    <3>2. CASE \E ok \in BOOLEAN : StmPolicy(ok)
      BY <3>2 DEF StmPolicy, StmInv, StmTypeOK, StmWire
    <3>3. CASE \E ok, old \in BOOLEAN : StmConnect(ok, old)
      BY <3>3 DEF StmConnect, StmWire
    <3> QED BY <3>1, <3>2, <3>3
  <2>e. StmAt \in StmEarly
    BY <2>a, <2>b DEF StmEarly
  <2>f. stmGuest = "idle"
    BY <2>e DEF StmInv, StmIdle
  <2> QED BY <2>a, <2>c, <2>d, <2>e, <2>f
<1>1. CASE StmFails /\ stmCut' = stmCut
  BY <1>0, <1>1, StmFailsInv DEF StmGuestSide
<1>2. ASSUME NEW x \in {"policy", "connect", "launch", "close", "done"}, StmGoes(x),
             x = "done" => stmKind # "exec",
             \/ stmCut' = stmCut /\ (x \in {"close", "done"} => stmClient # "up")
             \/ stmCut' = "first"
      PROVE  StmInv'
  <2>1. StmSeen' = StmSeen /\ StmAt' = x /\ stmSent' = stmSent /\ stmStage' = x
    BY <1>0, <1>2, StmGoesFacts
  <2>2. StmTypeOK'
    BY <1>0, <2>1 DEF StmInv, StmTypeOK, StmAt, StmGuestSide, StmLive, StmEarly
  <2>3. StmReadWhole'
    BY <1>0 DEF StmInv, StmReadWhole
  <2>4. stmCut' = "first" => StmUntold'
    BY <1>0 DEF StmUntold, StmGuestSide
  <2> QED BY <1>0, <1>2, <2>1, <2>2, <2>3, <2>4, StmQuietInv DEF StmGuestSide, StmLive
<1>3. \/ StmFails /\ stmCut' = stmCut
      \/ \E x \in {"policy", "connect", "launch", "close", "done"} :
           /\ StmGoes(x) /\ (x = "done" => stmKind # "exec")
           /\ \/ stmCut' = stmCut /\ (x \in {"close", "done"} => stmClient # "up")
              \/ stmCut' = "first"
  <2> DEFINE goes == \E x \in {"policy", "connect", "launch", "close", "done"} :
                       /\ StmGoes(x) /\ (x = "done" => stmKind # "exec")
                       /\ \/ stmCut' = stmCut /\ (x \in {"close", "done"} => stmClient # "up")
                          \/ stmCut' = "first"
             fails == StmFails /\ stmCut' = stmCut
  <2>1. ASSUME NEW f \in {"start", "bad", "control", "none"}, StmFirst(f) PROVE fails \/ goes
    <3>0. stmCut' = IF f = "control" THEN "first" ELSE stmCut
      BY <2>1, Zenon DEF StmFirst
    <3>1. CASE f = "start"
      <4>1. StmGoes("policy")
        BY <2>1, <3>1, Zenon DEF StmFirst
      <4> QED BY <3>0, <3>1, <4>1
    <3>2. CASE f = "bad"
      <4>1. StmFails
        BY <2>1, <3>2, Zenon DEF StmFirst
      <4> QED BY <3>0, <3>2, <4>1
    <3>3. CASE f \in {"control", "none"}
      <4>1. /\ StmGoes(IF stmKind = "exec" THEN "close" ELSE "done")
            /\ f = "none" => stmClient # "up"
        BY <2>1, <3>3, Zenon DEF StmFirst
      <4>2. CASE stmKind = "exec"
        <5>1. StmGoes("close")
          BY <4>1, <4>2
        <5> QED BY <3>0, <3>3, <4>1, <4>2, <5>1
      <4>3. CASE stmKind # "exec"
        <5>1. StmGoes("done")
          BY <4>1, <4>3
        <5> QED BY <3>0, <3>3, <4>1, <4>3, <5>1
      <4> QED BY <4>2, <4>3
    <3> QED BY <2>1, <3>1, <3>2, <3>3
  <2>2. CASE \E ok \in BOOLEAN : StmPolicy(ok)
    BY <2>2 DEF StmPolicy, StmWire
  <2>3. CASE \E ok, old \in BOOLEAN : StmConnect(ok, old)
    BY <2>3 DEF StmConnect, StmWire
  <2> QED BY <2>1, <2>2, <2>3
<1> QED BY <1>1, <1>2, <1>3

\* A step of nobody's: a send is done, the client receives or leaves, a part
\* of a frame is read, the session ends because the client left.
LEMMA StmIdleSteps ==
  ASSUME StmInv,
         StmFlushed \/ StmPart \/ StmShellLeft \/ StmTunnelLeft \/ StmReceive \/ StmLeave
  PROVE  StmInv'
<1>0. /\ StmTypeOK /\ UNCHANGED <<stmKind, stmOut, stmPiped, stmGuest, stmMade, stmOld, stmRead, stmCut>>
      /\ stmClient' = "up" => stmClient = "up"
  BY DEF StmInv, StmFlushed, StmPart, StmShellLeft, StmTunnelLeft, StmReceive, StmLeave,
      StmGuestSide, StmWire
<1>1. /\ StmSeen' = StmSeen /\ stmGot' \in Seq(StmFrames) /\ stmSent' \in Seq(StmFrames)
  <2>1. CASE StmReceive
    <3>1. stmGot' = Append(stmGot, Head(stmSent)) /\ stmSent' = Tail(stmSent) /\ stmSent # <<>>
      BY <2>1 DEF StmReceive
    <3>2. stmGot \in Seq(StmFrames) /\ stmSent \in Seq(StmFrames)
      BY <1>0 DEF StmTypeOK
    <3>3. Head(stmSent) \in StmFrames /\ Tail(stmSent) \in Seq(StmFrames)
      BY <3>1, <3>2, StmFront
    <3>4. Append(stmGot, Head(stmSent)) \o Tail(stmSent) = stmGot \o stmSent
      BY <3>1, <3>2, StmMovesOn
    <3>5. Append(stmGot, Head(stmSent)) \in Seq(StmFrames)
      BY <3>2, <3>3, StmAppend
    <3> QED BY <3>1, <3>3, <3>4, <3>5 DEF StmSeen
  <2>2. CASE ~ StmReceive
    <3>1. UNCHANGED <<stmGot, stmSent>>
      BY <2>2 DEF StmFlushed, StmPart, StmShellLeft, StmTunnelLeft, StmLeave, StmWire, StmGoes
    <3> QED BY <1>0, <3>1 DEF StmSeen, StmTypeOK
  <2> QED BY <2>1, <2>2
<1>2. /\ stmStage' \in StmLive \cup {"sending", "close", "failed", "done", "refused"}
      /\ stmStage' = "sending" => stmThen' \in {"relay", "close", "failed", "done"}
      /\ \/ StmAt' = StmAt
         \/ StmAt' \in {"close", "done"} /\ stmClient' # "up" /\ (stmKind = "tunnel" => StmAt' = "done")
      /\ stmKind = "tunnel" => stmStage' \in {"first", "relay", "done", "refused"}
  <2>1. CASE StmFlushed
    <3>1. /\ stmThen \in {"relay", "close", "failed", "done"} /\ stmStage = "sending" /\ StmAt = stmThen
          /\ stmKind # "tunnel"
      BY <1>0, <2>1 DEF StmFlushed, StmTypeOK, StmAt
    <3>2. \/ stmStage' = stmThen
          \/ stmClient = "gone" /\ stmStage' = IF stmThen = "done" THEN "done" ELSE "close"
      BY <2>1 DEF StmFlushed
    <3>3. CASE stmStage' = stmThen
      BY <3>1, <3>3 DEF StmAt, StmLive
    <3>4. CASE stmClient = "gone" /\ stmStage' = IF stmThen = "done" THEN "done" ELSE "close"
      <4>1. stmStage' \in {"close", "done"} /\ stmClient' # "up"
        BY <1>0, <3>4
      <4>2. StmAt' = stmStage'
        BY <4>1 DEF StmAt
      <4>3. stmKind # "tunnel"
        BY <1>0, <3>1 DEF StmTypeOK
      <4> QED BY <3>1, <3>4, <4>1, <4>2, <4>3
    <3> QED BY <3>2, <3>3, <3>4
  <2>2. CASE StmShellLeft \/ StmTunnelLeft
    BY <1>0, <2>2 DEF StmShellLeft, StmTunnelLeft, StmGoes, StmAt
  <2>3. CASE StmPart \/ StmReceive \/ StmLeave
    <3>1. UNCHANGED <<stmStage, stmThen>>
      BY <2>3 DEF StmPart, StmReceive, StmLeave
    <3> QED BY <1>0, <3>1 DEF StmAt, StmTypeOK
  <2> QED BY <2>1, <2>2, <2>3
<1>3. StmTypeOK'
  BY <1>0, <1>1, <1>2 DEF StmTypeOK
<1>4. StmReadWhole'
  BY <1>0 DEF StmInv, StmReadWhole
<1> QED BY <1>0, <1>1, <1>2, <1>3, <1>4, StmQuietInv DEF StmLive, StmEarly

\* The shell's input does not reach a guest that is lost.
LEMMA StmInputFailsInv ==
  ASSUME StmInv, StmInputFails
  PROVE  StmInv'
<1>1. /\ stmKind = "shell" /\ stmStage = "relay" /\ stmGuest = "lost" /\ stmCut' = "input"
      /\ StmGoes("close")
      /\ UNCHANGED <<stmKind, stmPiped, stmOld, stmRead, stmGot, stmClient, StmGuestSide>>
  BY DEF StmInputFails
<1>2. StmSeen' = StmSeen /\ StmAt' = "close" /\ stmSent' = stmSent /\ stmStage' = "close"
  BY <1>1, StmGoesFacts
<1>3. StmTypeOK'
  BY <1>1, <1>2 DEF StmInv, StmTypeOK, StmGuestSide
<1>4. StmReadWhole' /\ StmUntold'
  BY <1>1 DEF StmInv, StmReadWhole, StmUntold, StmGuestSide
<1> QED BY <1>1, <1>2, <1>3, <1>4, StmQuietInv DEF StmGuestSide, StmLive, StmEarly

\* The end of the run's time, and the Close.
LEMMA StmCloseInv ==
  ASSUME StmInv, StmTimeout \/ StmClose
  PROVE  StmInv'
<1>1. CASE StmTimeout
  <2>1. /\ StmSends("error", "failed") /\ stmKind = "exec"
        /\ UNCHANGED <<stmKind, stmPiped, stmOld, stmRead, StmWire, StmGuestSide>>
    BY <1>1 DEF StmTimeout
  <2>2. stmSent' \in Seq(StmFrames) /\ stmStage' = "sending" /\ stmThen' = "failed"
    BY <2>1, StmSendsFacts DEF StmInv, StmFrames, StmWire
  <2>3. StmTypeOK'
    BY <2>1, <2>2 DEF StmInv, StmTypeOK, StmWire, StmGuestSide
  <2> QED BY <2>1, <2>3, StmClosingInv DEF StmWire, StmGuestSide
<1>2. CASE StmClose
  <2>1. /\ StmSends("close", "done") /\ stmStage \in {"close", "failed"}
        /\ UNCHANGED <<stmKind, stmPiped, stmOld, stmRead, StmWire, StmGuestSide>>
    BY <1>2 DEF StmClose
  <2>2. stmSent' \in Seq(StmFrames) /\ stmStage' = "sending" /\ stmThen' = "done"
    BY <2>1, StmSendsFacts DEF StmInv, StmFrames, StmWire
  <2>3. stmKind \in {"exec", "shell", "read"}
    BY <2>1 DEF StmInv, StmTypeOK
  <2>4. StmTypeOK'
    BY <2>1, <2>2, <2>3 DEF StmInv, StmTypeOK, StmWire, StmGuestSide
  <2>5. StmAt \in {"close", "failed"}
    BY <2>1 DEF StmAt
  <2>6. StmHears \/ stmClient # "up" \/ stmKind = "read"
    BY <2>3, <2>5 DEF StmInv, StmEnds
  <2> QED BY <2>1, <2>3, <2>4, <2>6, StmClosingInv DEF StmWire, StmGuestSide
<1> QED BY <1>1, <1>2

\* A read of the rest of the file is answered with all of it, or refused.
LEMMA StmReadInv ==
  ASSUME StmInv, NEW rest \in 0..StmMaxFile, NEW ceiling \in 0..StmMaxFile,
         NEW len \in (-1)..StmMaxFile, NEW sized \in BOOLEAN,
         StmReadFile(rest, len, ceiling, sized)
  PROVE  StmInv'
<1>1. /\ stmKind = "read" /\ stmStage = "first" /\ StmGoes("done")
      /\ UNCHANGED <<stmKind, stmPiped, stmOld, StmWire, StmGuestSide>>
  BY DEF StmReadFile
<1>2. StmSeen' = StmSeen /\ StmAt' = "done" /\ stmSent' = stmSent /\ stmStage' = "done"
  BY <1>1, StmGoesFacts DEF StmWire
<1>3. StmTypeOK'
  BY <1>1, <1>2 DEF StmInv, StmTypeOK, StmWire, StmGuestSide
<1>4. StmReadWhole'
  <2>1. PICK cap, asked, data :
          /\ cap = StmMaxRead + 1 /\ asked = (IF len >= 0 /\ len < cap THEN len ELSE cap)
          /\ data = StmGuestRead(rest, asked, ceiling)
    OBVIOUS
  <2>2. rest \in Nat /\ ceiling \in Nat /\ len \in Int /\ asked \in Nat
    BY <2>1, StmAssumption
  <2>3. data \in Nat /\ data <= rest
    BY <2>1, <2>2 DEF StmGuestRead
  <2>4. \/ stmRead' = StmNoRead
        \/ /\ stmRead' = [asked |-> sized, served |-> data, rest |-> rest]
           /\ ~ (sized /\ data < rest)
    BY <2>1 DEF StmReadFile
  <2>5. CASE stmRead' = StmNoRead
    BY <2>5 DEF StmReadWhole, StmNoRead
  <2>6. CASE /\ stmRead' = [asked |-> sized, served |-> data, rest |-> rest]
             /\ ~ (sized /\ data < rest)
    <3>1. CASE sized
      <4>1. data = rest
        BY <2>2, <2>3, <2>6, <3>1
      <4> QED BY <2>6, <4>1 DEF StmReadWhole
    <3>2. CASE ~ sized
      BY <2>6, <3>2, Zenon DEF StmReadWhole
    <3> QED BY <3>1, <3>2
  <2> QED BY <2>4, <2>5, <2>6
<1> QED BY <1>1, <1>2, <1>3, <1>4, StmQuietInv DEF StmWire, StmGuestSide, StmLive, StmEarly

\* The command starts.
LEMMA StmLaunchInv ==
  ASSUME StmInv, NEW ok \in BOOLEAN, StmLaunch(ok) \/ StmTunnel(ok)
  PROVE  StmInv'
<1>0. /\ stmStage \in {"first", "launch"} /\ StmAt = stmStage
      /\ stmGuest = "idle" /\ stmMade = 0 /\ stmOut = <<>>
      /\ UNCHANGED <<stmKind, stmMade, stmOut, stmPiped, stmOld, stmRead, stmGot, stmClient, stmCut>>
      /\ stmGuest' = IF ok THEN "running" ELSE "idle"
      /\ StmTypeOK
  <2>1. stmStage \in {"first", "launch"} /\ StmAt = stmStage
    BY DEF StmLaunch, StmTunnel, StmAt
  <2>2. stmGuest = "idle" /\ stmMade = 0 /\ stmOut = <<>>
    BY <2>1 DEF StmInv, StmIdle, StmEarly
  <2> QED BY <2>1, <2>2 DEF StmInv, StmLaunch, StmTunnel, StmWire
<1>1. ASSUME stmGuest' = "running", StmTypeOK', StmAt' = "relay",
             StmSeen' = StmSeen \/ (StmSeen' = Append(StmSeen, "started") /\ stmPiped = <<>>)
      PROVE  StmInv'
  <2>1. (\A i \in DOMAIN StmSeen : StmSeen[i] # "exit") /\ StmPlain
    BY <1>0 DEF StmInv, StmFlow, StmBroken, StmLive, StmEarly
  <2>2. StmCount(StmLine, "data") = 0
    BY <1>0, <2>1 DEF StmPlain
  <2>3. StmCount(StmLine', "data") = 0 /\ \A i \in DOMAIN StmSeen' : StmSeen'[i] # "exit"
    <3>1. CASE StmSeen' = StmSeen
      BY <1>0, <2>1, <2>2, <3>1 DEF StmLine, StmBehind
    <3>2. CASE StmSeen' = Append(StmSeen, "started") /\ stmPiped = <<>>
      <4>0. "started" \in StmFrames /\ "data" \in StmFrames
        BY DEF StmFrames
      <4>1. StmSeen \in Seq(StmFrames) /\ StmSeen' \in Seq(StmFrames)
        BY <1>0, <3>2, <4>0, StmSeenType, StmAppend
      <4>2. StmLine = StmSeen
        BY <1>0, <3>2, <4>1, ConcatEmptySeq DEF StmLine, StmBehind
      <4>3. StmLine' = StmSeen'
        <5>1. PICK s : s = StmSeen'
          OBVIOUS
        <5>2. (s \o <<>>) \o <<>> = s
          BY <4>1, <5>1, ConcatEmptySeq
        <5> QED BY <1>0, <3>2, <5>1, <5>2 DEF StmLine, StmBehind
      <4>4. StmCount(Append(StmSeen, "started"), "data") = StmCount(StmSeen, "data")
        BY <4>0, <4>1, StmCountAppend
      <4>5. \A i \in DOMAIN StmSeen' : StmSeen'[i] # "exit"
        BY <2>1, <3>2, <4>0, <4>1, StmAppend
      <4> QED BY <2>2, <3>2, <4>2, <4>3, <4>4, <4>5
    <3> QED BY <1>1, <3>1, <3>2
  <2>4. StmPlain'
    BY <1>0, <1>1, <2>3 DEF StmPlain
  <2>5. StmFlow'
    BY <2>3, <2>4 DEF StmFlow
  <2>6. StmPipe'
    <3>1. \A i \in DOMAIN stmPiped : stmPiped[i] # "close"
      BY <1>0 DEF StmInv, StmPipe
    <3> QED BY <1>0, <3>1 DEF StmInv, StmPipe
  <2>7. StmIdle' /\ StmEnds'
    BY <1>0, <1>1 DEF StmIdle, StmEnds, StmEarly
  <2>8. StmExits'
    BY <2>3 DEF StmExits
  <2> QED BY <1>0, <1>1, <2>5, <2>6, <2>7, <2>8 DEF StmInv, StmReadWhole
<1>2. CASE StmLaunch(ok)
  <2>0. stmStage = "launch" /\ stmKind # "tunnel" /\ stmPiped = <<>> /\ (stmOld' => stmKind = "exec")
    BY <1>0, <1>2 DEF StmLaunch, StmInv, StmTypeOK, StmPipe
  <2>1. CASE ok
    <3>1. StmSends("started", "relay")
      BY <1>2, <2>1 DEF StmLaunch
    <3>2. /\ StmSeen' = Append(StmSeen, "started") /\ StmAt' = "relay"
          /\ stmSent' \in Seq(StmFrames) /\ stmStage' = "sending" /\ stmThen' = "relay"
      BY <1>0, <3>1, StmSendsFacts DEF StmFrames
    <3>3. StmTypeOK'
      BY <1>0, <2>0, <2>1, <3>2 DEF StmTypeOK
    <3> QED BY <1>0, <1>1, <2>0, <2>1, <3>2, <3>3
  <2>2. CASE ~ ok
    BY <1>0, <1>2, <2>0, <2>2, StmFailsInv DEF StmLaunch
  <2> QED BY <2>1, <2>2
<1>3. CASE StmTunnel(ok)
  <2>1. CASE ok
    <3>1. StmGoes("relay")
      BY <1>3, <2>1 DEF StmTunnel
    <3>2. StmSeen' = StmSeen /\ StmAt' = "relay" /\ stmSent' = stmSent /\ stmStage' = "relay"
      BY <1>0, <3>1, StmGoesFacts
    <3>3. StmTypeOK'
      BY <1>0, <2>1, <3>2 DEF StmTypeOK, StmLive
    <3> QED BY <1>0, <1>1, <2>1, <3>2, <3>3
  <2>2. CASE ~ ok
    <3>1. StmGoes("refused")
      BY <1>3, <2>2 DEF StmTunnel
    <3>2. StmSeen' = StmSeen /\ StmAt' = "refused" /\ stmSent' = stmSent /\ stmStage' = "refused"
      BY <1>0, <3>1, StmGoesFacts
    <3>3. StmTypeOK'
      BY <1>0, <2>2, <3>2 DEF StmTypeOK
    <3>4. StmReadWhole'
      BY <1>0 DEF StmInv, StmReadWhole
    <3> QED BY <1>0, <2>2, <3>2, <3>3, <3>4, StmQuietInv DEF StmLive, StmEarly
  <2> QED BY <2>1, <2>2
<1> QED BY <1>2, <1>3

\* The guest writes, exits or is lost; the shell's stream goes out of step.
LEMMA StmGuestInv ==
  ASSUME StmInv, StmGuestWrites \/ StmGuestExits \/ StmGuestLost \/ StmInput
  PROVE  StmInv'
<1>0. /\ UNCHANGED <<stmKind, stmStage, stmThen, stmPiped, stmSent, stmGot, stmClient, stmOld, stmRead>>
      /\ StmSeen' = StmSeen /\ StmAt' = StmAt /\ (StmHears => StmHears') /\ StmTypeOK
      /\ StmAt \notin StmEarly /\ stmGuest # "idle"
      /\ "data" \in StmFrames /\ "exit" \in StmFrames /\ "lost" \in StmFrames
  <2>1. /\ UNCHANGED <<stmKind, stmStage, stmThen, stmPiped, stmSent, stmGot, stmClient, stmOld, stmRead>>
        /\ stmCut' = stmCut /\ (stmGuest \in {"idle", "lost"} => stmGuest' = stmGuest)
    BY DEF StmGuestWrites, StmGuestExits, StmGuestLost, StmInput, StmWire
  <2>2. StmInput => StmAt = "relay"
    BY DEF StmInput, StmAt
  <2>3. stmGuest # "idle"
    BY <2>2 DEF StmInv, StmIdle, StmGuestWrites, StmGuestExits, StmGuestLost
  <2>4. StmSeen' = StmSeen /\ StmAt' = StmAt
    BY <2>1 DEF StmSeen, StmAt
  <2>5. StmHears => StmHears'
    BY <2>1, <2>4 DEF StmHears, StmUntold
  <2> QED BY <2>1, <2>3, <2>4, <2>5 DEF StmInv, StmIdle, StmFrames
<1>1. CASE StmGuestWrites \/ StmGuestExits
  <2>1. PICK x \in {"data", "exit"} :
          /\ stmGuest = "running" /\ stmOut' = Append(stmOut, x)
          /\ x = "data" => stmMade' = stmMade + 1 /\ stmGuest' = "running"
          /\ x = "exit" => stmMade' = stmMade /\ stmGuest' = "exited"
    <3>1. CASE StmGuestWrites
      BY <3>1 DEF StmGuestWrites
    <3>2. CASE StmGuestExits
      BY <3>2 DEF StmGuestExits
    <3> QED BY <1>1, <3>1, <3>2
  <2>2. /\ stmOut \in Seq(StmFrames) /\ x \in StmFrames
        /\ stmOut' \in Seq(StmFrames) /\ Len(stmOut') = Len(stmOut) + 1
        /\ Len(stmOut) \in Nat /\ DOMAIN stmOut = 1..Len(stmOut) /\ DOMAIN stmOut' = 1..(Len(stmOut) + 1)
        /\ (\A i \in 1..Len(stmOut) : stmOut'[i] = stmOut[i]) /\ stmOut'[Len(stmOut) + 1] = x
    <3>1. stmOut \in Seq(StmFrames) /\ x \in StmFrames
      BY <1>0, <2>1 DEF StmTypeOK
    <3> QED BY <2>1, <3>1, StmAppend
  <2>3. StmTypeOK'
    BY <1>0, <2>1, <2>2 DEF StmTypeOK
  <2>4. StmLine' = Append(StmLine, x)
    <3>1. StmSeen \o stmPiped \in Seq(StmFrames)
      BY <1>0, StmSeenType
    <3>2. (StmSeen \o stmPiped) \o Append(stmOut, x) = Append((StmSeen \o stmPiped) \o stmOut, x)
      BY <2>2, <3>1, StmMovesOn
    <3> QED BY <1>0, <2>1, <3>2 DEF StmLine, StmBehind
  <2>5. ASSUME StmBroken PROVE StmBroken'
    <3>1. stmKind = "shell" /\ stmOut # <<>> /\ stmOut[1] = "lost"
      BY <2>1, <2>5 DEF StmBroken
    <3>2. 1 \in 1..Len(stmOut)
      BY <2>2, <3>1, EmptySeq
    <3>3. stmOut' # <<>> /\ stmOut'[1] = "lost"
      BY <2>2, <3>1, <3>2
    <3> QED BY <1>0, <3>1, <3>3 DEF StmBroken
  <2>6. ASSUME StmPlain PROVE StmPlain'
    <3>1. StmCount(StmLine', "data") = stmMade'
      <4>1. StmLine \in Seq(StmFrames) /\ stmMade \in Nat
        BY <1>0, StmSeenType DEF StmTypeOK
      <4>2. StmCount(StmLine, "data") = stmMade
        BY <2>6 DEF StmPlain
      <4> QED BY <1>0, <2>1, <2>2, <2>4, <4>1, <4>2, StmCountAppend
    <3>2. ASSUME NEW i \in DOMAIN stmOut'
          PROVE  /\ stmOut'[i] \in {"data", "exit"}
                 /\ stmOut'[i] = "exit" => i = Len(stmOut') /\ stmGuest' = "exited"
      <4>1. CASE i \in 1..Len(stmOut)
        BY <2>1, <2>2, <2>6, <4>1 DEF StmPlain
      <4>2. CASE i = Len(stmOut) + 1
        BY <2>1, <2>2, <4>2
      <4> QED BY <2>2, <4>1, <4>2
    <3> QED BY <2>1, <3>1, <3>2 DEF StmPlain
  <2>7. StmFlow'
    BY <1>0, <2>5, <2>6 DEF StmInv, StmFlow
  <2>8. StmPipe'
    <3>1. \A i \in DOMAIN stmPiped : stmPiped[i] # "close"
      BY <2>1 DEF StmInv, StmPipe
    <3> QED BY <1>0, <3>1 DEF StmInv, StmPipe
  <2>9. StmIdle'
    BY <1>0, <2>1 DEF StmIdle
  <2>10. StmExits'
    <3>1. \A i \in DOMAIN StmSeen : StmSeen[i] # "exit"
      BY <2>1 DEF StmInv, StmExits
    <3> QED BY <1>0, <3>1 DEF StmExits
  <2>11. StmEnds'
    BY <1>0, <2>1 DEF StmInv, StmEnds
  <2> QED BY <1>0, <2>3, <2>7, <2>8, <2>9, <2>10, <2>11 DEF StmInv, StmReadWhole
<1>2. CASE StmGuestLost \/ StmInput
  <2>1. /\ stmOut' = <<"lost">> /\ stmMade' = stmMade
        /\ stmGuest' = "lost" \/ (stmKind = "shell" /\ stmGuest' = stmGuest)
    BY <1>2 DEF StmGuestLost, StmInput
  <2>2. stmOut' # <<>> /\ stmOut'[1] = "lost" /\ stmOut' \in Seq(StmFrames)
    BY <1>0, <2>1
  <2>3. StmTypeOK'
    BY <1>0, <2>1, <2>2 DEF StmTypeOK
  <2>4. StmFlow'
    BY <1>0, <2>1, <2>2 DEF StmInv, StmFlow, StmBroken
  <2>5. StmPipe' /\ StmIdle'
    <3>1. stmKind # "tunnel" => stmPiped = <<>>
      BY DEF StmInv, StmPipe
    <3>2. CASE stmGuest' = "lost"
      BY <1>0, <2>1, <3>2 DEF StmInv, StmPipe, StmIdle
    <3>3. CASE stmKind = "shell" /\ stmGuest' = stmGuest
      BY <1>0, <3>1, <3>3 DEF StmPipe, StmIdle
    <3> QED BY <2>1, <3>2, <3>3
  <2>6. StmExits'
    BY <1>0, <2>1 DEF StmInv, StmExits
  <2>7. StmEnds'
    BY <1>0, <2>1 DEF StmInv, StmEnds
  <2> QED BY <1>0, <2>3, <2>4, <2>5, <2>6, <2>7 DEF StmInv, StmReadWhole
<1> QED BY <1>1, <1>2

\* A session that relays has the rest of the output in front of it.
LEMMA StmRelaying ==
  ASSUME StmInv, stmStage = "relay", stmOut # <<>>
  PROVE  /\ StmAt = "relay" /\ StmTypeOK /\ stmOut \in Seq(StmFrames) /\ stmPiped \in Seq(StmFrames)
         /\ Head(stmOut) = stmOut[1] /\ Len(stmOut) \in Nat \ {0} /\ DOMAIN stmOut = 1..Len(stmOut)
         /\ \A i \in DOMAIN StmSeen : StmSeen[i] # "exit"
         /\ Head(stmOut) \in {"data", "exit"} => StmPlain
         /\ Head(stmOut) \notin {"data", "exit"} => StmBroken
         /\ Head(stmOut) = "exit" => stmOut = <<"exit">> /\ stmGuest = "exited"
<1>1. StmAt = "relay" /\ StmTypeOK /\ stmOut \in Seq(StmFrames) /\ stmPiped \in Seq(StmFrames)
  BY DEF StmInv, StmTypeOK, StmAt
<1>2. Head(stmOut) = stmOut[1] /\ Len(stmOut) \in Nat \ {0} /\ DOMAIN stmOut = 1..Len(stmOut)
  BY <1>1, StmFront
<1>3. (\A i \in DOMAIN StmSeen : StmSeen[i] # "exit") /\ (StmBroken \/ StmPlain)
  BY <1>1 DEF StmInv, StmFlow, StmLive
<1>4. StmBroken => Head(stmOut) = "lost"
  BY <1>2 DEF StmBroken
<1>5. StmPlain => Head(stmOut) \in {"data", "exit"}
  BY <1>2 DEF StmPlain
<1>6. ASSUME Head(stmOut) = "exit" PROVE stmOut = <<"exit">> /\ stmGuest = "exited"
  <2>1. Len(stmOut) = 1 /\ stmGuest = "exited"
    BY <1>2, <1>3, <1>4, <1>6 DEF StmPlain
  <2>2. <<"exit">> \in Seq(StmFrames)
    BY DEF StmFrames
  <2>3. stmOut = <<"exit">>
    <3>1. PICK e : e = <<"exit">>
      OBVIOUS
    <3>2. e \in Seq(StmFrames) /\ Len(e) = 1 /\ e[1] = "exit"
      BY <2>2, <3>1
    <3>3. \A i \in 1..Len(stmOut) : stmOut[i] = e[i]
      BY <1>2, <1>6, <2>1, <3>2
    <3> QED BY <1>1, <2>1, <3>1, <3>2, <3>3, SeqEqual
  <2> QED BY <2>1, <2>3
<1> QED BY <1>1, <1>2, <1>3, <1>4, <1>5, <1>6

\* When the exit goes out, so has all of the output in front of it.
LEMMA StmExitGoes ==
  ASSUME StmInv, stmStage = "relay", stmOut # <<>>, StmPlain, stmPiped = <<>>,
         stmOut[Len(stmOut)] = "exit",
         StmSeen' = StmSeen \o stmOut, stmGuest' = stmGuest, stmMade' = stmMade
  PROVE  StmExits' /\ StmHears' /\ stmGuest = "exited"
<1>0. /\ StmTypeOK /\ stmOut \in Seq(StmFrames) /\ Len(stmOut) \in Nat \ {0}
      /\ DOMAIN stmOut = 1..Len(stmOut) /\ \A i \in DOMAIN StmSeen : StmSeen[i] # "exit"
  BY StmRelaying
<1>1. PICK s, n, k : s = StmSeen' /\ n = Len(StmSeen) /\ k = Len(stmOut)
  OBVIOUS
<1>2. StmSeen \in Seq(StmFrames) /\ DOMAIN StmSeen = 1..n /\ n \in Nat /\ k \in Nat \ {0}
  BY <1>0, <1>1, StmSeenType
<1>3. /\ s \in Seq(StmFrames) /\ Len(s) = n + k /\ DOMAIN s = 1..(n + k)
      /\ (\A i \in 1..n : s[i] = StmSeen[i]) /\ \A i \in 1..k : s[n + i] = stmOut[i]
  BY <1>0, <1>1, <1>2, StmJoin
<1>4. stmGuest = "exited" /\ \A i \in 1..k : stmOut[i] = "exit" => i = k
  <2>1. k \in DOMAIN stmOut /\ stmOut[k] = "exit" /\ DOMAIN stmOut = 1..k
    BY <1>0, <1>1, <1>2
  <2> QED BY <1>1, <2>1 DEF StmPlain
<1>5. StmTo(s, n + k, "data") = stmMade
  <2>1. StmLine = s
    BY <1>1, <1>2, ConcatEmptySeq DEF StmLine, StmBehind
  <2>2. StmCount(s, "data") = stmMade
    BY <2>1 DEF StmPlain
  <2> QED BY <1>3, <2>2, StmCountTo
<1>6. ASSUME NEW i \in 1..(n + k), s[i] = "exit" PROVE i = n + k
  <2>1. CASE i <= n
    <3>1. i \in 1..n
      BY <1>2, <2>1
    <3>2. s[i] = StmSeen[i] /\ StmSeen[i] # "exit"
      BY <1>0, <1>2, <1>3, <3>1
    <3> QED BY <1>6, <3>2
  <2>2. CASE i > n
    <3>1. i - n \in 1..k /\ i = n + (i - n)
      BY <1>2, <2>2
    <3>2. s[i] = stmOut[i - n]
      BY <1>3, <3>1
    <3>3. i - n = k
      BY <1>4, <1>6, <3>1, <3>2
    <3> QED BY <1>2, <3>1, <3>3
  <2> QED BY <1>2, <2>1, <2>2
<1>7. StmExits'
  BY <1>1, <1>3, <1>4, <1>5, <1>6 DEF StmExits
<1>8. StmHears'
  <2>1. n + k \in 1..(n + k) /\ k \in 1..k
    BY <1>2
  <2>2. s[n + k] = "exit"
    BY <1>1, <1>3, <2>1
  <2> QED BY <1>1, <1>3, <2>1, <2>2 DEF StmHears
<1> QED BY <1>4, <1>7, <1>8

\* The output behind a frame that was taken is as plain as it was.
LEMMA StmPlainTail ==
  ASSUME StmTypeOK, StmPlain, stmOut # <<>>, stmOut' = Tail(stmOut), stmGuest' = stmGuest,
         StmCount(StmLine', "data") = stmMade'
  PROVE  StmPlain' /\ stmOut' \in Seq(StmFrames)
<1>1. /\ stmOut' \in Seq(StmFrames) /\ Len(stmOut) \in Nat \ {0} /\ Len(stmOut') = Len(stmOut) - 1
      /\ DOMAIN stmOut = 1..Len(stmOut) /\ DOMAIN stmOut' = 1..(Len(stmOut) - 1)
      /\ \A i \in 1..(Len(stmOut) - 1) : stmOut'[i] = stmOut[i + 1]
  BY StmFront DEF StmTypeOK
<1>2. ASSUME NEW i \in DOMAIN stmOut'
      PROVE  /\ stmOut'[i] \in {"data", "exit"}
             /\ stmOut'[i] = "exit" => i = Len(stmOut') /\ stmGuest' = "exited"
  <2>1. i + 1 \in DOMAIN stmOut /\ stmOut'[i] = stmOut[i + 1]
    BY <1>1
  <2>2. /\ stmOut[i + 1] \in {"data", "exit"}
        /\ stmOut[i + 1] = "exit" => i + 1 = Len(stmOut) /\ stmGuest = "exited"
    BY <2>1 DEF StmPlain
  <2> QED BY <1>1, <2>1, <2>2
<1> QED BY <1>1, <1>2 DEF StmPlain

\* exec and shell relay one frame of the guest's, an old guest's all at once.
LEMMA StmRelayInv ==
  ASSUME StmInv, StmRelay \/ StmRelayBuffered
  PROVE  StmInv'
<1>0. /\ stmStage = "relay" /\ stmOut # <<>> /\ stmKind # "tunnel" /\ stmPiped = <<>>
      /\ UNCHANGED <<stmKind, stmGuest, stmMade, stmPiped, stmOld, stmRead, stmGot, stmClient>>
      /\ StmTypeOK /\ stmGuest # "idle"
  BY DEF StmRelay, StmRelayBuffered, StmInv, StmTypeOK, StmPipe, StmIdle, StmWire
<1>1. /\ StmAt = "relay" /\ stmOut \in Seq(StmFrames)
      /\ Head(stmOut) = stmOut[1] /\ Len(stmOut) \in Nat \ {0} /\ DOMAIN stmOut = 1..Len(stmOut)
      /\ \A i \in DOMAIN StmSeen : StmSeen[i] # "exit"
      /\ Head(stmOut) \in {"data", "exit"} => StmPlain
      /\ Head(stmOut) \notin {"data", "exit"} => StmBroken
      /\ Head(stmOut) = "exit" => stmOut = <<"exit">> /\ stmGuest = "exited"
  BY <1>0, StmRelaying
<1>2. Head(stmOut) \in StmFrames /\ Tail(stmOut) \in Seq(StmFrames) /\ StmSeen \in Seq(StmFrames)
  BY <1>0, <1>1, StmFront, StmSeenType
<1>3. StmPipe' /\ StmReadWhole' /\ (StmAt' \notin StmEarly => StmIdle')
  BY <1>0 DEF StmInv, StmPipe, StmReadWhole, StmIdle
<1>4. ASSUME NEW x \in {"close", "failed"}, StmAt' = x, StmTypeOK', StmExits', StmHears'
      PROVE  StmInv'
  BY <1>0, <1>3, <1>4 DEF StmInv, StmFlow, StmEnds, StmLive, StmEarly
<1>5. ASSUME StmSends("error", "failed"), stmOut' \in Seq(StmFrames) PROVE StmInv'
  <2>0. "error" \in StmFrames
    BY DEF StmFrames
  <2>1. /\ StmSeen' = Append(StmSeen, "error") /\ StmAt' = "failed"
        /\ stmSent' \in Seq(StmFrames) /\ stmStage' = "sending" /\ stmThen' = "failed"
    BY <1>0, <1>5, <2>0, StmSendsFacts
  <2>2. StmTypeOK'
    BY <1>0, <1>5, <2>1 DEF StmTypeOK
  <2>3. StmExits'
    BY <1>0, <2>0, <2>1, StmExitsKept DEF StmInv
  <2>4. StmHears'
    <3>1. Len(StmSeen) + 1 \in DOMAIN StmSeen' /\ StmSeen'[Len(StmSeen) + 1] = "error"
      BY <1>2, <2>0, <2>1, StmAppend
    <3> QED BY <3>1 DEF StmHears
  <2> QED BY <1>4, <2>1, <2>2, <2>3, <2>4
<1>6. CASE StmRelay
  <2>0. stmOut' = Tail(stmOut)
    BY <1>6 DEF StmRelay
  <2>1. CASE Head(stmOut) = "data"
    <3>0. "data" \in StmFrames
      BY DEF StmFrames
    <3>1. StmSends("data", "relay")
      BY <1>6, <2>1 DEF StmRelay
    <3>2. /\ StmSeen' = Append(StmSeen, "data") /\ StmAt' = "relay"
          /\ stmSent' \in Seq(StmFrames) /\ stmStage' = "sending" /\ stmThen' = "relay"
      BY <1>0, <3>0, <3>1, StmSendsFacts
    <3>3. StmLine' = StmLine
      <4>1. PICK s : s = Append(StmSeen, "data")
        OBVIOUS
      <4>2. s \in Seq(StmFrames)
        BY <1>2, <3>0, <4>1, StmAppend
      <4>3. s \o Tail(stmOut) = StmSeen \o stmOut
        BY <1>0, <1>1, <1>2, <2>1, <4>1, StmMovesOn
      <4>4. s \o <<>> = s /\ StmSeen \o <<>> = StmSeen
        BY <1>2, <4>2, ConcatEmptySeq
      <4>5. StmLine' = (s \o <<>>) \o Tail(stmOut)
        BY <1>0, <2>0, <3>2, <4>1 DEF StmLine, StmBehind
      <4>6. StmLine = (StmSeen \o <<>>) \o stmOut
        BY <1>0 DEF StmLine, StmBehind
      <4> QED BY <4>3, <4>4, <4>5, <4>6
    <3>4. StmPlain' /\ stmOut' \in Seq(StmFrames)
      <4>1. StmCount(StmLine', "data") = stmMade'
        BY <1>0, <1>1, <2>1, <3>3 DEF StmPlain
      <4> QED BY <1>0, <1>1, <2>0, <2>1, <4>1, StmPlainTail
    <3>5. \A i \in DOMAIN StmSeen' : StmSeen'[i] # "exit"
      BY <1>1, <1>2, <3>0, <3>2, StmAppend
    <3>6. StmTypeOK'
      BY <1>0, <3>2, <3>4 DEF StmTypeOK
    <3>7. StmExits' /\ StmFlow'
      BY <3>4, <3>5 DEF StmExits, StmFlow
    <3>8. StmEnds' /\ StmIdle'
      BY <1>3, <3>2 DEF StmEnds, StmEarly
    <3> QED BY <1>3, <3>6, <3>7, <3>8 DEF StmInv
  <2>2. CASE Head(stmOut) = "exit"
    <3>0. "exit" \in StmFrames
      BY DEF StmFrames
    <3>1. StmSends("exit", "close")
      BY <1>6, <2>2, Zenon DEF StmRelay
    <3>2. /\ StmSeen' = Append(StmSeen, "exit") /\ StmAt' = "close"
          /\ stmSent' \in Seq(StmFrames) /\ stmStage' = "sending" /\ stmThen' = "close"
      BY <1>0, <3>0, <3>1, StmSendsFacts
    <3>3. StmSeen' = StmSeen \o stmOut
      BY <1>1, <1>2, <2>2, <3>0, <3>2, AppendIsConcat
    <3>4. stmOut[Len(stmOut)] = "exit"
      BY <1>1, <2>2
    <3>5. StmExits' /\ StmHears'
      BY <1>0, <1>1, <2>2, <3>3, <3>4, StmExitGoes
    <3>6. StmTypeOK'
      BY <1>0, <1>2, <2>0, <3>2 DEF StmTypeOK
    <3> QED BY <1>4, <3>2, <3>5, <3>6
  <2>3. CASE Head(stmOut) \notin {"data", "exit"}
    <3>1. StmSends("error", "failed")
      BY <1>6, <2>3 DEF StmRelay
    <3> QED BY <1>2, <1>5, <2>0, <3>1
  <2> QED BY <2>1, <2>2, <2>3
<1>7. CASE StmRelayBuffered
  <2>0. /\ stmOut' = <<>> /\ stmOut' \in Seq(StmFrames)
        /\ Last(stmOut) = stmOut[Len(stmOut)] /\ Last(stmOut) \in {"exit", "lost"}
    BY <1>7 DEF StmRelayBuffered, Last
  <2>1. CASE Last(stmOut) = "lost"
    <3>1. StmSends("error", "failed")
      BY <1>7, <2>1 DEF StmRelayBuffered
    <3> QED BY <1>5, <2>0, <3>1
  <2>2. CASE Last(stmOut) # "lost"
    <3>1. stmSent' = stmSent \o stmOut /\ stmStage' = "sending" /\ stmThen' = "close"
      BY <1>7, <2>2 DEF StmRelayBuffered
    <3>2. stmSent \in Seq(StmFrames) /\ stmGot \in Seq(StmFrames)
      BY <1>0 DEF StmTypeOK
    <3>3. stmSent' \in Seq(StmFrames)
      BY <1>1, <3>1, <3>2, StmJoin
    <3>4. StmSeen' = StmSeen \o stmOut
      <4>1. (stmGot \o stmSent) \o stmOut = stmGot \o (stmSent \o stmOut)
        <5>1. /\ stmGot \in Seq(StmFrames) /\ stmSent \in Seq(StmFrames)
              /\ stmOut \in Seq(StmFrames)
          BY <1>1, <3>2
        <5> QED BY <5>1, ConcatAssociative
      <4> QED BY <1>0, <3>1, <4>1 DEF StmSeen
    <3>5. StmPlain
      <4>1. stmKind = "exec"
        BY <1>0, <1>7 DEF StmTypeOK, StmRelayBuffered
      <4>2. StmBroken => stmOut = <<"lost">>
        BY <4>1 DEF StmBroken
      <4>3. ~ StmBroken
        BY <2>0, <2>2, <4>2
      <4> QED BY <1>1, <4>3
    <3>6. StmExits' /\ StmHears'
      BY <1>0, <2>0, <2>2, <3>4, <3>5, StmExitGoes
    <3>7. StmTypeOK' /\ StmAt' = "close"
      BY <1>0, <2>0, <3>1, <3>3 DEF StmTypeOK, StmAt
    <3> QED BY <1>4, <3>6, <3>7
  <2> QED BY <2>1, <2>2
<1> QED BY <1>6, <1>7

\* The tunnel's response pump.
LEMMA StmPumpInv ==
  ASSUME StmInv, StmPump
  PROVE  StmInv'
<1>0. /\ stmKind = "tunnel" /\ stmStage = "relay" /\ stmOut # <<>> /\ stmOut' = Tail(stmOut)
      /\ UNCHANGED <<stmKind, stmThen, stmGuest, stmMade, stmHalf, stmSent, stmOld, stmRead, stmGot,
                     stmClient>>
      /\ StmSeen' = StmSeen
  BY DEF StmPump, StmWire, StmSeen
<1>1. /\ StmAt = "relay" /\ StmTypeOK /\ stmOut \in Seq(StmFrames) /\ stmPiped \in Seq(StmFrames)
      /\ Head(stmOut) = stmOut[1] /\ Len(stmOut) \in Nat \ {0} /\ DOMAIN stmOut = 1..Len(stmOut)
      /\ \A i \in DOMAIN StmSeen : StmSeen[i] # "exit"
      /\ Head(stmOut) \in {"data", "exit"} => StmPlain
      /\ Head(stmOut) \notin {"data", "exit"} => StmBroken
      /\ Head(stmOut) = "exit" => stmOut = <<"exit">> /\ stmGuest = "exited"
  BY <1>0, StmRelaying
<1>2. Tail(stmOut) \in Seq(StmFrames) /\ StmSeen \in Seq(StmFrames) /\ StmSeen \o stmPiped \in Seq(StmFrames)
  BY <1>0, <1>1, StmFront, StmSeenType
<1>3. StmExits' /\ StmReadWhole'
  BY <1>0 DEF StmInv, StmExits, StmReadWhole
<1>4. stmGuest # "idle"
  BY <1>1 DEF StmInv, StmIdle
<1>5. CASE Head(stmOut) \in {"data", "exit"}
  <2>0. "data" \in StmFrames /\ "exit" \in StmFrames /\ "close" \in StmFrames
    BY DEF StmFrames
  <2>1. PICK x \in {"data", "close"} :
          /\ stmPiped' = Append(stmPiped, x) /\ stmStage' = stmStage
          /\ Head(stmOut) = IF x = "data" THEN "data" ELSE "exit"
    <3>1. CASE Head(stmOut) = "data"
      BY <3>1 DEF StmPump
    <3>2. CASE Head(stmOut) = "exit"
      <4>1. stmPiped' = Append(stmPiped, "close") /\ stmStage' = stmStage
        BY <3>2, Zenon DEF StmPump
      <4> QED BY <3>2, <4>1
    <3> QED BY <1>5, <3>1, <3>2
  <2>2. /\ x \in StmFrames /\ stmPiped' \in Seq(StmFrames) /\ Len(stmPiped') = Len(stmPiped) + 1
        /\ Len(stmPiped) \in Nat /\ DOMAIN stmPiped = 1..Len(stmPiped)
        /\ DOMAIN stmPiped' = 1..(Len(stmPiped) + 1)
        /\ (\A i \in 1..Len(stmPiped) : stmPiped'[i] = stmPiped[i]) /\ stmPiped'[Len(stmPiped) + 1] = x
    <3>1. x \in StmFrames
      BY <2>0
    <3> QED BY <1>1, <2>1, <3>1, StmAppend
  <2>3. StmTypeOK' /\ StmAt' = "relay"
    BY <1>0, <1>1, <1>2, <2>1, <2>2 DEF StmTypeOK, StmAt
  <2>4. \A i \in DOMAIN stmPiped : stmPiped[i] = "data"
    BY <1>0, <1>1, <1>5 DEF StmInv, StmPipe, StmPlain
  <2>5. StmPipe'
    <3>1. x = "close" => stmGuest' = "exited" /\ stmOut' = <<>>
      <4>1. ASSUME x = "close" PROVE stmGuest' = "exited" /\ stmOut' = <<>>
        <5>1. stmOut = <<"exit">> /\ stmGuest = "exited"
          BY <1>1, <2>1, <4>1
        <5>2. Tail(<<"exit">>) = <<>>
          OBVIOUS
        <5> QED BY <1>0, <5>1, <5>2
      <4> QED BY <4>1
    <3>2. ASSUME NEW i \in DOMAIN stmPiped'
          PROVE  /\ stmPiped'[i] \in {"data", "close"}
                 /\ stmPiped'[i] = "close" =>
                      i = Len(stmPiped') /\ (stmGuest' = "lost" \/ (stmGuest' = "exited" /\ stmOut' = <<>>))
      <4>1. CASE i \in 1..Len(stmPiped)
        BY <2>2, <2>4, <4>1
      <4>2. CASE i = Len(stmPiped) + 1
        BY <2>1, <2>2, <3>1, <4>2
      <4> QED BY <2>2, <4>1, <4>2
    <3> QED BY <1>0, <3>2 DEF StmPipe
  <2>6. StmCount(StmLine', "data") = stmMade'
    <3>1. PICK p : p = StmSeen \o stmPiped
      OBVIOUS
    <3>2. p \in Seq(StmFrames) /\ StmSeen \o stmPiped' = Append(p, x)
      BY <1>1, <1>2, <2>1, <2>2, <3>1, StmMovesOn
    <3>3. StmLine = p \o stmOut /\ StmLine' = Append(p, x) \o Tail(stmOut)
      BY <1>0, <3>1, <3>2 DEF StmLine, StmBehind
    <3>4. StmCount(StmLine, "data") = stmMade
      BY <1>1, <1>5 DEF StmPlain
    <3>5. CASE x = "data"
      <4>1. Append(p, Head(stmOut)) \o Tail(stmOut) = p \o stmOut
        BY <1>0, <1>1, <3>2, StmMovesOn
      <4> QED BY <1>0, <2>1, <3>3, <3>4, <3>5, <4>1
    <3>6. CASE x = "close"
      <4>1. stmOut = <<"exit">>
        BY <1>1, <2>1, <3>6
      <4>2. Tail(<<"exit">>) = <<>>
        OBVIOUS
      <4>3. Append(p, "close") \in Seq(StmFrames)
        BY <2>0, <3>2, StmAppend
      <4>4. StmLine' = Append(p, "close")
        BY <3>3, <3>6, <4>1, <4>2, <4>3, ConcatEmptySeq
      <4>5. StmLine = Append(p, "exit")
        BY <2>0, <3>2, <3>3, <4>1, AppendIsConcat
      <4>6. StmCount(Append(p, "close"), "data") = StmCount(p, "data")
        BY <2>0, <3>2, StmCountAppend
      <4>7. StmCount(Append(p, "exit"), "data") = StmCount(p, "data")
        BY <2>0, <3>2, StmCountAppend
      <4> QED BY <1>0, <3>4, <4>4, <4>5, <4>6, <4>7
    <3> QED BY <3>5, <3>6
  <2>7. StmPlain'
    BY <1>0, <1>1, <1>5, <2>6, StmPlainTail
  <2>8. StmFlow'
    BY <1>0, <1>1, <2>7 DEF StmFlow
  <2>9. StmIdle' /\ StmEnds'
    BY <1>0, <1>4, <2>3 DEF StmIdle, StmEnds, StmEarly
  <2> QED BY <1>3, <2>3, <2>5, <2>8, <2>9 DEF StmInv
<1>6. CASE Head(stmOut) \notin {"data", "exit"}
  <2>1. stmStage' = "done" /\ stmPiped' = stmPiped /\ StmAt' = "done"
    BY <1>6 DEF StmPump, StmAt
  <2>2. stmGuest = "lost"
    BY <1>0, <1>1, <1>6 DEF StmBroken
  <2>3. StmTypeOK'
    BY <1>0, <1>1, <1>2, <2>1 DEF StmTypeOK
  <2>4. StmFlow' /\ StmIdle' /\ StmEnds'
    BY <1>0, <2>1, <2>2 DEF StmFlow, StmIdle, StmEnds, StmLive, StmEarly
  <2>5. StmPipe'
    BY <1>0, <2>1, <2>2 DEF StmInv, StmPipe
  <2> QED BY <1>3, <2>3, <2>4, <2>5 DEF StmInv
<1> QED BY <1>5, <1>6

\* The tunnel's flush pump.
LEMMA StmFlushInv ==
  ASSUME StmInv, StmFlush
  PROVE  StmInv'
<1>0. /\ stmKind = "tunnel" /\ stmStage = "relay" /\ StmAt = "relay" /\ stmPiped # <<>>
      /\ UNCHANGED <<stmKind, stmThen, stmOld, stmRead, stmGot, stmClient, stmGuest, stmMade, stmOut>>
      /\ stmCut' = stmCut /\ StmTypeOK /\ StmReadWhole'
  BY DEF StmFlush, StmWire, StmGuestSide, StmAt, StmInv, StmReadWhole
<1>1. CASE stmClient = "gone"
  <2>1. stmStage' = "done" /\ UNCHANGED <<stmPiped, stmSent>>
    BY <1>1 DEF StmFlush
  <2>2. StmSeen' = StmSeen /\ StmAt' = "done" /\ StmTypeOK'
    BY <1>0, <2>1 DEF StmSeen, StmAt, StmTypeOK
  <2> QED BY <1>0, <1>1, <2>1, <2>2, StmQuietInv DEF StmLive, StmEarly
<1>2. CASE stmClient # "gone"
  <2>0. /\ stmPiped \in Seq(StmFrames) /\ stmSent \in Seq(StmFrames)
        /\ stmGot \in Seq(StmFrames) /\ stmOut \in Seq(StmFrames)
    BY <1>0 DEF StmTypeOK
  <2>1. /\ stmSent' = Append(stmSent, Head(stmPiped)) /\ stmPiped' = Tail(stmPiped)
        /\ stmStage' = IF Head(stmPiped) = "close" THEN "done" ELSE stmStage
    BY <1>2 DEF StmFlush
  <2>2. /\ Head(stmPiped) \in StmFrames /\ Head(stmPiped) = stmPiped[1] /\ Tail(stmPiped) \in Seq(StmFrames)
        /\ Len(stmPiped) \in Nat \ {0} /\ Len(Tail(stmPiped)) = Len(stmPiped) - 1
        /\ DOMAIN stmPiped = 1..Len(stmPiped) /\ DOMAIN Tail(stmPiped) = 1..(Len(stmPiped) - 1)
        /\ \A i \in 1..(Len(stmPiped) - 1) : Tail(stmPiped)[i] = stmPiped[i + 1]
    BY <1>0, <2>0, StmFront
  <2>3. /\ Head(stmPiped) \in {"data", "close"}
        /\ Head(stmPiped) = "close" =>
             Len(stmPiped) = 1 /\ (stmGuest = "lost" \/ (stmGuest = "exited" /\ stmOut = <<>>))
    BY <2>2 DEF StmInv, StmPipe
  <2>4. PICK x : x = Head(stmPiped)
    OBVIOUS
  <2>5. x \in StmFrames /\ x \in {"data", "close"} /\ x # "exit" /\ "data" \in StmFrames
    BY <2>2, <2>3, <2>4 DEF StmFrames
  <2>6. StmSeen' = Append(StmSeen, x) /\ stmSent' \in Seq(StmFrames) /\ StmSeen \in Seq(StmFrames)
    <3>1. stmGot \o Append(stmSent, x) = Append(stmGot \o stmSent, x)
      BY <2>0, <2>5, StmMovesOn
    <3> QED BY <1>0, <2>0, <2>1, <2>4, <2>5, <3>1, StmAppend, StmSeenType DEF StmSeen
  <2>7. StmTypeOK' /\ StmAt' = IF x = "close" THEN "done" ELSE "relay"
    BY <1>0, <2>1, <2>2, <2>4, <2>6 DEF StmTypeOK, StmAt
  <2>8. StmExits'
    BY <1>0, <2>5, <2>6, StmExitsKept DEF StmInv
  <2>9. StmPipe'
    <3>1. ASSUME NEW i \in DOMAIN stmPiped'
          PROVE  /\ stmPiped'[i] \in {"data", "close"}
                 /\ stmPiped'[i] = "close" =>
                      i = Len(stmPiped') /\ (stmGuest' = "lost" \/ (stmGuest' = "exited" /\ stmOut' = <<>>))
      <4>1. i + 1 \in DOMAIN stmPiped /\ stmPiped'[i] = stmPiped[i + 1] /\ Len(stmPiped') = Len(stmPiped) - 1
        BY <2>1, <2>2
      <4>2. /\ stmPiped[i + 1] \in {"data", "close"}
            /\ stmPiped[i + 1] = "close" =>
                 i + 1 = Len(stmPiped) /\ (stmGuest = "lost" \/ (stmGuest = "exited" /\ stmOut = <<>>))
        BY <4>1 DEF StmInv, StmPipe
      <4> QED BY <1>0, <2>1, <2>2, <4>1, <4>2
    <3> QED BY <1>0, <3>1 DEF StmPipe
  <2>10. StmIdle'
    BY <1>0, <2>7 DEF StmInv, StmIdle, StmEarly
  <2>11. StmLine' = StmLine
    <3>1. Append(StmSeen, x) \o Tail(stmPiped) = StmSeen \o stmPiped
      BY <1>0, <2>0, <2>4, <2>6, StmMovesOn
    <3> QED BY <1>0, <2>1, <2>6, <3>1 DEF StmLine, StmBehind
  <2>12. (\A i \in DOMAIN StmSeen : StmSeen[i] # "exit") /\ (StmBroken \/ StmPlain)
    BY <1>0 DEF StmInv, StmFlow, StmLive
  <2>13. StmFlow'
    <3>1. StmBroken' <=> StmBroken
      BY <1>0 DEF StmBroken
    <3>2. StmPlain' <=> StmPlain
      BY <1>0, <2>11 DEF StmPlain
    <3>3. \A i \in DOMAIN StmSeen' : StmSeen'[i] # "exit"
      BY <2>5, <2>6, <2>12, StmAppend
    <3> QED BY <2>12, <3>1, <3>2, <3>3 DEF StmFlow
  <2>14. StmEnds'
    <3>1. CASE x = "data"
      BY <1>0, <2>7, <3>1 DEF StmEnds
    <3>2. CASE x = "close"
      <4>1. CASE stmGuest = "lost"
        BY <1>0, <4>1 DEF StmEnds
      <4>2. CASE stmGuest = "exited" /\ stmOut = <<>>
        <5>1. StmPlain
          BY <2>12, <4>2 DEF StmBroken
        <5>2. StmCount(StmLine, "data") = stmMade
          BY <5>1 DEF StmPlain
        <5>3. StmLine' = StmSeen'
          <6>1. PICK s : s = StmSeen'
            OBVIOUS
          <6>2. s \in Seq(StmFrames)
            BY <2>5, <2>6, <6>1, StmAppend
          <6>3. stmPiped' = <<>>
            <7>1. stmPiped' \in Seq(StmFrames) /\ Len(stmPiped') = 0
              BY <2>1, <2>2, <2>3, <2>4, <3>2
            <7> QED BY <7>1, EmptySeq
          <6>4. (s \o <<>>) \o <<>> = s
            BY <6>2, ConcatEmptySeq
          <6> QED BY <1>0, <4>2, <6>1, <6>3, <6>4 DEF StmLine, StmBehind
        <5>4. StmCount(StmSeen', "data") = stmMade'
          BY <1>0, <2>11, <5>2, <5>3
        <5> QED BY <1>0, <4>2, <5>4 DEF StmEnds
      <4> QED BY <2>3, <2>4, <3>2, <4>1, <4>2
    <3> QED BY <2>5, <3>1, <3>2
  <2> QED BY <1>0, <2>7, <2>8, <2>9, <2>10, <2>13, <2>14 DEF StmInv
<1> QED BY <1>1, <1>2

\* A session starts with the invariant.
LEMMA StmInitInv == StmInit => StmInv
<1> SUFFICES ASSUME StmInit PROVE StmInv
  OBVIOUS
<1>1. <<>> \in Seq(StmFrames) /\ DOMAIN <<>> = {} /\ <<>> \o <<>> = <<>>
  <2>1. <<>> \in Seq(StmFrames) /\ Len(<<>>) = 0
    BY EmptySeq
  <2>2. DOMAIN <<>> = 1..0
    BY <2>1, LenProperties
  <2> QED BY <2>1, <2>2, ConcatEmptySeq
<1>2. StmSeen = <<>> /\ StmLine = <<>> /\ StmAt = "first"
  BY <1>1 DEF StmInit, StmSeen, StmLine, StmBehind, StmAt
<1>3. StmCount(<<>>, "data") = 0
  <2>1. {i \in DOMAIN <<>> : <<>>[i] = "data"} = {}
    BY <1>1
  <2> QED BY <2>1, FS_EmptySet DEF StmCount
<1>4. StmTypeOK
  BY <1>1 DEF StmInit, StmTypeOK, StmLive, StmEarly
<1>5. StmFlow
  BY <1>1, <1>2, <1>3 DEF StmInit, StmFlow, StmPlain
<1>6. StmPipe /\ StmIdle /\ StmExits /\ StmEnds
  BY <1>1, <1>2 DEF StmInit, StmPipe, StmIdle, StmExits, StmEnds
<1>7. StmReadWhole
  BY DEF StmInit, StmReadWhole, StmNoRead
<1> QED BY <1>4, <1>5, <1>6, <1>7 DEF StmInv

\* Every step of a session keeps the invariant.
LEMMA StmNextInv == StmInv /\ [StmNext]_stmVars => StmInv'
<1> SUFFICES ASSUME StmInv, [StmNext]_stmVars PROVE StmInv'
  OBVIOUS
<1>1. CASE \/ \E f \in {"start", "bad", "control", "none"} : StmFirst(f)
           \/ \E ok \in BOOLEAN : StmPolicy(ok)
           \/ \E ok, old \in BOOLEAN : StmConnect(ok, old)
  BY <1>1, StmOpenInv
<1>2. CASE \E ok \in BOOLEAN : StmLaunch(ok) \/ StmTunnel(ok)
  BY <1>2, StmLaunchInv
<1>3. CASE StmFlushed \/ StmPart \/ StmShellLeft \/ StmTunnelLeft \/ StmReceive \/ StmLeave
  BY <1>3, StmIdleSteps
<1>4. CASE StmGuestWrites \/ StmGuestExits \/ StmGuestLost \/ StmInput
  BY <1>4, StmGuestInv
<1>11. CASE StmInputFails
  BY <1>11, StmInputFailsInv
<1>5. CASE StmRelay \/ StmRelayBuffered
  BY <1>5, StmRelayInv
<1>6. CASE StmTimeout \/ StmClose
  BY <1>6, StmCloseInv
<1>7. CASE StmPump
  BY <1>7, StmPumpInv
<1>8. CASE StmFlush
  BY <1>8, StmFlushInv
<1>9. CASE \E rest, ceiling \in 0..StmMaxFile, len \in (-1)..StmMaxFile, sized \in BOOLEAN :
             StmReadFile(rest, len, ceiling, sized)
  BY <1>9, StmReadInv
<1>10. CASE UNCHANGED stmVars
  <2>1. StmSeen' = StmSeen /\ StmAt' = StmAt
    BY <1>10 DEF stmVars, StmSeen, StmAt
  <2>2. StmTypeOK' /\ StmReadWhole'
    BY <1>10 DEF stmVars, StmInv, StmTypeOK, StmReadWhole
  <2> QED BY <1>10, <2>1, <2>2, StmQuietInv DEF stmVars
<1> QED
  BY <1>1, <1>2, <1>3, <1>4, <1>5, <1>6, <1>7, <1>8, <1>9, <1>10, <1>11 DEF StmNext

\* The invariant says that a client that stays is told all there is.
LEMMA StmInvSound == StmInv => StmSound
<1> SUFFICES ASSUME StmInv PROVE StmTold /\ StmReadWhole
  BY DEF StmSound
<1>0. /\ StmTypeOK /\ stmGot \in Seq(StmFrames) /\ stmSent \in Seq(StmFrames)
  BY DEF StmInv, StmTypeOK
<1>1. ASSUME NEW i \in DOMAIN stmGot, stmGot[i] = "exit"
      PROVE  StmCount(SubSeq(stmGot, 1, i), "data") = stmMade
  <2>1. /\ DOMAIN stmGot = 1..Len(stmGot) /\ Len(stmGot) \in Nat
        /\ DOMAIN StmSeen = 1..(Len(stmGot) + Len(stmSent))
        /\ Len(stmSent) \in Nat /\ \A j \in 1..Len(stmGot) : StmSeen[j] = stmGot[j]
    BY <1>0, StmJoin DEF StmSeen
  <2>2. i \in Nat /\ i >= 1 /\ i <= Len(stmGot) /\ i \in DOMAIN StmSeen /\ StmSeen[i] = "exit"
    BY <1>1, <2>1
  <2>3. StmTo(StmSeen, i, "data") = stmMade
    BY <2>2 DEF StmInv, StmExits
  <2>4. PICK p : p = SubSeq(stmGot, 1, i)
    OBVIOUS
  <2>5. p \in Seq(StmFrames) /\ Len(p) = i /\ \A j \in 1..i : p[j] = stmGot[j]
    <3>1. \A j \in 1..i : stmGot[j] \in StmFrames
      BY <1>0, <2>1, <2>2, ElementOfSeq
    <3>2. /\ SubSeq(stmGot, 1, i) \in Seq(StmFrames)
          /\ Len(SubSeq(stmGot, 1, i)) = (IF 1 <= i THEN i - 1 + 1 ELSE 0)
          /\ \A j \in 1..(i - 1 + 1) : SubSeq(stmGot, 1, i)[j] = stmGot[1 + j - 1]
      BY <2>2, <3>1, SubSeqProperties
    <3> QED BY <2>2, <2>4, <3>2
  <2>6. StmCount(p, "data") = StmTo(p, i, "data")
    BY <2>5, StmCountTo
  <2>7. \A j \in 1..i : p[j] = StmSeen[j]
    BY <2>1, <2>2, <2>5
  <2>8. StmTo(p, i, "data") = StmTo(StmSeen, i, "data")
    BY <2>2, <2>7, StmToSame
  <2> QED BY <2>3, <2>4, <2>6, <2>8
<1>2. ASSUME stmStage = "done", stmClient = "up", stmSent = <<>>
      PROVE  /\ stmKind \in {"exec", "shell"} =>
                  (\E f \in {"exit", "error"} : StmCount(stmGot, f) > 0) \/ StmUntold
             /\ stmKind = "exec" => Last(stmGot) = "close"
             /\ stmKind = "tunnel" /\ stmGuest = "exited" => StmCount(stmGot, "data") = stmMade
  <2>1. StmSeen = stmGot /\ StmAt = "done"
    BY <1>0, <1>2, ConcatEmptySeq DEF StmSeen, StmAt
  <2>2. /\ stmKind \in {"exec", "shell"} =>
             (\E i \in DOMAIN stmGot : stmGot[i] \in {"exit", "error"}) \/ StmUntold
        /\ stmKind = "exec" => stmGot[Len(stmGot)] = "close"
        /\ stmKind = "tunnel" /\ stmGuest = "exited" => StmCount(stmGot, "data") = stmMade
    BY <1>2, <2>1 DEF StmInv, StmEnds, StmHears
  <2>3. ASSUME NEW i \in DOMAIN stmGot, NEW f, stmGot[i] = f PROVE StmCount(stmGot, f) > 0
    <3>1. StmCount(stmGot, f) \in Nat
      BY <1>0, StmCountTo
    <3>2. DOMAIN stmGot = 1..Len(stmGot) /\ Len(stmGot) \in Nat
      BY <1>0, LenProperties
    <3>3. PICK B : B = {j \in 1..Len(stmGot) : stmGot[j] = f}
      OBVIOUS
    <3>4. IsFiniteSet(B) /\ i \in B /\ Cardinality(B) = StmCount(stmGot, f)
      <4>1. IsFiniteSet({j \in 1..Len(stmGot) : stmGot[j] = f})
        BY <3>2, StmFinite
      <4>2. StmCount(stmGot, f) = Cardinality({j \in 1..Len(stmGot) : stmGot[j] = f})
        BY <3>2 DEF StmCount
      <4> QED BY <2>3, <3>2, <3>3, <4>1, <4>2
    <3>5. Cardinality(B) # 0
      BY <3>4, FS_EmptySet
    <3> QED BY <3>1, <3>4, <3>5
  <2> QED BY <2>2, <2>3 DEF Last
<1>3. StmTold
  BY <1>1, <1>2 DEF StmTold
<1> QED BY <1>3 DEF StmInv
=============================================================================
