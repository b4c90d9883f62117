----------------------------- MODULE NamedStores ----------------------------
(***************************************************************************)
(* What the daemon keeps under a name beside its VMs: a volume (volumes.rs, *)
(* with the triggers of husker-state that guard it), a snapshot             *)
(* (snapshots.rs), the secrets and their key file (secrets.rs) and a pool   *)
(* with its template VM (pools.rs).  Row and file change in separate steps; *)
(* only the volume has a lock of its own.                                   *)
(***************************************************************************)
EXTENDS Integers, FiniteSets

CONSTANTS
  StoCallers,    \* concurrent requests
  StoMaxOps,     \* bound on requests
  StoMaxCrashes  \* bound on crashes

VARIABLES
  stoVolume,   \* row (id or 0), file, the VM rows that name it
  stoSnap,     \* row (id or 0), whose clone the file is, the rows being deleted
  stoSecret,   \* key file, and the key each secret row was sealed with
  stoPool,     \* pool row, template VM row, its files
  stoTask,     \* what each request is doing
  stoFresh,    \* next fresh id
  stoCount,    \* requests and crashes so far
  stoTorn      \* what an unlocked interleaving tore: "snapshot", "template"

stoVars == <<stoVolume, stoSnap, stoSecret, stoPool, stoTask, stoFresh, stoCount, stoTorn>>

StoIdle == [op |-> "none", id |-> 0]
StoTask(op, id) == [op |-> op, id |-> id]
StoSets(c, op, id) == stoTask' = [stoTask EXCEPT ![c] = StoTask(op, id)]
StoEnds(c) == stoTask' = [stoTask EXCEPT ![c] = StoIdle]
StoAt(c, op) == stoTask[c].op = op
StoBegins(c) == /\ StoAt(c, "none") /\ stoCount.ops < StoMaxOps
                /\ stoCount' = [stoCount EXCEPT !.ops = @ + 1]
StoTakesId == stoFresh' = stoFresh + 1

StoInit ==
  /\ stoVolume = [row |-> 0, file |-> "none", holders |-> {}]
  /\ stoSnap = [row |-> 0, file |-> 0, doomed |-> {}]
  /\ stoSecret = [key |-> 0, rows |-> {}]
  /\ stoPool = [row |-> 0, template |-> 0, state |-> "none", files |-> FALSE]
  /\ stoTask = [c \in StoCallers |-> StoIdle]
  /\ stoFresh = 1 /\ stoCount = [ops |-> 0, crashes |-> 0] /\ stoTorn = {}

(***************************************************************************)
(* A volume.  Its lock is held by a create, a delete and a VM creation that *)
(* attaches it, from the resolve to the commit of the VM's row.             *)
(***************************************************************************)

StoNotVolume == UNCHANGED <<stoSnap, stoSecret, stoPool, stoTorn>>
StoVolumeOps == {"format", "insert volume", "boot", "unlink volume"}

\* Mutant: the volume's lock is not taken.
StoVolumeFreeAlways == TRUE

StoVolumeFree == \A c \in StoCallers : stoTask[c].op \notin StoVolumeOps

\* create_volume: no row, and create_new on the image.
StoCreateVolume(c) ==
  /\ StoBegins(c) /\ StoVolumeFree /\ stoVolume.row = 0
  /\ IF stoVolume.file = "none"
     THEN stoVolume' = [stoVolume EXCEPT !.file = "blank"] /\ StoSets(c, "format", 0)
     ELSE UNCHANGED <<stoVolume, stoTask>>
  /\ UNCHANGED stoFresh /\ StoNotVolume

StoFormat(c, ok) ==
  /\ StoAt(c, "format")
  /\ stoVolume' = [stoVolume EXCEPT !.file = IF ok THEN "whole" ELSE "none"]
  /\ IF ok THEN StoSets(c, "insert volume", 0) ELSE StoEnds(c)
  /\ UNCHANGED <<stoFresh, stoCount>> /\ StoNotVolume

StoInsertVolume(c, ok) ==
  /\ StoAt(c, "insert volume") /\ StoEnds(c)
  /\ IF ok THEN stoVolume' = [stoVolume EXCEPT !.row = stoFresh] /\ StoTakesId
     ELSE stoVolume' = [stoVolume EXCEPT !.file = "none"] /\ UNCHANGED stoFresh
  /\ UNCHANGED stoCount /\ StoNotVolume

\* resolve_volume_attachment: row, file, no holder.
StoAttach(c) ==
  /\ StoBegins(c) /\ StoVolumeFree
  /\ stoVolume.row # 0 /\ stoVolume.file # "none" /\ stoVolume.holders = {}
  /\ StoSets(c, "boot", stoFresh) /\ StoTakesId
  /\ UNCHANGED stoVolume /\ StoNotVolume

\* insert_vm_on checks both again in its transaction; a failed one rolls back.
StoCommitVm(c, ok) ==
  /\ StoAt(c, "boot") /\ StoEnds(c)
  /\ stoVolume' = IF ok /\ stoVolume.row # 0 /\ stoVolume.holders = {}
                  THEN [stoVolume EXCEPT !.holders = {stoTask[c].id}] ELSE stoVolume
  /\ UNCHANGED <<stoFresh, stoCount>> /\ StoNotVolume

StoDestroyVm(v) ==
  /\ v \in stoVolume.holders
  /\ stoVolume' = [stoVolume EXCEPT !.holders = @ \ {v}]
  /\ UNCHANGED <<stoTask, stoFresh, stoCount>> /\ StoNotVolume

\* delete_unattached_volume_by_name, then the file on a best effort.
StoDeleteVolume(c) ==
  /\ StoBegins(c) /\ StoVolumeFree /\ stoVolume.row # 0 /\ stoVolume.holders = {}
  /\ stoVolume' = [stoVolume EXCEPT !.row = 0]
  /\ StoSets(c, "unlink volume", 0)
  /\ UNCHANGED stoFresh /\ StoNotVolume

StoUnlinkVolume(c, ok) ==
  /\ StoAt(c, "unlink volume") /\ StoEnds(c)
  /\ stoVolume' = IF ok THEN [stoVolume EXCEPT !.file = "none"] ELSE stoVolume
  /\ UNCHANGED <<stoFresh, stoCount>> /\ StoNotVolume

(***************************************************************************)
(* A snapshot: no lock on its name.                                         *)
(***************************************************************************)

StoNotSnap == UNCHANGED <<stoVolume, stoSecret, stoPool>>

\* create_snapshot clones the disk (never over a file that exists) ...
StoCloneSnapshot(c) ==
  /\ StoBegins(c)
  /\ IF stoSnap.file = 0
     THEN /\ stoSnap' = [stoSnap EXCEPT !.file = stoFresh]
          /\ StoSets(c, "insert snapshot", stoFresh) /\ StoTakesId
     ELSE UNCHANGED <<stoSnap, stoTask, stoFresh>>
  /\ UNCHANGED stoTorn /\ StoNotSnap

\* ... and inserts its row; when the name has one, its clone goes again.
StoInsertSnapshot(c) ==
  /\ StoAt(c, "insert snapshot")
  /\ IF stoSnap.row = 0
     THEN stoSnap' = [stoSnap EXCEPT !.row = stoTask[c].id] /\ StoEnds(c)
     ELSE StoSets(c, "unlink clone", stoTask[c].id) /\ UNCHANGED stoSnap
  /\ UNCHANGED <<stoFresh, stoCount, stoTorn>> /\ StoNotSnap

\* Removing by path: the file may be another request's by now.
StoUnlinked(c) == stoTorn' = IF stoSnap.file \notin {0, stoTask[c].id}
                             THEN stoTorn \union {"snapshot"} ELSE stoTorn

StoUnlinkClone(c) ==
  /\ StoAt(c, "unlink clone") /\ StoEnds(c)
  /\ stoSnap' = [stoSnap EXCEPT !.file = 0]
  /\ StoUnlinked(c)
  /\ UNCHANGED <<stoFresh, stoCount>> /\ StoNotSnap

\* delete_snapshot: read the row, remove the file, delete the row by id.
StoDeleteSnapshot(c) ==
  /\ StoBegins(c) /\ stoSnap.row # 0
  /\ StoSets(c, "unlink snapshot", stoSnap.row)
  /\ UNCHANGED <<stoSnap, stoFresh, stoTorn>> /\ StoNotSnap

StoUnlinkSnapshot(c) ==
  /\ StoAt(c, "unlink snapshot")
  /\ stoSnap' = [stoSnap EXCEPT !.file = 0, !.doomed = @ \union {stoTask[c].id}]
  /\ StoUnlinked(c)
  /\ StoSets(c, "delete snapshot", stoTask[c].id)
  /\ UNCHANGED <<stoFresh, stoCount>> /\ StoNotSnap

StoSnapshotDeleted(c) ==
  /\ StoAt(c, "delete snapshot") /\ StoEnds(c)
  /\ stoSnap' = IF stoSnap.row = stoTask[c].id THEN [stoSnap EXCEPT !.row = 0] ELSE stoSnap
  /\ UNCHANGED <<stoFresh, stoCount, stoTorn>> /\ StoNotSnap

(***************************************************************************)
(* The key file and the secrets sealed with it.                             *)
(***************************************************************************)

StoNotSecret == UNCHANGED <<stoVolume, stoSnap, stoPool, stoTorn>>
StoNoKey == 0
StoShortKey == -1
StoWholeKey == stoSecret.key > 0

\* load_or_create_secret_key: a short file is an error, an absent one is made.
StoLoadKey(c) ==
  /\ StoBegins(c)
  /\ CASE StoWholeKey -> StoSets(c, "seal", stoSecret.key)
       [] stoSecret.key = StoShortKey -> UNCHANGED stoTask
       [] OTHER -> StoSets(c, "new key", 0)
  /\ UNCHANGED <<stoSecret, stoFresh>> /\ StoNotSecret

\* create_new: the loser reads what the winner has written so far.
StoNewKey(c) ==
  /\ StoAt(c, "new key")
  /\ CASE stoSecret.key = StoNoKey -> /\ stoSecret' = [stoSecret EXCEPT !.key = StoShortKey]
                                    /\ StoSets(c, "write key", stoFresh) /\ StoTakesId
       [] stoSecret.key = StoShortKey -> StoEnds(c) /\ UNCHANGED <<stoSecret, stoFresh>>
       [] OTHER -> StoSets(c, "seal", stoSecret.key) /\ UNCHANGED <<stoSecret, stoFresh>>
  /\ UNCHANGED stoCount /\ StoNotSecret

StoWriteKey(c, ok) ==
  /\ StoAt(c, "write key")
  /\ IF ok THEN /\ stoSecret' = [stoSecret EXCEPT !.key = stoTask[c].id]
                /\ StoSets(c, "seal", stoTask[c].id)
     ELSE StoEnds(c) /\ UNCHANGED stoSecret
  /\ UNCHANGED <<stoFresh, stoCount>> /\ StoNotSecret

\* create_secret and rotate_secret store what they sealed.
StoSeal(c) ==
  /\ StoAt(c, "seal") /\ StoEnds(c)
  /\ stoSecret' = [stoSecret EXCEPT !.rows = @ \union {stoTask[c].id}]
  /\ UNCHANGED <<stoFresh, stoCount>> /\ StoNotSecret

(***************************************************************************)
(* A pool and its template, the VM of the pool's name.  The VM's own steps  *)
(* hold its name lock; insert_pool does not.                                *)
(***************************************************************************)

StoNotPool == UNCHANGED <<stoVolume, stoSnap, stoSecret>>
StoVmOps == {"remove files", "retire", "restore", "remove template", "retire template"}
StoVmFree == \A c \in StoCallers : stoTask[c].op \notin StoVmOps
StoVmGone(p) == [p EXCEPT !.template = 0, !.state = "none", !.files = FALSE]
StoTore == stoTorn \union {"template"}

\* insert_pool and its triggers: the template is there, suspended, unowned.
StoPoolInsertable(id) ==
  stoPool.row = 0 /\ stoPool.template = id /\ stoPool.state = "suspended"

\* The template is owned: no other operation may change its state.
StoOwned == stoPool.row # 0

\* create_pool boots a VM of the pool's name; a stopped one is replaced.
StoCreatePool(c) ==
  /\ StoBegins(c) /\ StoVmFree /\ ~StoOwned
  /\ stoPool.template = 0 \/ stoPool.state = "stopped"
  /\ stoPool' = [stoPool EXCEPT !.template = stoFresh, !.state = "running", !.files = TRUE]
  /\ StoSets(c, "warm", stoFresh) /\ StoTakesId
  /\ UNCHANGED stoTorn /\ StoNotPool

\* Every later step names the VM, and a failure starts destroy_vm on the VM of
\* that name, which is another's by now or none, or refused as an owned template.
StoRollsBack(c) ==
  /\ IF StoOwned \/ stoPool.template = 0 THEN StoEnds(c)
     ELSE StoSets(c, "remove files", stoPool.template)
  /\ UNCHANGED <<stoPool, stoTorn>>

StoWarm(c, ok) ==
  /\ StoAt(c, "warm") /\ StoVmFree
  /\ IF ok /\ stoPool.state = "running"
     THEN /\ stoPool' = [stoPool EXCEPT !.state = "suspended"]
          /\ StoSets(c, "insert pool", stoTask[c].id) /\ UNCHANGED stoTorn
     ELSE StoRollsBack(c)
  /\ UNCHANGED <<stoFresh, stoCount>> /\ StoNotPool

StoInsertPool(c) ==
  /\ StoAt(c, "insert pool")
  /\ IF StoPoolInsertable(stoTask[c].id)
     THEN /\ stoPool' = [stoPool EXCEPT !.row = stoTask[c].id] /\ StoEnds(c)
          /\ UNCHANGED stoTorn
     ELSE StoVmFree /\ StoRollsBack(c)
  /\ UNCHANGED <<stoFresh, stoCount>> /\ StoNotPool

\* destroy_vm, here by a user: refused for an owned template, checked when it starts
\* and again by retire_vm, with the files removed in between.
StoDestroyTemplate(c) ==
  /\ StoBegins(c) /\ StoVmFree /\ stoPool.template # 0 /\ ~StoOwned
  /\ StoSets(c, "remove files", stoPool.template)
  /\ UNCHANGED <<stoPool, stoFresh, stoTorn>> /\ StoNotPool

StoRemoveFiles(c) ==
  /\ StoAt(c, "remove files") /\ StoSets(c, "retire", stoTask[c].id)
  /\ stoPool' = [stoPool EXCEPT !.files = FALSE]
  /\ stoTorn' = StoTore
  /\ UNCHANGED <<stoFresh, stoCount>> /\ StoNotPool

StoRetire(c) ==
  /\ StoAt(c, "retire") /\ StoEnds(c)
  /\ stoPool' = IF StoOwned THEN stoPool ELSE StoVmGone(stoPool)
  /\ stoTorn' = IF StoOwned THEN StoTore ELSE stoTorn \ {"template"}
  /\ UNCHANGED <<stoFresh, stoCount>> /\ StoNotPool

\* A user's resume: checked when it starts; the trigger refuses the new state.
StoResume(c) ==
  /\ StoBegins(c) /\ StoVmFree /\ stoPool.state = "suspended" /\ ~StoOwned
  /\ StoSets(c, "restore", stoPool.template)
  /\ UNCHANGED <<stoPool, stoFresh, stoTorn>> /\ StoNotPool

StoResumed(c) ==
  /\ StoAt(c, "restore") /\ StoEnds(c)
  /\ IF StoOwned THEN stoTorn' = StoTore /\ UNCHANGED stoPool
     ELSE stoPool' = [stoPool EXCEPT !.state = "running"] /\ UNCHANGED stoTorn
  /\ UNCHANGED <<stoFresh, stoCount>> /\ StoNotPool

\* delete_pool: the template's files, then both rows in one transaction.
StoDeletePool(c) ==
  /\ StoBegins(c) /\ StoVmFree /\ StoOwned
  /\ StoSets(c, "remove template", stoPool.row)
  /\ UNCHANGED <<stoPool, stoFresh, stoTorn>> /\ StoNotPool

StoRemoveTemplate(c, ok) ==
  /\ StoAt(c, "remove template")
  /\ stoPool' = IF ok THEN [stoPool EXCEPT !.files = FALSE] ELSE stoPool
  /\ stoTorn' = IF ok THEN StoTore ELSE stoTorn
  /\ IF ok THEN StoSets(c, "retire template", stoTask[c].id) ELSE StoEnds(c)
  /\ UNCHANGED <<stoFresh, stoCount>> /\ StoNotPool

StoRetireTemplate(c) ==
  /\ StoAt(c, "retire template") /\ StoEnds(c)
  /\ stoPool' = [StoVmGone(stoPool) EXCEPT !.row = 0]
  /\ stoTorn' = stoTorn \ {"template"}
  /\ UNCHANGED <<stoFresh, stoCount>> /\ StoNotPool

\* A crash forgets the requests; a running VM is found stopped (and may be
\* destroyed), a suspended one stays.
StoCrash ==
  /\ stoCount.crashes < StoMaxCrashes
  /\ stoCount' = [stoCount EXCEPT !.crashes = @ + 1]
  /\ stoTask' = [c \in StoCallers |-> StoIdle]
  /\ stoPool' = [stoPool EXCEPT !.state = IF @ = "running" THEN "stopped" ELSE @]
  /\ UNCHANGED <<stoVolume, stoSnap, stoSecret, stoFresh, stoTorn>>

StoNext ==
  \/ \E c \in StoCallers :
       \/ StoCreateVolume(c) \/ StoAttach(c) \/ StoDeleteVolume(c)
       \/ StoCloneSnapshot(c) \/ StoInsertSnapshot(c) \/ StoUnlinkClone(c)
       \/ StoDeleteSnapshot(c) \/ StoUnlinkSnapshot(c) \/ StoSnapshotDeleted(c)
       \/ StoLoadKey(c) \/ StoNewKey(c) \/ StoSeal(c)
       \/ StoCreatePool(c) \/ StoInsertPool(c) \/ StoDestroyTemplate(c)
       \/ StoRemoveFiles(c) \/ StoRetire(c) \/ StoResume(c) \/ StoResumed(c)
       \/ StoDeletePool(c) \/ StoRetireTemplate(c)
       \/ \E ok \in BOOLEAN :
            \/ StoFormat(c, ok) \/ StoInsertVolume(c, ok) \/ StoCommitVm(c, ok)
            \/ StoUnlinkVolume(c, ok) \/ StoWriteKey(c, ok) \/ StoWarm(c, ok)
            \/ StoRemoveTemplate(c, ok)
  \/ \E v \in stoVolume.holders : StoDestroyVm(v)
  \/ StoCrash

\* A catalog volume always has its formatted image, and one that a VM has, or
\* that a running creation is about to attach, cannot lose its row or its file;
\* a snapshot nobody deletes has its own bytes; every secret opens with the one
\* key on disk, so an unfinished key file means no secret was stored; a pool
\* has a suspended template with its files.  The exceptions are what a removal
\* by path or a check before an unlocked insert tears (stoTorn).
StoSound ==
  /\ stoVolume.row # 0 => stoVolume.file = "whole"
  /\ (stoVolume.holders # {} \/ \E c \in StoCallers : StoAt(c, "boot")) => stoVolume.row # 0
  /\ stoSnap.row \notin stoSnap.doomed \union {0} /\ "snapshot" \notin stoTorn =>
       stoSnap.file = stoSnap.row
  /\ stoSecret.rows # {} => stoSecret.rows = {stoSecret.key} /\ StoWholeKey
  /\ stoPool.row # 0 => /\ stoPool.template = stoPool.row /\ stoPool.state = "suspended"
                        /\ "template" \notin stoTorn => stoPool.files
=============================================================================
