---------------------------- MODULE ImageCatalog ----------------------------
(***************************************************************************)
(* The image catalog and the root disks cloned from it (husker-core/src/    *)
(* images.rs, husker-storage/src/lib.rs): import, OCI import, commit of a   *)
(* stopped VM's disk, export and deletion of an image, and the resolve,     *)
(* clone, grow and agent refresh that give a new VM its disk.  A file and   *)
(* its row change in separate steps, and the daemon may die between them.   *)
(***************************************************************************)
EXTENDS Integers, FiniteSets

CONSTANTS
  ImgNames,     \* image names; a name is also its catalog path
  ImgVms,       \* VMs (one disk each)
  ImgSources,   \* host files and OCI references: what they hold
  ImgMaxOps,    \* bound on operations started
  ImgMaxCrashes \* bound on crashes

VARIABLES
  imgRow,    \* catalog rows
  imgFile,   \* catalog files
  imgTask,   \* the operation that holds an image's name lock
  imgDisk,   \* the VMs: disk, provenance and state
  imgClock,  \* created_at: operations are stamped in order
  imgCount   \* operations and crashes so far

imgVars == <<imgRow, imgFile, imgTask, imgDisk, imgClock, imgCount>>

(***************************************************************************)
(* Bytes: what a file was built from, how often a guest wrote it, whether   *)
(* an ext4 journal is pending, which agent it holds, and whether the copy   *)
(* is complete.                                                             *)
(***************************************************************************)

ImgNone == [absent |-> TRUE]
ImgHas(x) == x # ImgNone
ImgBytes(src, writes, pending, agent) ==
  [absent |-> FALSE, from |-> src, writes |-> writes, pending |-> pending,
   agent |-> agent, whole |-> TRUE]
ImgPartial(b) == [b EXCEPT !.whole = FALSE]
ImgData == [absent : {FALSE}, from : {s.from : s \in ImgSources}, writes : Nat,
            pending : BOOLEAN, agent : {"none", "imported", "current"}, whole : BOOLEAN]

\* A source is a whole file; a source that is cut short fails to import.  The
\* parent "none" is that of an imported image.
ASSUME ImgAssumption ==
  (\A s \in ImgSources : s \in ImgData /\ s.whole) /\ "none" \notin ImgNames

\* Mutant: the pending journal is left for the next mount.
ImgReplayedNever(b) == b

\* replay_ext4_journal: a clean image keeps its bytes.
ImgReplayed(b) == [b EXCEPT !.pending = FALSE]

\* A mount replays the journal over what debugfs wrote while it was pending.
ImgMounted(b) == IF b.pending THEN [b EXCEPT !.pending = FALSE, !.agent = "imported"]
                 ELSE b

\* refresh_guest_agent: replay, compare, replace, read back.  It is skipped
\* when the tools cannot run, and leaves an image without an agent alone.
ImgRefreshed(b) == IF b.agent = "none" THEN b ELSE [ImgReplayed(b) EXCEPT !.agent = "current"]

ImgInit ==
  /\ imgRow = [n \in ImgNames |-> ImgNone] /\ imgFile = imgRow
  /\ imgTask = imgRow
  /\ imgDisk = [v \in ImgVms |-> ImgNone]
  /\ imgClock = 1 /\ imgCount = [ops |-> 0, crashes |-> 0]

ImgStarts == /\ imgCount.ops < ImgMaxOps
             /\ imgCount' = [imgCount EXCEPT !.ops = @ + 1]
ImgKeepsCount == UNCHANGED imgCount
ImgFree(n) == ~ImgHas(imgTask[n])
ImgTasked(n, t) == imgTask' = [imgTask EXCEPT ![n] = t]
ImgDone(n) == ImgTasked(n, ImgNone)
ImgPut(n, b) == imgFile' = [imgFile EXCEPT ![n] = b]

(***************************************************************************)
(* import_image and import_oci_image write the final path themselves; one   *)
(* that exists is not theirs to overwrite.                                  *)
(***************************************************************************)

ImgImport(n, src) ==
  /\ ImgFree(n) /\ ImgStarts
  /\ ~ImgHas(imgRow[n]) /\ ~ImgHas(imgFile[n])
  /\ ImgPut(n, ImgPartial(src))
  /\ ImgTasked(n, [op |-> "import", step |-> "writing", bytes |-> src,
                   parent |-> "none", created |-> TRUE])
  /\ UNCHANGED <<imgRow, imgDisk, imgClock>>

ImgWritten(n) ==
  /\ ImgHas(imgTask[n]) /\ imgTask[n].step = "writing"
  /\ ImgPut(n, imgTask[n].bytes)
  /\ ImgTasked(n, [imgTask[n] EXCEPT !.step = "inserting"])
  /\ UNCHANGED <<imgRow, imgDisk, imgClock>> /\ ImgKeepsCount

\* A failed clone, build or digest removes what it wrote.
ImgWriteFails(n) ==
  /\ ImgHas(imgTask[n]) /\ imgTask[n].step = "writing"
  /\ ImgPut(n, ImgNone) /\ ImgDone(n)
  /\ UNCHANGED <<imgRow, imgDisk, imgClock>> /\ ImgKeepsCount

ImgInsert(n) ==
  /\ ImgHas(imgTask[n]) /\ imgTask[n].step = "inserting"
  /\ imgRow' = [imgRow EXCEPT ![n] =
       [absent |-> FALSE, digest |-> imgTask[n].bytes, parent |-> imgTask[n].parent,
        at |-> imgClock]]
  /\ imgClock' = imgClock + 1
  /\ ImgDone(n)
  /\ UNCHANGED <<imgFile, imgDisk>> /\ ImgKeepsCount

\* insert_image failed: the file goes again, unless it was adopted.
ImgInsertFails(n) ==
  /\ ImgHas(imgTask[n]) /\ imgTask[n].step = "inserting"
  /\ ImgPut(n, IF imgTask[n].created THEN ImgNone ELSE imgFile[n])
  /\ ImgDone(n)
  /\ UNCHANGED <<imgRow, imgDisk, imgClock>> /\ ImgKeepsCount

(***************************************************************************)
(* commit_vm_image, under the VM's and the image's lock.                    *)
(***************************************************************************)

\* The VM's parent: the catalog image at its rootfs path, not newer than it.
ImgParent(v) == {p \in ImgNames : /\ p = imgDisk[v].path /\ ImgHas(imgRow[p])
                                  /\ imgRow[p].at <= imgDisk[v].at}

ImgCommit(v, n) ==
  /\ ImgFree(n) /\ ImgStarts
  /\ ImgHas(imgDisk[v]) /\ imgDisk[v].state = "stopped" /\ ~imgDisk[v].cloud
  /\ ImgParent(v) # {}
  /\ LET b == ImgReplayed(imgDisk[v].bytes) IN
     /\ imgDisk' = [imgDisk EXCEPT ![v].bytes = b]
     /\ IF ImgHas(imgRow[n]) \/ (ImgHas(imgFile[n]) /\ imgFile[n] # b)
        THEN UNCHANGED <<imgTask, imgFile>>  \* the same image again, or refused
        ELSE /\ ImgPut(n, b)                 \* renamed into place, or adopted
             /\ ImgTasked(n, [op |-> "commit", step |-> "inserting", bytes |-> b,
                              parent |-> imgDisk[v].path,
                              created |-> ~ImgHas(imgFile[n])])
  /\ UNCHANGED <<imgRow, imgClock>>

(***************************************************************************)
(* delete_image: the file, then the row.                                    *)
(***************************************************************************)

ImgDelete(n) ==
  /\ ImgFree(n) /\ ImgStarts /\ ImgHas(imgRow[n])
  /\ ImgPut(n, ImgNone)
  /\ ImgTasked(n, [op |-> "delete", step |-> "unlinked", bytes |-> imgRow[n].digest,
                   parent |-> "none", created |-> FALSE])
  /\ UNCHANGED <<imgRow, imgDisk, imgClock>>

ImgDeleted(n, removed) ==
  /\ ImgHas(imgTask[n]) /\ imgTask[n].step = "unlinked"
  /\ imgRow' = IF removed THEN [imgRow EXCEPT ![n] = ImgNone] ELSE imgRow
  /\ ImgDone(n)
  /\ UNCHANGED <<imgFile, imgDisk, imgClock>> /\ ImgKeepsCount

(***************************************************************************)
(* A new VM's disk.  Creation reads the row and clones the file later,      *)
(* without the image's lock.                                                *)
(***************************************************************************)

ImgResolve(v, n, cloud) ==
  /\ ~ImgHas(imgDisk[v]) /\ ImgStarts /\ ImgHas(imgRow[n])
  /\ imgDisk' = [imgDisk EXCEPT ![v] =
       [absent |-> FALSE, state |-> "resolved", path |-> n, resolved |-> imgRow[n].at,
        bytes |-> imgRow[n].digest, cloned |-> ImgNone, outcome |-> "none",
        cloud |-> cloud, at |-> 0]]
  /\ UNCHANGED <<imgRow, imgFile, imgTask, imgClock>>

ImgCloneable(v) == ImgHas(imgDisk[v]) /\ imgDisk[v].state = "resolved" /\
                   ImgHas(imgFile[imgDisk[v].path])

\* clone_rootfs; prepare_cloud_disk validates the qcow2 header first.
ImgClone(v) ==
  /\ ImgCloneable(v)
  /\ imgDisk' = [imgDisk EXCEPT ![v].bytes = imgFile[imgDisk[v].path],
                                ![v].cloned = imgFile[imgDisk[v].path],
                                ![v].state = "cloned"]
  /\ UNCHANGED <<imgRow, imgFile, imgTask, imgClock>> /\ ImgKeepsCount

\* prepare_root_disk: offline growth (whose e2fsck replays the journal) and
\* the agent; prepare_cloud_disk only resizes.  Nothing asks whether the copy
\* is complete: validate_rootfs only wants the file to exist.
ImgPrepare(v, grow, outcome) ==
  /\ ImgHas(imgDisk[v]) /\ imgDisk[v].state = "cloned"
  /\ LET grown == IF grow /\ ~imgDisk[v].cloud THEN ImgReplayed(imgDisk[v].bytes)
                  ELSE imgDisk[v].bytes
         refreshed == IF outcome = "refreshed" /\ ~imgDisk[v].cloud
                      THEN ImgRefreshed(grown) ELSE grown IN
     imgDisk' = [imgDisk EXCEPT ![v].bytes = refreshed, ![v].state = "booting",
                 ![v].outcome = IF imgDisk[v].cloud \/ refreshed.agent = "none"
                                THEN "none" ELSE outcome]
  /\ UNCHANGED <<imgRow, imgFile, imgTask, imgClock>> /\ ImgKeepsCount

\* The source is gone, a shrink is refused, or a tool fails (as it may on a
\* partial copy): the destination is removed.
ImgPrepareFails(v) ==
  /\ ImgHas(imgDisk[v]) /\ imgDisk[v].state \in {"resolved", "cloned"}
  /\ imgDisk' = [imgDisk EXCEPT ![v] = ImgNone]
  /\ UNCHANGED <<imgRow, imgFile, imgTask, imgClock>> /\ ImgKeepsCount

\* The VM boots and its row is stamped.
ImgRecorded(v) ==
  /\ ImgHas(imgDisk[v]) /\ imgDisk[v].state = "booting"
  /\ imgDisk' = [imgDisk EXCEPT ![v].state = "running", ![v].at = imgClock,
                                ![v].bytes = ImgMounted(imgDisk[v].bytes)]
  /\ imgClock' = imgClock + 1
  /\ UNCHANGED <<imgRow, imgFile, imgTask>> /\ ImgKeepsCount

\* The guest wrote its disk; a kill leaves its journal pending.
ImgStop(v, clean) ==
  /\ ImgHas(imgDisk[v]) /\ imgDisk[v].state = "running"
  /\ imgDisk' = [imgDisk EXCEPT ![v].state = "stopped", ![v].bytes.writes = @ + 1,
                                ![v].bytes.pending = ~clean]
  /\ UNCHANGED <<imgRow, imgFile, imgTask, imgClock>> /\ ImgKeepsCount

ImgCrash ==
  /\ imgCount.crashes < ImgMaxCrashes
  /\ imgCount' = [imgCount EXCEPT !.crashes = @ + 1]
  /\ imgTask' = [n \in ImgNames |-> ImgNone]
  /\ imgDisk' = [v \in ImgVms |->
       IF ImgHas(imgDisk[v]) /\ imgDisk[v].state \in {"running", "stopped"}
       THEN [imgDisk[v] EXCEPT !.state = "stopped"] ELSE ImgNone]
  /\ UNCHANGED <<imgRow, imgFile, imgClock>>

ImgNext ==
  \/ \E n \in ImgNames :
       \/ \E src \in ImgSources : ImgImport(n, src)
       \/ ImgWritten(n) \/ ImgWriteFails(n) \/ ImgInsert(n) \/ ImgInsertFails(n)
       \/ \E v \in ImgVms : ImgCommit(v, n)
       \/ \E v \in ImgVms, b \in BOOLEAN : ImgResolve(v, n, b)
       \/ ImgDelete(n) \/ \E b \in BOOLEAN : ImgDeleted(n, b)
  \/ \E v \in ImgVms :
       \/ ImgClone(v) \/ ImgPrepareFails(v) \/ ImgRecorded(v)
       \/ \E b \in BOOLEAN, o \in {"refreshed", "skipped"} : ImgPrepare(v, b, o)
       \/ \E b \in BOOLEAN : ImgStop(v, b)
  \/ ImgCrash

\* The image a VM resolved is still the one at its path.
ImgUnreplaced(d) == ImgHas(imgRow[d.path]) /\ imgRow[d.path].at = d.resolved

\* A catalog file that a row names holds the row's bytes, and an imported
\* image is the whole of its source, whatever operation was interrupted
\* before; a committed image carries no pending journal, so its digest names
\* what its VMs run; a VM created from an image that was not replaced
\* meanwhile has a copy of just that image; and a VM whose refresh was
\* reported runs the current agent after its first mount.
ImgCatalogTrue ==
  /\ \A n \in ImgNames : ImgHas(imgRow[n]) =>
       /\ ImgHas(imgFile[n]) => imgFile[n] = imgRow[n].digest
       /\ imgRow[n].parent = "none" => imgRow[n].digest.whole
       /\ imgRow[n].parent # "none" => ~imgRow[n].digest.pending
  /\ \A v \in ImgVms : ImgHas(imgDisk[v]) =>
       /\ imgDisk[v].cloned # ImgNone /\ ImgUnreplaced(imgDisk[v]) =>
            imgDisk[v].cloned = imgRow[imgDisk[v].path].digest
       /\ imgDisk[v].state = "running" /\ imgDisk[v].outcome = "refreshed" =>
            imgDisk[v].bytes.agent = "current"
=============================================================================
