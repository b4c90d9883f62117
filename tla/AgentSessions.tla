---------------------------- MODULE AgentSessions ----------------------------
(***************************************************************************)
(* The session store of the guest agent (husker-agent/src/sessions.rs).    *)
(*                                                                         *)
(* A session is a command the guest owns: it outlives the connection that  *)
(* started it, its status and log are on the guest disk, and a session     *)
(* started as a replay carries a receipt so that repeating the same        *)
(* request never runs the command twice.  One mutex (creation) serialises  *)
(* starts, removals and lists; reads and workers take no lock.             *)
(*                                                                         *)
(* A start, a removal and a read are split where they await, so a worker   *)
(* may publish its outcome, the agent may die (the supervisor starts it    *)
(* again, the commands run on as orphans) and the guest may lose power     *)
(* (what was not synced is gone) between any two steps.                    *)
(***************************************************************************)
EXTENDS Integers, FiniteSets

CONSTANTS
    SesReplayIds,    \* ids the host derives from an idempotency key
    SesPlainIds,     \* ids the host makes up, each for one request
    SesSpecs,        \* what a request asks to run (its digest)
    SesMaxStarts,    \* bound: start requests
    SesMaxCrashes,   \* bound: agent deaths and power losses
    SesMaxRunning,   \* MAX_RUNNING
    SesMaxSessions,  \* MAX_SESSIONS
    SesMaxReceipts   \* MAX_REPLAY_RECEIPTS

ASSUME SesSpecAssumption == "no-receipt" \notin SesSpecs

VARIABLES
    sesDir,     \* id -> its directory: status, receipt, log, durable
    sesTomb,    \* ids with a tombstone under .removed
    sesActive,  \* id -> sequence of the start that owns the entry, 0 if none
    sesOp,      \* the operation that holds the creation mutex
    sesRead,    \* an unlocked get: the id it found running but not active
    sesWorker,  \* workers of this agent process
    sesOrphan,  \* ids whose command outlived the agent that spawned it
    sesCount,   \* starts (also the source of sequences), crashes, plain ids used
    sesRan      \* id -> commands a replay of it spawned

sesVars == <<sesDir, sesTomb, sesActive, sesOp, sesRead, sesWorker, sesOrphan,
             sesCount, sesRan>>

SesIds    == SesReplayIds \cup SesPlainIds
SesNoSpec == "no-receipt"
SesNoDir  == [status |-> "absent", spec |-> SesNoSpec, log |-> FALSE, durable |-> FALSE]
SesIdle   == [pc |-> "idle"]
SesPresent(id) == sesDir[id].status # "absent"

(* The store of a freshly started agent on a fresh disk. *)
SesInit ==
    /\ sesDir = [id \in SesIds |-> SesNoDir] /\ sesTomb = {}
    /\ sesActive = [id \in SesIds |-> 0]     /\ sesOp = SesIdle
    /\ sesRead = {} /\ sesWorker = {} /\ sesOrphan = {}
    /\ sesCount = [starts |-> 0, crashes |-> 0, used |-> {}]
    /\ sesRan = [id \in SesIds |-> 0]

-----------------------------------------------------------------------------
(* list_entries: directories that never got a status are scraps of an      *)
(* interrupted start and are removed; one with output is an error.  Every  *)
(* other entry goes through get, which settles a status that says running  *)
(* while this process does not supervise it.                               *)
SesScraps  == {id \in SesIds : sesDir[id].status = "none"}
SesListErr == \E id \in SesScraps : sesDir[id].log
SesSettled(d, id) ==
    IF d.status = "running" /\ sesActive[id] = 0 THEN [d EXCEPT !.status = "interrupted"] ELSE d
SesListed ==
    [id \in SesIds |-> IF id \in SesScraps THEN SesNoDir ELSE SesSettled(sesDir[id], id)]

SesList ==
    /\ sesOp = SesIdle
    /\ ~SesListErr
    /\ sesDir' = SesListed
    /\ UNCHANGED <<sesTomb, sesActive, sesOp, sesRead, sesWorker, sesOrphan, sesCount, sesRan>>

(* start, start_replay: the request is owned by a task of its own, so a    *)
(* client that goes away cannot interrupt it.                              *)
SesStart(id, spec) ==
    /\ sesOp = SesIdle
    /\ sesCount.starts < SesMaxStarts
    /\ id \notin sesCount.used
    /\ sesCount' = [sesCount EXCEPT !.starts = @ + 1, !.used = @ \cup ({id} \cap SesPlainIds)]
    /\ IF SesListErr THEN UNCHANGED <<sesDir, sesOp>>
       ELSE /\ sesDir' = SesListed
            /\ sesOp' = [pc |-> "admit", id |-> id, replay |-> id \in SesReplayIds,
                         spec |-> spec, seq |-> sesCount'.starts]
    /\ UNCHANGED <<sesTomb, sesActive, sesRead, sesWorker, sesOrphan, sesRan>>

SesReceipts == Cardinality(sesTomb) + Cardinality({id \in SesIds : sesDir[id].spec # SesNoSpec})
SesRoom ==
    /\ Cardinality({id \in SesIds : sesActive[id] # 0}) < SesMaxRunning
    /\ Cardinality({id \in SesIds : SesPresent(id)}) < SesMaxSessions

(* A replay of a known id starts nothing: it is answered with the session  *)
(* it has, or refused when the id was removed or asked for something else. *)
SesReplayOfKnown ==
    /\ sesOp.pc = "admit" /\ sesOp.replay
    /\ sesOp.id \in sesTomb \/ SesPresent(sesOp.id)
    /\ sesOp' = SesIdle
    /\ UNCHANGED <<sesDir, sesTomb, sesActive, sesRead, sesWorker, sesOrphan, sesCount, sesRan>>

(* Everything else needs room, and a directory that does not exist yet. *)
SesAdmits ==
    /\ ~SesPresent(sesOp.id)
    /\ SesRoom
    /\ sesOp.replay => sesOp.id \notin sesTomb /\ SesReceipts < SesMaxReceipts

SesCreateDir ==
    /\ sesOp.pc = "admit"
    /\ sesOp.replay => sesOp.id \notin sesTomb /\ ~SesPresent(sesOp.id)
    /\ IF ~SesAdmits THEN sesOp' = SesIdle /\ UNCHANGED sesDir
       ELSE /\ sesDir' = [sesDir EXCEPT ![sesOp.id] = [SesNoDir EXCEPT !.status = "none"]]
            /\ sesOp' = [sesOp EXCEPT !.pc = IF sesOp.replay THEN "receipt" ELSE "early"]
    /\ UNCHANGED <<sesTomb, sesActive, sesRead, sesWorker, sesOrphan, sesCount, sesRan>>

(* A plain session spawns its command before anything is published; when   *)
(* the program cannot be started the directory is removed again.           *)
SesEarlySpawn ==
    /\ sesOp.pc = "early"
    /\ \/ /\ sesOp' = [sesOp EXCEPT !.pc = "publish"]
          /\ UNCHANGED sesDir
       \/ /\ sesOp' = SesIdle
          /\ sesDir' = [sesDir EXCEPT ![sesOp.id] = SesNoDir]
    /\ UNCHANGED <<sesTomb, sesActive, sesRead, sesWorker, sesOrphan, sesCount, sesRan>>

(* The receipt of a replay is written and synced before the status. *)
SesWriteReceipt ==
    /\ sesOp.pc = "receipt"
    /\ sesDir' = [sesDir EXCEPT ![sesOp.id].spec = sesOp.spec]
    /\ sesOp' = [sesOp EXCEPT !.pc = "publish"]
    /\ UNCHANGED <<sesTomb, sesActive, sesRead, sesWorker, sesOrphan, sesCount, sesRan>>

(* The entry of the active map precedes the status that says running, so   *)
(* that no reader takes the session for an interrupted one.  When the      *)
(* status cannot be saved, entry and directory go away again.              *)
SesPublish ==
    /\ sesOp.pc = "publish"
    /\ \/ /\ sesActive' = [sesActive EXCEPT ![sesOp.id] = sesOp.seq]
          /\ sesDir' = [sesDir EXCEPT ![sesOp.id].status = "running"]
          /\ sesOp' = [sesOp EXCEPT !.pc = IF sesOp.replay THEN "sync" ELSE "spawn"]
       \/ /\ sesDir' = [sesDir EXCEPT ![sesOp.id] = SesNoDir]
          /\ sesOp' = SesIdle
          /\ UNCHANGED sesActive
    /\ UNCHANGED <<sesTomb, sesRead, sesWorker, sesOrphan, sesCount, sesRan>>

(* An accepted replay makes the directory entry durable before it runs; a  *)
(* failing sync gives up the entry but keeps the receipt.                  *)
SesSync ==
    /\ sesOp.pc = "sync"
    /\ \/ /\ sesDir' = [sesDir EXCEPT ![sesOp.id].durable = TRUE]
          /\ sesOp' = [sesOp EXCEPT !.pc = "spawn"]
          /\ UNCHANGED sesActive
       \/ /\ sesActive' = [sesActive EXCEPT ![sesOp.id] = 0]
          /\ sesOp' = SesIdle
          /\ UNCHANGED sesDir
    /\ UNCHANGED <<sesTomb, sesRead, sesWorker, sesOrphan, sesCount, sesRan>>

(* The worker takes over and the start is answered.  When the command of a *)
(* replay cannot be spawned the session is interrupted, never removed.     *)
SesSpawn ==
    /\ sesOp.pc = "spawn"
    /\ \/ /\ sesWorker' = sesWorker \cup {[id |-> sesOp.id, seq |-> sesOp.seq, pc |-> "runs"]}
          /\ sesRan' = IF sesOp.replay THEN [sesRan EXCEPT ![sesOp.id] = @ + 1] ELSE sesRan
          /\ UNCHANGED <<sesDir, sesActive>>
       \/ /\ sesOp.replay
          /\ sesDir' = [sesDir EXCEPT ![sesOp.id].status = "interrupted"]
          /\ sesActive' = [sesActive EXCEPT ![sesOp.id] = 0]
          /\ UNCHANGED <<sesWorker, sesRan>>
    /\ sesOp' = SesIdle
    /\ UNCHANGED <<sesTomb, sesRead, sesOrphan, sesCount>>

-----------------------------------------------------------------------------
(* run: the command exits, is cancelled or times out.  What a worker leaves *)
(* is an outcome to save; output it wrote is in the log.                   *)
SesOutcomes == {"completed", "cancelled", "timed-out", "interrupted"}
SesFinish(w, outcome) ==
    /\ w.pc = "runs"
    /\ sesWorker' = (sesWorker \ {w}) \cup {[w EXCEPT !.pc = outcome]}
    /\ sesDir' = IF sesDir[w.id].status = "running"
                 THEN [sesDir EXCEPT ![w.id].log = TRUE] ELSE sesDir
    /\ UNCHANGED <<sesTomb, sesActive, sesOp, sesRead, sesOrphan, sesCount, sesRan>>

(* The outcome is published by a rename, unless its directory is gone or   *)
(* the save fails.                                                         *)
SesSave(w) ==
    /\ w.pc \in SesOutcomes
    /\ sesWorker' = (sesWorker \ {w}) \cup {[w EXCEPT !.pc = "saved"]}
    /\ \/ /\ SesPresent(w.id)
          /\ sesDir' = [sesDir EXCEPT ![w.id].status = w.pc]
       \/ UNCHANGED sesDir
    /\ UNCHANGED <<sesTomb, sesActive, sesOp, sesRead, sesOrphan, sesCount, sesRan>>

(* release: only the entry of the worker's own start is dropped. *)
SesRelease(w) ==
    /\ w.pc = "saved"
    /\ sesWorker' = sesWorker \ {w}
    /\ sesActive' = IF sesActive[w.id] = w.seq THEN [sesActive EXCEPT ![w.id] = 0] ELSE sesActive
    /\ UNCHANGED <<sesDir, sesTomb, sesOp, sesRead, sesOrphan, sesCount, sesRan>>

-----------------------------------------------------------------------------
(* get without the mutex (status, events, cancel): the status says running *)
(* and the map has no entry, so the session is about to be called          *)
(* interrupted ...                                                         *)
SesGet(id) ==
    /\ sesDir[id].status = "running" /\ sesActive[id] = 0
    /\ sesRead' = sesRead \cup {id}
    /\ UNCHANGED <<sesDir, sesTomb, sesActive, sesOp, sesWorker, sesOrphan, sesCount, sesRan>>

(* ... unless the second read shows an outcome saved in between. *)
SesMark(id) ==
    /\ id \in sesRead
    /\ sesRead' = sesRead \ {id}
    /\ sesDir' = IF sesDir[id].status = "running"
                 THEN [sesDir EXCEPT ![id].status = "interrupted"] ELSE sesDir
    /\ UNCHANGED <<sesTomb, sesActive, sesOp, sesWorker, sesOrphan, sesCount, sesRan>>

SesRemoveStart(id) ==
    /\ sesOp = SesIdle
    /\ SesPresent(id) /\ sesDir[id].status # "none"
    /\ LET d == SesSettled(sesDir[id], id) IN
       /\ sesDir' = [sesDir EXCEPT ![id] = d]
       /\ IF d.status = "running" THEN UNCHANGED sesOp
          ELSE sesOp' = [pc |-> IF d.spec # SesNoSpec THEN "tomb" ELSE "rmdir", id |-> id]
    /\ UNCHANGED <<sesTomb, sesActive, sesRead, sesWorker, sesOrphan, sesCount, sesRan>>

SesTombstoneSkipped ==
    /\ sesOp.pc = "tomb"
    /\ sesOp' = [sesOp EXCEPT !.pc = "rmdir"]
    /\ UNCHANGED <<sesDir, sesTomb, sesActive, sesRead, sesWorker, sesOrphan, sesCount, sesRan>>

(* remove: the tombstone of a session with a receipt is durable before its *)
(* directory goes.                                                         *)
SesTombstone ==
    /\ sesOp.pc = "tomb"
    /\ sesTomb' = sesTomb \cup {sesOp.id}
    /\ sesOp' = [sesOp EXCEPT !.pc = "rmdir"]
    /\ UNCHANGED <<sesDir, sesActive, sesRead, sesWorker, sesOrphan, sesCount, sesRan>>

(* remove_dir_all is not atomic: the status may go before the log. *)
SesRemoveDir ==
    /\ sesOp.pc = "rmdir"
    /\ \/ sesDir' = [sesDir EXCEPT ![sesOp.id] = SesNoDir] /\ sesOp' = SesIdle
       \/ /\ sesDir[sesOp.id].status # "none"
          /\ sesDir' = [sesDir EXCEPT ![sesOp.id].status = "none"]
          /\ UNCHANGED sesOp
    /\ UNCHANGED <<sesTomb, sesActive, sesRead, sesWorker, sesOrphan, sesCount, sesRan>>

-----------------------------------------------------------------------------
(* The agent process dies: the map, the tasks and the readers are gone, the *)
(* commands run on under the supervisor.  A loss of power also ends the    *)
(* commands and forgets directories that were never synced.                *)
SesCrash(power) ==
    /\ sesCount.crashes < SesMaxCrashes
    /\ sesCount' = [sesCount EXCEPT !.crashes = @ + 1]
    /\ sesActive' = [id \in SesIds |-> 0]
    /\ sesOp' = SesIdle /\ sesRead' = {} /\ sesWorker' = {}
    /\ sesOrphan' = IF power THEN {}
                    ELSE sesOrphan \cup {w.id : w \in {x \in sesWorker : x.pc = "runs"}}
    /\ \E lost \in SUBSET {id \in SesIds : power /\ SesPresent(id) /\ ~sesDir[id].durable} :
          sesDir' = [id \in SesIds |-> IF id \in lost THEN SesNoDir ELSE sesDir[id]]
    /\ UNCHANGED <<sesTomb, sesRan>>

SesOrphanExit(id) ==
    /\ id \in sesOrphan
    /\ sesOrphan' = sesOrphan \ {id}
    /\ UNCHANGED <<sesDir, sesTomb, sesActive, sesOp, sesRead, sesWorker, sesCount, sesRan>>

SesNext ==
    \/ SesList
    \/ \E id \in SesIds, spec \in SesSpecs : SesStart(id, spec)
    \/ SesReplayOfKnown \/ SesCreateDir \/ SesEarlySpawn \/ SesWriteReceipt
    \/ SesPublish \/ SesSync \/ SesSpawn
    \/ \E w \in sesWorker : \/ \E o \in SesOutcomes : SesFinish(w, o)
                            \/ SesSave(w)
                            \/ SesRelease(w)
    \/ \E id \in SesIds : SesGet(id) \/ SesMark(id) \/ SesRemoveStart(id) \/ SesOrphanExit(id)
    \/ SesTombstone \/ SesRemoveDir
    \/ \E power \in BOOLEAN : SesCrash(power)

-----------------------------------------------------------------------------
(* A replayed request runs its command at most once, whatever is removed,  *)
(* repeated, crashed or lost; and an id whose command ran is known for     *)
(* ever after, by its receipt or by its tombstone (start_owned, remove).   *)
SesReplayOnce ==
    /\ \A id \in SesIds : sesRan[id] <= 1
    /\ \A id \in SesIds : sesRan[id] > 0 => id \in sesTomb \/ sesDir[id].spec # SesNoSpec
=============================================================================
