-------------------------- MODULE EndpointProofs --------------------------
(***************************************************************************)
(* Proofs about the two ends of the system.  The guest: the supervisor of  *)
(* detached commands (AgentSessions), the runner of a factory job          *)
(* (GuestJob) and the agent connection from both sides (GuestLink,         *)
(* AgentClient).  The operator: `husker job` (CliJob), frozen bundles      *)
(* (FrozenBundles) and the other commands (CliCommands).                   *)
(***************************************************************************)
EXTENDS AgentSessions, GuestJob, GuestLink, AgentClient, CliJob, FrozenBundles, CliCommands,
        FiniteSetTheorems, SequenceTheorems, TLAPS

-----------------------------------------------------------------------------
(* AgentSessions. *)

SesDirs == [status : {"absent", "none", "running"} \cup SesOutcomes,
            spec : SesSpecs \cup {SesNoSpec}, log : BOOLEAN, durable : BOOLEAN]
SesStarts == [pc : {"admit", "early", "receipt", "publish", "sync", "spawn"}, id : SesIds,
              replay : BOOLEAN, spec : SesSpecs, seq : Nat]
SesRemovals == [pc : {"tomb", "rmdir"}, id : SesIds]

SesTypeOK ==
  /\ sesDir \in [SesIds -> SesDirs]
  /\ sesOp \in {SesIdle} \cup SesStarts \cup SesRemovals
  /\ sesWorker \subseteq [id : SesIds, seq : Nat, pc : {"runs", "saved"} \cup SesOutcomes]
  /\ sesCount \in [starts : Nat, crashes : Nat, used : SUBSET SesIds]
  /\ sesRan \in [SesIds -> Nat]

\* Only a replay is counted, at most once; and until its tombstone is written
\* an id whose command ran keeps a synced directory with receipt and status.
SesKept(id) ==
  /\ sesRan[id] <= 1
  /\ sesRan[id] > 0 => id \in SesReplayIds
  /\ sesRan[id] > 0 /\ id \notin sesTomb =>
       /\ sesDir[id].spec # SesNoSpec /\ sesDir[id].durable
       /\ sesDir[id].status \notin {"absent", "none"}

\* The start that holds the creation mutex is of an id that has not run yet,
\* and what it has written so far is there.
SesStarting ==
  sesOp \in SesStarts =>
    /\ sesOp.replay <=> sesOp.id \in SesReplayIds
    /\ sesOp.pc = "early" => ~sesOp.replay
    /\ sesOp.pc # "admit" => sesRan[sesOp.id] = 0
    /\ sesOp.replay /\ sesOp.pc \in {"publish", "sync", "spawn"} =>
         sesDir[sesOp.id].spec # SesNoSpec
    /\ sesOp.replay /\ sesOp.pc \in {"sync", "spawn"} =>
         sesDir[sesOp.id].status \notin {"absent", "none"}
    /\ sesOp.replay /\ sesOp.pc = "spawn" => sesDir[sesOp.id].durable

\* A directory with a receipt is removed only behind its tombstone.
SesRemoving ==
  sesOp \in SesRemovals /\ sesOp.pc = "rmdir" =>
    sesOp.id \in sesTomb \/ sesDir[sesOp.id].spec = SesNoSpec

SesInv == SesTypeOK /\ (\A id \in SesIds : SesKept(id)) /\ SesStarting /\ SesRemoving

\* The three kinds of holder of the creation mutex are told apart by their pc.
LEMMA SesHolders ==
  /\ SesIdle \notin SesStarts /\ SesIdle \notin SesRemovals
  /\ \A op \in SesStarts : op \notin SesRemovals /\ op.pc \notin {"idle", "tomb", "rmdir"}
  /\ \A op \in SesRemovals : op \notin SesStarts /\ op.pc \in {"tomb", "rmdir"}
  /\ SesIdle.pc = "idle"
BY DEF SesIdle, SesStarts, SesRemovals

\* A fresh store.
LEMMA SesBegins == SesInit => SesInv
<1> SUFFICES ASSUME SesInit PROVE SesInv
  OBVIOUS
<1>1. SesNoDir \in SesDirs
  BY DEF SesNoDir, SesDirs
<1>2. SesTypeOK
  BY <1>1 DEF SesInit, SesTypeOK
<1> QED
  BY <1>2, SesHolders DEF SesInit, SesInv, SesKept, SesStarting, SesRemoving

\* A step that, for every id, keeps receipt and durability, and never turns a
\* status into "none" or "absent", disturbs nothing.
LEMMA SesDirStep ==
  ASSUME SesInv, sesDir' \in [SesIds -> SesDirs],
         \A id \in SesIds : /\ sesDir'[id].spec = sesDir[id].spec
                            /\ sesDir'[id].durable = sesDir[id].durable
                            /\ \/ sesDir[id].status \in {"absent", "none"}
                               \/ sesDir'[id].status \notin {"absent", "none"},
         UNCHANGED <<sesTomb, sesRan, sesOp, sesCount>>,
         sesWorker' \subseteq [id : SesIds, seq : Nat, pc : {"runs", "saved"} \cup SesOutcomes]
  PROVE  SesInv'
<1>1. SesTypeOK'
  BY DEF SesInv, SesTypeOK
<1>2. \A id \in SesIds : SesKept(id)'
  BY DEF SesInv, SesKept
<1>3. SesStarting' /\ SesRemoving'
  BY DEF SesInv, SesStarting, SesRemoving, SesStarts, SesRemovals
<1> QED
  BY <1>1, <1>2, <1>3 DEF SesInv

\* list_entries removes scraps, which never ran, and settles the others.
LEMMA SesListing ==
  ASSUME SesTypeOK
  PROVE  /\ SesListed \in [SesIds -> SesDirs]
         /\ \A id \in SesIds : sesDir[id].status # "none" =>
              /\ SesListed[id].spec = sesDir[id].spec
              /\ SesListed[id].durable = sesDir[id].durable
              /\ sesDir[id].status # "absent" => SesListed[id].status \notin {"absent", "none"}
<1>1. \A id \in SesIds : LET d == SesSettled(sesDir[id], id) IN
        /\ d \in SesDirs /\ d.spec = sesDir[id].spec /\ d.durable = sesDir[id].durable
        /\ sesDir[id].status \notin {"absent", "none"} => d.status \notin {"absent", "none"}
  BY DEF SesTypeOK, SesDirs, SesSettled, SesOutcomes
<1>2. SesNoDir \in SesDirs
  BY DEF SesNoDir, SesDirs
<1> QED
  BY <1>1, <1>2 DEF SesListed, SesScraps

\* A listing keeps the directory of every session that ran.
LEMMA SesListKeeps ==
  ASSUME SesInv, sesDir' = SesListed, UNCHANGED <<sesTomb, sesRan>>
  PROVE  \A id \in SesIds : SesKept(id)'
BY SesListing DEF SesInv, SesKept

\* list, start and the removal's first step: the holder of the mutex begins.
LEMMA SesBeginSteps ==
  ASSUME SesInv,
         \/ SesList \/ (\E id \in SesIds, spec \in SesSpecs : SesStart(id, spec))
         \/ (\E id \in SesIds : SesRemoveStart(id))
  PROVE  SesInv'
<1> USE DEF SesInv
<1>1. CASE SesList
  <2>1. sesDir' = SesListed /\ sesOp = SesIdle
        /\ UNCHANGED <<sesTomb, sesRan, sesOp, sesWorker, sesCount>>
    BY <1>1 DEF SesList
  <2>2. SesTypeOK'
    BY <2>1, SesListing DEF SesTypeOK
  <2> QED
    BY <2>1, <2>2, SesListKeeps, SesHolders DEF SesStarting, SesRemoving
<1>2. ASSUME NEW id \in SesIds, NEW spec \in SesSpecs, SesStart(id, spec)
      PROVE  SesInv'
  <2>1. /\ sesOp = SesIdle /\ UNCHANGED <<sesTomb, sesRan, sesWorker>>
        /\ sesCount' = [sesCount EXCEPT !.starts = sesCount.starts + 1,
                                        !.used = sesCount.used \cup ({id} \cap SesPlainIds)]
    BY <1>2 DEF SesStart
  <2>2. sesCount' \in [starts : Nat, crashes : Nat, used : SUBSET SesIds] /\ sesCount'.starts \in Nat
    <3> DEFINE used == sesCount.used \cup ({id} \cap SesPlainIds)
    <3>1. used \in SUBSET SesIds /\ sesCount.starts + 1 \in Nat
      BY DEF SesTypeOK
    <3>2. sesCount' = [sesCount EXCEPT !.starts = sesCount.starts + 1, !.used = used]
      BY <2>1
    <3> HIDE DEF used
    <3> QED
      BY <3>1, <3>2 DEF SesTypeOK
  <2>3. CASE UNCHANGED <<sesDir, sesOp>>
    <3>1. SesTypeOK'
      BY <2>1, <2>2, <2>3 DEF SesTypeOK
    <3> QED
      BY <2>1, <2>3, <3>1, SesHolders DEF SesKept, SesStarting, SesRemoving
  <2>4. CASE /\ sesDir' = SesListed
             /\ sesOp' = [pc |-> "admit", id |-> id, replay |-> id \in SesReplayIds,
                          spec |-> spec, seq |-> sesCount'.starts]
    <3>1. /\ sesOp' \in SesStarts /\ sesOp'.pc = "admit"
          /\ sesOp'.replay <=> sesOp'.id \in SesReplayIds
      <4>0. (id \in SesReplayIds) \in BOOLEAN
        OBVIOUS
      <4>1. PICK r \in BOOLEAN : r = (id \in SesReplayIds)
        BY <4>0, Zenon
      <4>2. sesOp' = [pc |-> "admit", id |-> id, replay |-> r, spec |-> spec,
                      seq |-> sesCount'.starts]
        BY <2>4, <4>1
      <4>3. sesOp' \in SesStarts /\ sesOp'.pc = "admit" /\ sesOp'.replay = r /\ sesOp'.id = id
        BY <2>2, <4>2 DEF SesStarts
      <4> QED
        BY <4>1, <4>3
    <3>2. SesTypeOK'
      BY <2>1, <2>2, <2>4, <3>1, SesListing DEF SesTypeOK
    <3>3. \A i \in SesIds : SesKept(i)'
      BY <2>1, <2>4, SesListKeeps
    <3> QED
      BY <3>1, <3>2, <3>3, SesHolders DEF SesStarting, SesRemoving
  <2> QED
    BY <1>2, <2>3, <2>4 DEF SesStart
<1>3. ASSUME NEW id \in SesIds, SesRemoveStart(id)
      PROVE  SesInv'
  <2> DEFINE d == SesSettled(sesDir[id], id)
  <2>1. /\ sesOp = SesIdle /\ sesDir[id].status \notin {"absent", "none"}
        /\ sesDir' = [sesDir EXCEPT ![id] = d]
        /\ \/ sesOp' = sesOp
           \/ d.spec # SesNoSpec /\ sesOp' = [pc |-> "tomb", id |-> id]
           \/ d.spec = SesNoSpec /\ sesOp' = [pc |-> "rmdir", id |-> id]
        /\ UNCHANGED <<sesTomb, sesRan, sesWorker, sesCount>>
    BY <1>3 DEF SesRemoveStart, SesPresent
  <2>2. /\ d \in SesDirs /\ d.spec = sesDir[id].spec /\ d.durable = sesDir[id].durable
        /\ d.status \notin {"absent", "none"}
    BY <2>1 DEF SesTypeOK, SesDirs, SesSettled, SesOutcomes
  <2> HIDE DEF d
  <2>3. /\ sesDir' \in [SesIds -> SesDirs] /\ sesDir'[id] = d
        /\ \A i \in SesIds \ {id} : sesDir'[i] = sesDir[i]
    BY <2>1, <2>2 DEF SesTypeOK
  <2>4. /\ sesOp' \in {SesIdle} \cup SesRemovals
        /\ sesOp' \in SesRemovals => sesOp'.id = id /\ (sesOp'.pc = "rmdir" => d.spec = SesNoSpec)
    BY <2>1, SesHolders DEF SesRemovals
  <2>5. SesTypeOK'
    BY <2>1, <2>3, <2>4 DEF SesTypeOK
  <2>6. \A i \in SesIds : SesKept(i)'
    BY <2>1, <2>2, <2>3 DEF SesKept
  <2>7. SesStarting' /\ SesRemoving'
    BY <2>3, <2>4, SesHolders DEF SesStarting, SesRemoving
  <2> QED
    BY <2>5, <2>6, <2>7
<1> QED
  BY <1>1, <1>2, <1>3

\* The mutex is given up, and no directory of a session that ran has changed.
LEMMA SesIdleStep ==
  ASSUME SesTypeOK', \A id \in SesIds : SesKept(id)', sesOp' = SesIdle
  PROVE  SesInv'
BY SesHolders DEF SesInv, SesStarting, SesRemoving

\* Only the directory of the holder's id changes, and that id has not run, or
\* has its tombstone.
LEMMA SesOwnDir ==
  ASSUME SesInv, NEW id \in SesIds, NEW d \in SesDirs,
         sesDir' = [sesDir EXCEPT ![id] = d], UNCHANGED <<sesTomb, sesRan>>,
         sesRan[id] = 0 \/ id \in sesTomb
  PROVE  /\ sesDir' \in [SesIds -> SesDirs] /\ sesDir'[id] = d
         /\ \A i \in SesIds : SesKept(i)'
<1>1. /\ sesDir' \in [SesIds -> SesDirs] /\ sesDir'[id] = d
      /\ \A i \in SesIds \ {id} : sesDir'[i] = sesDir[i]
  BY DEF SesInv, SesTypeOK
<1>2. SesKept(id)'
  BY <1>1 DEF SesInv, SesKept, SesTypeOK
<1>3. \A i \in SesIds \ {id} : SesKept(i)'
  BY <1>1 DEF SesInv, SesKept
<1> QED
  BY <1>1, <1>2, <1>3

\* start_owned, step by step.
LEMMA SesStartSteps ==
  ASSUME SesInv,
         \/ SesReplayOfKnown \/ SesCreateDir \/ SesEarlySpawn \/ SesWriteReceipt
         \/ SesPublish \/ SesSync \/ SesSpawn
  PROVE  SesInv'
<1>1. /\ sesOp \in SesStarts /\ sesOp.id \in SesIds /\ sesOp.spec \in SesSpecs
      /\ sesOp.replay \in BOOLEAN /\ sesOp.seq \in Nat
      /\ UNCHANGED <<sesTomb, sesCount>>
  <2>1. sesOp.pc \in {"admit", "early", "receipt", "publish", "sync", "spawn"}
    BY DEF SesReplayOfKnown, SesCreateDir, SesEarlySpawn, SesWriteReceipt, SesPublish, SesSync,
           SesSpawn
  <2>2. sesOp \in SesStarts
    BY <2>1, SesHolders DEF SesInv, SesTypeOK
  <2> QED
    BY <2>2 DEF SesStarts, SesReplayOfKnown, SesCreateDir, SesEarlySpawn, SesWriteReceipt,
                SesPublish, SesSync, SesSpawn
<1>0. PICK id \in SesIds : id = sesOp.id
  BY <1>1
<1>2. /\ SesNoDir \in SesDirs /\ [SesNoDir EXCEPT !.status = "none"] \in SesDirs
      /\ sesDir[id] \in SesDirs
  BY <1>1 DEF SesInv, SesTypeOK, SesNoDir, SesDirs
<1>3. ASSUME NEW p \in {"early", "receipt", "publish", "sync", "spawn"},
             sesOp' = [sesOp EXCEPT !.pc = p]
      PROVE  /\ sesOp' \in SesStarts /\ sesOp' \notin SesRemovals /\ sesOp'.pc = p
             /\ sesOp'.id = id /\ sesOp'.replay = sesOp.replay
  BY <1>0, <1>1, <1>3, SesHolders DEF SesStarts
<1>4. /\ (sesOp.replay <=> id \in SesReplayIds) /\ (sesOp.pc = "early" => ~sesOp.replay)
      /\ sesOp.pc # "admit" => sesRan[id] = 0
      /\ sesOp.replay /\ sesOp.pc \in {"publish", "sync", "spawn"} => sesDir[id].spec # SesNoSpec
      /\ sesOp.replay /\ sesOp.pc \in {"sync", "spawn"} =>
           sesDir[id].status \notin {"absent", "none"}
      /\ sesOp.replay /\ sesOp.pc = "spawn" => sesDir[id].durable
  BY <1>0, <1>1 DEF SesInv, SesStarting
<1>5. ASSUME UNCHANGED <<sesDir, sesRan>> PROVE \A i \in SesIds : SesKept(i)'
  BY <1>1, <1>5 DEF SesInv, SesKept
<1>a. CASE SesReplayOfKnown
  <2>1. sesOp' = SesIdle /\ UNCHANGED <<sesDir, sesWorker, sesRan>>
    BY <1>a DEF SesReplayOfKnown
  <2>2. SesTypeOK'
    BY <1>1, <2>1 DEF SesInv, SesTypeOK
  <2> QED
    BY <1>5, <2>1, <2>2, SesIdleStep
<1>b. CASE SesCreateDir
  <2>1. /\ sesOp.pc = "admit" /\ UNCHANGED <<sesWorker, sesRan>>
        /\ sesOp.replay => id \notin sesTomb /\ sesDir[id].status = "absent"
    BY <1>0, <1>b DEF SesCreateDir, SesPresent
  <2>2. CASE sesOp' = SesIdle /\ UNCHANGED sesDir
    <3>1. SesTypeOK'
      BY <1>1, <2>1, <2>2 DEF SesInv, SesTypeOK
    <3> QED
      BY <1>5, <2>1, <2>2, <3>1, SesIdleStep
  <2>3. CASE /\ sesDir' = [sesDir EXCEPT ![id] = [SesNoDir EXCEPT !.status = "none"]]
             /\ sesOp' = [sesOp EXCEPT !.pc = IF sesOp.replay THEN "receipt" ELSE "early"]
    <3>1. sesRan[id] = 0
      <4>1. SesKept(id) /\ sesRan[id] \in Nat
        BY <1>1 DEF SesInv, SesTypeOK
      <4>2. CASE sesOp.replay
        BY <2>1, <4>1, <4>2 DEF SesKept
      <4>3. CASE ~sesOp.replay
        BY <1>4, <4>1, <4>3 DEF SesKept
      <4> QED
        BY <4>2, <4>3
    <3>2. /\ sesDir' \in [SesIds -> SesDirs] /\ \A i \in SesIds : SesKept(i)'
      BY <1>1, <1>2, <2>1, <2>3, <3>1, SesOwnDir
    <3>3. /\ sesOp' \in SesStarts /\ sesOp' \notin SesRemovals /\ sesOp'.pc \in {"early", "receipt"}
          /\ sesOp'.id = id /\ sesOp'.replay = sesOp.replay
          /\ sesOp.replay => sesOp'.pc # "early"
      BY <1>3, <2>3
    <3>4. SesTypeOK'
      BY <1>1, <2>1, <3>2, <3>3 DEF SesInv, SesTypeOK
    <3>5. SesStarting' /\ SesRemoving'
      BY <1>4, <2>1, <3>1, <3>3 DEF SesStarting, SesRemoving
    <3> QED
      BY <3>2, <3>4, <3>5 DEF SesInv
  <2> QED
    BY <1>0, <1>b, <2>2, <2>3 DEF SesCreateDir
<1>c. CASE SesEarlySpawn
  <2>1. sesOp.pc = "early" /\ UNCHANGED <<sesWorker, sesRan>>
    BY <1>c DEF SesEarlySpawn
  <2>2. CASE sesOp' = [sesOp EXCEPT !.pc = "publish"] /\ UNCHANGED sesDir
    <3>1. /\ sesOp' \in SesStarts /\ sesOp' \notin SesRemovals /\ sesOp'.pc = "publish"
          /\ sesOp'.id = id /\ sesOp'.replay = sesOp.replay
      BY <1>3, <2>2
    <3>2. SesTypeOK'
      BY <1>1, <2>1, <2>2, <3>1 DEF SesInv, SesTypeOK
    <3> QED
      BY <1>1, <1>4, <1>5, <2>1, <2>2, <3>1, <3>2 DEF SesInv, SesStarting, SesRemoving
  <2>3. CASE sesOp' = SesIdle /\ sesDir' = [sesDir EXCEPT ![id] = SesNoDir]
    <3>1. sesDir' \in [SesIds -> SesDirs] /\ \A i \in SesIds : SesKept(i)'
      BY <1>1, <1>2, <1>4, <2>1, <2>3, SesOwnDir
    <3>2. SesTypeOK'
      BY <1>1, <2>1, <2>3, <3>1 DEF SesInv, SesTypeOK
    <3> QED
      BY <2>3, <3>1, <3>2, SesIdleStep
  <2> QED
    BY <1>0, <1>c, <2>2, <2>3 DEF SesEarlySpawn
<1>d. CASE SesWriteReceipt
  <2> DEFINE d == [sesDir[id] EXCEPT !.spec = sesOp.spec]
  <2>1. /\ sesOp.pc = "receipt" /\ UNCHANGED <<sesWorker, sesRan>>
        /\ sesDir' = [sesDir EXCEPT ![id] = d] /\ sesOp' = [sesOp EXCEPT !.pc = "publish"]
    BY <1>0, <1>d DEF SesWriteReceipt
  <2>2. d \in SesDirs /\ d.spec # SesNoSpec
    BY <1>1, <1>2, SesSpecAssumption DEF SesDirs, SesNoSpec
  <2> HIDE DEF d
  <2>3. sesDir' \in [SesIds -> SesDirs] /\ sesDir'[id] = d /\ \A i \in SesIds : SesKept(i)'
    BY <1>1, <1>4, <2>1, <2>2, SesOwnDir
  <2>4. /\ sesOp' \in SesStarts /\ sesOp' \notin SesRemovals /\ sesOp'.pc = "publish"
        /\ sesOp'.id = id /\ sesOp'.replay = sesOp.replay
    BY <1>3, <2>1
  <2>5. SesTypeOK'
    BY <1>1, <2>1, <2>3, <2>4 DEF SesInv, SesTypeOK
  <2>6. SesStarting' /\ SesRemoving'
    BY <1>4, <2>1, <2>2, <2>3, <2>4 DEF SesStarting, SesRemoving
  <2> QED
    BY <2>3, <2>5, <2>6 DEF SesInv
<1>e. CASE SesPublish
  <2> DEFINE d == [sesDir[id] EXCEPT !.status = "running"]
  <2>1. sesOp.pc = "publish" /\ UNCHANGED <<sesWorker, sesRan>>
    BY <1>e DEF SesPublish
  <2>2. d \in SesDirs /\ d.spec = sesDir[id].spec /\ d.status = "running"
    BY <1>2 DEF SesDirs
  <2> HIDE DEF d
  <2>3. CASE /\ sesDir' = [sesDir EXCEPT ![id] = d]
             /\ sesOp' = [sesOp EXCEPT !.pc = IF sesOp.replay THEN "sync" ELSE "spawn"]
    <3>1. sesDir' \in [SesIds -> SesDirs] /\ sesDir'[id] = d /\ \A i \in SesIds : SesKept(i)'
      BY <1>1, <1>4, <2>1, <2>2, <2>3, SesOwnDir
    <3>2. /\ sesOp' \in SesStarts /\ sesOp' \notin SesRemovals /\ sesOp'.pc \in {"sync", "spawn"}
          /\ sesOp'.id = id /\ sesOp'.replay = sesOp.replay
          /\ sesOp.replay => sesOp'.pc = "sync"
      BY <1>3, <2>3
    <3>3. SesTypeOK'
      BY <1>1, <2>1, <3>1, <3>2 DEF SesInv, SesTypeOK
    <3>4. SesStarting' /\ SesRemoving'
      BY <1>4, <2>1, <2>2, <3>1, <3>2 DEF SesStarting, SesRemoving
    <3> QED
      BY <3>1, <3>3, <3>4 DEF SesInv
  <2>4. CASE sesDir' = [sesDir EXCEPT ![id] = SesNoDir] /\ sesOp' = SesIdle
    <3>1. sesDir' \in [SesIds -> SesDirs] /\ \A i \in SesIds : SesKept(i)'
      BY <1>1, <1>2, <1>4, <2>1, <2>4, SesOwnDir
    <3>2. SesTypeOK'
      BY <1>1, <2>1, <2>4, <3>1 DEF SesInv, SesTypeOK
    <3> QED
      BY <2>4, <3>1, <3>2, SesIdleStep
  <2> QED
    BY <1>0, <1>e, <2>3, <2>4 DEF SesPublish, d
<1>f. CASE SesSync
  <2> DEFINE d == [sesDir[id] EXCEPT !.durable = TRUE]
  <2>1. sesOp.pc = "sync" /\ UNCHANGED <<sesWorker, sesRan>>
    BY <1>f DEF SesSync
  <2>2. /\ d \in SesDirs /\ d.spec = sesDir[id].spec /\ d.status = sesDir[id].status
        /\ d.durable
    BY <1>2 DEF SesDirs
  <2> HIDE DEF d
  <2>3. CASE sesDir' = [sesDir EXCEPT ![id] = d] /\ sesOp' = [sesOp EXCEPT !.pc = "spawn"]
    <3>1. sesDir' \in [SesIds -> SesDirs] /\ sesDir'[id] = d /\ \A i \in SesIds : SesKept(i)'
      BY <1>1, <1>4, <2>1, <2>2, <2>3, SesOwnDir
    <3>2. /\ sesOp' \in SesStarts /\ sesOp' \notin SesRemovals /\ sesOp'.pc = "spawn"
          /\ sesOp'.id = id /\ sesOp'.replay = sesOp.replay
      BY <1>3, <2>3
    <3>3. SesTypeOK'
      BY <1>1, <2>1, <3>1, <3>2 DEF SesInv, SesTypeOK
    <3>4. SesStarting' /\ SesRemoving'
      BY <1>4, <2>1, <2>2, <3>1, <3>2 DEF SesStarting, SesRemoving
    <3> QED
      BY <3>1, <3>3, <3>4 DEF SesInv
  <2>4. CASE sesOp' = SesIdle /\ UNCHANGED sesDir
    <3>1. SesTypeOK'
      BY <1>1, <2>1, <2>4 DEF SesInv, SesTypeOK
    <3> QED
      BY <1>5, <2>1, <2>4, <3>1, SesIdleStep
  <2> QED
    BY <1>0, <1>f, <2>3, <2>4 DEF SesSync, d
<1>g. CASE SesSpawn
  <2>1. sesOp.pc = "spawn" /\ sesOp' = SesIdle
    BY <1>g DEF SesSpawn
  <2>2. CASE /\ sesWorker' = sesWorker \cup {[id |-> id, seq |-> sesOp.seq, pc |-> "runs"]}
             /\ sesRan' = IF sesOp.replay THEN [sesRan EXCEPT ![id] = sesRan[id] + 1] ELSE sesRan
             /\ UNCHANGED sesDir
    <3>1. [id |-> id, seq |-> sesOp.seq, pc |-> "runs"]
            \in [id : SesIds, seq : Nat, pc : {"runs", "saved"} \cup SesOutcomes]
      BY <1>1
    <3>2. CASE sesOp.replay
      <4>1. /\ sesRan' \in [SesIds -> Nat] /\ sesRan'[id] = 1
            /\ \A i \in SesIds \ {id} : sesRan'[i] = sesRan[i]
        BY <1>1, <1>4, <2>1, <2>2, <3>2 DEF SesInv, SesTypeOK
      <4>2. SesTypeOK'
        BY <1>1, <2>1, <2>2, <3>1, <4>1 DEF SesInv, SesTypeOK
      <4>3. SesKept(id)'
        BY <1>1, <1>4, <2>1, <2>2, <3>2, <4>1 DEF SesKept
      <4>4. \A i \in SesIds \ {id} : SesKept(i)'
        BY <1>1, <2>2, <4>1 DEF SesInv, SesKept
      <4> QED
        BY <2>1, <4>2, <4>3, <4>4, SesIdleStep
    <3>3. CASE ~sesOp.replay
      <4>1. SesTypeOK'
        BY <1>1, <2>1, <2>2, <3>1, <3>3 DEF SesInv, SesTypeOK
      <4> QED
        BY <1>5, <2>1, <2>2, <3>3, <4>1, SesIdleStep
    <3> QED
      BY <3>2, <3>3
  <2>3. CASE /\ sesDir' = [sesDir EXCEPT ![id].status = "interrupted"]
             /\ UNCHANGED <<sesWorker, sesRan>>
    <3> DEFINE d == [sesDir[id] EXCEPT !.status = "interrupted"]
    <3>1. d \in SesDirs /\ sesDir' = [sesDir EXCEPT ![id] = d]
      BY <1>2, <2>3 DEF SesDirs, SesOutcomes
    <3> HIDE DEF d
    <3>2. sesDir' \in [SesIds -> SesDirs] /\ \A i \in SesIds : SesKept(i)'
      BY <1>1, <1>4, <2>1, <2>3, <3>1, SesOwnDir
    <3>3. SesTypeOK'
      BY <1>1, <2>1, <2>3, <3>2 DEF SesInv, SesTypeOK
    <3> QED
      BY <2>1, <3>2, <3>3, SesIdleStep
  <2> QED
    BY <1>0, <1>g, <2>2, <2>3 DEF SesSpawn
<1> QED
  BY <1>a, <1>b, <1>c, <1>d, <1>e, <1>f, <1>g

\* remove: the tombstone precedes the directory's end.
LEMMA SesRemoveSteps ==
  ASSUME SesInv, SesTombstone \/ SesRemoveDir
  PROVE  SesInv'
<1>1. /\ sesOp \in SesRemovals /\ sesOp.id \in SesIds /\ sesOp \notin SesStarts
      /\ UNCHANGED <<sesRan, sesWorker, sesCount>>
  <2>1. sesOp \in SesRemovals
    BY SesHolders DEF SesTombstone, SesRemoveDir, SesInv, SesTypeOK
  <2> QED
    BY <2>1, SesHolders DEF SesRemovals, SesTombstone, SesRemoveDir
<1>0. PICK id \in SesIds : id = sesOp.id
  BY <1>1
<1>2. CASE SesTombstone
  <2>1. /\ sesTomb' = sesTomb \cup {id} /\ sesOp' = [sesOp EXCEPT !.pc = "rmdir"]
        /\ UNCHANGED sesDir
    BY <1>0, <1>2 DEF SesTombstone
  <2>2. sesOp' \in SesRemovals /\ sesOp'.id = id
    BY <1>0, <1>1, <2>1 DEF SesRemovals
  <2>3. SesTypeOK'
    BY <1>1, <2>1, <2>2 DEF SesInv, SesTypeOK
  <2>4. \A i \in SesIds : SesKept(i)'
    BY <1>1, <2>1 DEF SesInv, SesKept
  <2> QED
    BY <2>1, <2>2, <2>3, <2>4, SesHolders DEF SesInv, SesStarting, SesRemoving
<1>3. CASE SesRemoveDir
  <2>1. sesOp.pc = "rmdir" /\ sesTomb' = sesTomb
    BY <1>3 DEF SesRemoveDir
  <2>2. (id \in sesTomb \/ sesDir[id].spec = SesNoSpec) /\ SesKept(id) /\ sesRan[id] \in Nat
    BY <1>0, <1>1, <2>1 DEF SesInv, SesRemoving, SesTypeOK
  <2>3. sesRan[id] = 0 \/ id \in sesTomb
    BY <2>2 DEF SesKept
  <2>4. CASE sesDir' = [sesDir EXCEPT ![id] = SesNoDir] /\ sesOp' = SesIdle
    <3>1. SesNoDir \in SesDirs
      BY DEF SesNoDir, SesDirs
    <3>2. sesDir' \in [SesIds -> SesDirs] /\ \A i \in SesIds : SesKept(i)'
      BY <1>1, <2>1, <2>3, <2>4, <3>1, SesOwnDir
    <3>3. SesTypeOK'
      BY <1>1, <2>4, <3>2 DEF SesInv, SesTypeOK
    <3> QED
      BY <2>4, <3>2, <3>3, SesIdleStep
  <2>5. CASE sesDir' = [sesDir EXCEPT ![id].status = "none"] /\ UNCHANGED sesOp
    <3> DEFINE d == [sesDir[id] EXCEPT !.status = "none"]
    <3>1. /\ d \in SesDirs /\ d.spec = sesDir[id].spec
          /\ sesDir' = [sesDir EXCEPT ![id] = d]
      BY <2>5 DEF SesInv, SesTypeOK, SesDirs
    <3> HIDE DEF d
    <3>2. sesDir' \in [SesIds -> SesDirs] /\ sesDir'[id] = d /\ \A i \in SesIds : SesKept(i)'
      BY <1>1, <2>1, <2>3, <3>1, SesOwnDir
    <3>3. SesTypeOK'
      BY <1>1, <2>5, <3>2 DEF SesInv, SesTypeOK
    <3>4. SesStarting' /\ SesRemoving'
      BY <1>0, <1>1, <2>1, <2>2, <2>5, <3>1, <3>2 DEF SesStarting, SesRemoving
    <3> QED
      BY <3>2, <3>3, <3>4 DEF SesInv
  <2> QED
    BY <1>0, <1>3, <2>4, <2>5 DEF SesRemoveDir
<1> QED
  BY <1>2, <1>3

\* Workers and readers, which take no lock, write a status or the log only.
LEMMA SesUnlockedSteps ==
  ASSUME SesInv,
         \/ \E w \in sesWorker : \/ \E o \in SesOutcomes : SesFinish(w, o)
                                 \/ SesSave(w)
                                 \/ SesRelease(w)
         \/ \E id \in SesIds : SesGet(id) \/ SesMark(id) \/ SesOrphanExit(id)
  PROVE  SesInv'
<1> DEFINE Workers == [id : SesIds, seq : Nat, pc : {"runs", "saved"} \cup SesOutcomes]
<1>0. ASSUME NEW id \in SesIds, NEW d \in SesDirs, sesDir' \in {sesDir, [sesDir EXCEPT ![id] = d]},
             d.spec = sesDir[id].spec, d.durable = sesDir[id].durable,
             sesDir[id].status \in {"absent", "none"} \/ d.status \notin {"absent", "none"},
             UNCHANGED <<sesTomb, sesRan, sesOp, sesCount>>, sesWorker' \subseteq Workers
      PROVE  SesInv'
  <2>1. sesDir' \in [SesIds -> SesDirs]
    BY <1>0 DEF SesInv, SesTypeOK
  <2>2. \A i \in SesIds : sesDir'[i] = sesDir[i] \/ (i = id /\ sesDir'[i] = d)
    <3>1. sesDir \in [SesIds -> SesDirs]
      BY DEF SesInv, SesTypeOK
    <3>2. CASE sesDir' = [sesDir EXCEPT ![id] = d]
      BY <3>1, <3>2
    <3> QED
      BY <1>0, <3>2
  <2>3. \A i \in SesIds : /\ sesDir'[i].spec = sesDir[i].spec
                          /\ sesDir'[i].durable = sesDir[i].durable
                          /\ \/ sesDir[i].status \in {"absent", "none"}
                             \/ sesDir'[i].status \notin {"absent", "none"}
    BY <1>0, <2>2
  <2> QED
    BY <1>0, <2>1, <2>3, SesDirStep
<1>1. ASSUME NEW w \in sesWorker, NEW o \in SesOutcomes, SesFinish(w, o)
      PROVE  SesInv'
  <2> DEFINE d == [sesDir[w.id] EXCEPT !.log = TRUE]
  <2>1. w \in Workers /\ w.id \in SesIds /\ sesWorker \subseteq Workers
    BY DEF SesInv, SesTypeOK
  <2>2. [w EXCEPT !.pc = o] \in Workers
    BY <2>1
  <2>3. /\ sesWorker' \subseteq Workers /\ sesDir' \in {sesDir, [sesDir EXCEPT ![w.id] = d]}
        /\ UNCHANGED <<sesTomb, sesRan, sesOp, sesCount>>
    BY <1>1, <2>1, <2>2 DEF SesFinish
  <2>4. /\ d \in SesDirs /\ d.spec = sesDir[w.id].spec /\ d.durable = sesDir[w.id].durable
        /\ d.status = sesDir[w.id].status
    BY <2>1, ZenonT(40) DEF SesInv, SesTypeOK, SesDirs
  <2> HIDE DEF d, Workers
  <2> QED
    BY <1>0, <2>1, <2>3, <2>4
<1>2. ASSUME NEW w \in sesWorker, SesSave(w)
      PROVE  SesInv'
  <2> DEFINE d == [sesDir[w.id] EXCEPT !.status = w.pc]
  <2>1. w \in Workers /\ w.id \in SesIds /\ sesWorker \subseteq Workers /\ w.pc \in SesOutcomes
    BY <1>2 DEF SesInv, SesTypeOK, SesSave
  <2>2. [w EXCEPT !.pc = "saved"] \in Workers
    BY <2>1
  <2>3. /\ sesWorker' \subseteq Workers /\ sesDir' \in {sesDir, [sesDir EXCEPT ![w.id] = d]}
        /\ UNCHANGED <<sesTomb, sesRan, sesOp, sesCount>>
    BY <1>2, <2>1, <2>2 DEF SesSave
  <2>4. /\ d \in SesDirs /\ d.spec = sesDir[w.id].spec /\ d.durable = sesDir[w.id].durable
        /\ d.status \notin {"absent", "none"}
    BY <2>1 DEF SesInv, SesTypeOK, SesDirs, SesOutcomes
  <2> HIDE DEF d, Workers
  <2> QED
    BY <1>0, <2>1, <2>3, <2>4
<1>3. ASSUME NEW w \in sesWorker, SesRelease(w)
      PROVE  SesInv'
  <2>1. /\ sesWorker' \subseteq Workers
        /\ UNCHANGED <<sesDir, sesTomb, sesRan, sesOp, sesCount>>
    BY <1>3 DEF SesRelease, SesInv, SesTypeOK
  <2> HIDE DEF Workers
  <2> QED
    BY <2>1, SesDirStep DEF SesInv, SesTypeOK, Workers
<1>4. ASSUME NEW id \in SesIds, SesGet(id) \/ SesOrphanExit(id)
      PROVE  SesInv'
  <2>1. UNCHANGED <<sesDir, sesTomb, sesRan, sesOp, sesCount, sesWorker>>
    BY <1>4 DEF SesGet, SesOrphanExit
  <2> QED
    BY <2>1, SesDirStep DEF SesInv, SesTypeOK
<1>5. ASSUME NEW id \in SesIds, SesMark(id)
      PROVE  SesInv'
  <2> DEFINE d == [sesDir[id] EXCEPT !.status = "interrupted"]
  <2>1. /\ sesWorker' \subseteq Workers /\ sesDir' \in {sesDir, [sesDir EXCEPT ![id] = d]}
        /\ UNCHANGED <<sesTomb, sesRan, sesOp, sesCount>>
    BY <1>5 DEF SesMark, SesInv, SesTypeOK
  <2>2. /\ d \in SesDirs /\ d.spec = sesDir[id].spec /\ d.durable = sesDir[id].durable
        /\ d.status \notin {"absent", "none"}
    BY DEF SesInv, SesTypeOK, SesDirs, SesOutcomes
  <2> HIDE DEF d, Workers
  <2> QED
    BY <1>0, <2>1, <2>2
<1> QED
  BY <1>1, <1>2, <1>3, <1>4, <1>5

\* The agent dies or the guest loses power: what had run is synced.
LEMMA SesCrashStep ==
  ASSUME SesInv, NEW power \in BOOLEAN, SesCrash(power)
  PROVE  SesInv'
<1>1. /\ sesOp' = SesIdle /\ sesWorker' = {} /\ UNCHANGED <<sesTomb, sesRan>>
      /\ sesCount' = [sesCount EXCEPT !.crashes = sesCount.crashes + 1]
  BY DEF SesCrash
<1>2. PICK lost \in SUBSET {id \in SesIds : power /\ SesPresent(id) /\ ~sesDir[id].durable} :
        sesDir' = [id \in SesIds |-> IF id \in lost THEN SesNoDir ELSE sesDir[id]]
  BY DEF SesCrash
<1>3. SesNoDir \in SesDirs
  BY DEF SesNoDir, SesDirs
<1>4. sesCount' \in [starts : Nat, crashes : Nat, used : SUBSET SesIds]
  BY <1>1 DEF SesInv, SesTypeOK
<1>5. sesDir' \in [SesIds -> SesDirs]
  BY <1>2, <1>3 DEF SesInv, SesTypeOK
<1>6. SesTypeOK'
  BY <1>1, <1>4, <1>5 DEF SesInv, SesTypeOK
<1>7. \A id \in SesIds : SesKept(id)'
  BY <1>1, <1>2 DEF SesInv, SesKept
<1> QED
  BY <1>1, <1>6, <1>7, SesIdleStep

\* A replayed request runs its command at most once, and an id whose command
\* ran is known for ever after, whatever is removed, repeated, crashed or lost
\* between any two steps (sessions.rs).
THEOREM ReplaysRunOnce ==
  SesInit /\ [][SesNext]_sesVars => []SesReplayOnce
<1>1. SesInit => SesInv
  BY SesBegins
<1>2. SesInv /\ [SesNext]_sesVars => SesInv'
  <2>1. ASSUME SesInv, SesNext PROVE SesInv'
    BY <2>1, SesBeginSteps, SesStartSteps, SesRemoveSteps, SesUnlockedSteps, SesCrashStep
       DEF SesNext
  <2>2. ASSUME SesInv, UNCHANGED sesVars PROVE SesInv'
    BY <2>2, SesDirStep DEF sesVars, SesInv, SesTypeOK
  <2> QED
    BY <2>1, <2>2
<1>3. SesInv => SesReplayOnce
  BY DEF SesInv, SesReplayOnce, SesKept
<1> QED
  BY <1>1, <1>2, <1>3, PTL

-----------------------------------------------------------------------------
(* GuestJob. *)

JobRecords == [exit : {"zero", "nonzero", "none"}, confirmed : BOOLEAN, cut : BOOLEAN,
               outcome : {"completed", "failed", "timed-out", "infrastructure"}]
JobManifests ==
  [commands : Seq(JobRecords), artifacts : Seq({"stored", "error"}),
   changed : {"unknown", "yes", "no"}, verified : BOOLEAN,
   collection : {"complete", "truncated", "failed"},
   outcome : {"completed", "failed", "timed-out", "infrastructure"}, size : {"fits", "large"}]

JobTypeOK ==
  /\ jobPc \in {"idle", "spawn", "wait", "inventory", "collect", "write"}
  /\ jobGroups \in [JobIndexes -> {"none", "empty", "populated"}]
  /\ jobSpawned \in [JobIndexes -> Nat]
  /\ jobManifest \in JobManifests
  /\ jobTrees \in BOOLEAN /\ jobDirty \in BOOLEAN

JobDone == Len(jobManifest.commands)
JobActive == jobPc # "idle"

\* The trees exist from the first run on, so there is only one; and a command
\* is spawned when its turn has come and not again.
JobSingle ==
  /\ ~jobTrees => ~JobActive /\ \A i \in JobIndexes : jobSpawned[i] = 0
  /\ jobPc = "spawn" => /\ JobDone < JobCommands
                        /\ \A i \in JobIndexes : i > JobDone => jobSpawned[i] = 0
  /\ jobPc = "wait" => /\ JobDone < JobCommands
                       /\ \A i \in JobIndexes : i > JobDone + 1 => jobSpawned[i] = 0
  /\ \A i \in JobIndexes : jobSpawned[i] <= 1

\* While the runner is at work, a populated cgroup is the running command's or
\* is recorded as not confirmed.
JobAccounted ==
  /\ ~jobTrees => JobLive = {}
  /\ JobActive => \A i \in JobLive : \/ i <= JobDone /\ ~jobManifest.commands[i].confirmed
                                     \/ jobPc = "wait" /\ i = JobDone + 1

\* What the records say agrees with each other and with the job's outcome.
JobConsistent ==
  /\ \A k \in 1..JobDone : JobCommandConsistent(jobManifest.commands[k])
  /\ jobManifest.outcome = "completed" =>
       \A k \in 1..JobDone : jobManifest.commands[k].outcome = "completed"
  /\ jobPc \in {"inventory", "collect", "write"} =>
       /\ JobDone \in 1..JobCommands
       /\ jobManifest.outcome = "completed" => JobDone = JobCommands

\* Before the inventory the manifest says nothing of the tree; after it, a
\* completed outcome rests on a clean inventory and on stored artifacts.
JobEvident ==
  /\ jobPc \in {"spawn", "wait", "inventory"} =>
       /\ jobManifest.changed = "unknown" /\ jobManifest.verified
       /\ jobManifest.collection = "complete" /\ jobManifest.artifacts = <<>>
  /\ jobPc \in {"collect", "write"} /\ jobManifest.outcome = "completed" =>
       /\ jobManifest.changed = "no" /\ jobManifest.verified
       /\ jobManifest.collection # "failed"
       /\ \A k \in 1..Len(jobManifest.artifacts) : jobManifest.artifacts[k] # "error"
  /\ jobPc = "write" => Len(jobManifest.artifacts) = JobArtifacts

\* An inventory that found no change was taken of a tree nothing changes any
\* more, and so is a completed result.
JobFrozen ==
  /\ jobPc \in {"collect", "write"} /\ jobManifest.changed = "no" =>
       JobLive = {} /\ ~jobDirty
  /\ jobResult.outcome = "completed" => JobLive = {} /\ ~jobDirty /\ ~JobActive /\ jobTrees

JobInv == JobTypeOK /\ JobSingle /\ JobAccounted /\ JobConsistent /\ JobEvident /\ JobFrozen

\* A fresh guest.
LEMMA JobBegins == JobInit => JobInv
<1> SUFFICES ASSUME JobInit PROVE JobInv
  OBVIOUS
<1> USE DEF JobInit
<1>1. /\ jobManifest \in JobManifests /\ JobDone = 0 /\ jobManifest.outcome = "completed"
      /\ jobManifest.commands = <<>>
  BY DEF JobFresh, JobManifests, JobDone
<1>2. JobLive = {}
  BY DEF JobLive
<1>3. JobTypeOK
  BY <1>1 DEF JobTypeOK
<1>4. JobSingle /\ JobAccounted /\ JobConsistent
  BY <1>1, <1>2 DEF JobSingle, JobAccounted, JobConsistent, JobActive
<1>5. JobEvident /\ JobFrozen
  BY <1>2 DEF JobEvident, JobFrozen, JobNoResult
<1> QED
  BY <1>3, <1>4, <1>5 DEF JobInv

\* A command's record is added, by a runner that has just ended its cgroup or
\* could not start it.
LEMMA JobRecordStep ==
  ASSUME JobInv, jobPc \in {"spawn", "wait"}, NEW c \in JobRecords, JobCommandConsistent(c),
         JobRecord(c), UNCHANGED <<jobTrees, jobDirty, jobSpawned, jobResult>>,
         jobGroups' \in [JobIndexes -> {"none", "empty", "populated"}],
         \A i \in JobIndexes : jobGroups'[i] = "populated" =>
           \/ jobGroups[i] = "populated" /\ i <= JobDone
           \/ i = JobDone + 1 /\ ~c.confirmed
  PROVE  JobInv'
<1> DEFINE cs == jobManifest.commands
           m == jobManifest
<1>1. PICK n \in Nat : n = JobDone /\ n = Len(cs) /\ n < JobCommands
  BY DEF JobInv, JobSingle, JobTypeOK, JobManifests, JobDone
<1>2. /\ cs \in Seq(JobRecords) /\ Append(cs, c) \in Seq(JobRecords)
      /\ Len(Append(cs, c)) = n + 1 /\ Append(cs, c)[n + 1] = c
      /\ \A k \in 1..n : Append(cs, c)[k] = cs[k]
  BY <1>1 DEF JobInv, JobTypeOK, JobManifests
<1>3. jobManifest' = [jobManifest EXCEPT !.commands = Append(cs, c),
                        !.outcome = IF c.outcome # "completed" THEN c.outcome ELSE m.outcome]
  BY DEF JobRecord
<1>4. /\ jobManifest' \in JobManifests /\ jobManifest'.commands = Append(cs, c)
      /\ jobManifest'.outcome = (IF c.outcome # "completed" THEN c.outcome ELSE m.outcome)
      /\ jobManifest'.changed = m.changed /\ jobManifest'.verified = m.verified
      /\ jobManifest'.collection = m.collection /\ jobManifest'.artifacts = m.artifacts
  <2> DEFINE o == IF c.outcome # "completed" THEN c.outcome ELSE m.outcome
             s == Append(cs, c)
  <2>1. o \in {"completed", "failed", "timed-out", "infrastructure"}
    BY DEF JobInv, JobTypeOK, JobManifests, JobRecords
  <2>2. s \in Seq(JobRecords) /\ jobManifest' = [jobManifest EXCEPT !.commands = s, !.outcome = o]
    BY <1>2, <1>3
  <2> HIDE DEF o, s
  <2>3. /\ jobManifest' \in JobManifests /\ jobManifest'.commands = s
        /\ jobManifest'.outcome = o
        /\ jobManifest'.changed = m.changed /\ jobManifest'.verified = m.verified
        /\ jobManifest'.collection = m.collection /\ jobManifest'.artifacts = m.artifacts
    BY <2>1, <2>2 DEF JobInv, JobTypeOK, JobManifests
  <2> QED
    BY <2>3 DEF o, s
<1>5. JobDone' = n + 1 /\ Len(jobManifest'.commands) = n + 1
  BY <1>2, <1>4 DEF JobDone
<1>6. /\ jobPc' \in {"spawn", "inventory"}
      /\ jobPc' = "spawn" => n + 1 # JobCommands
      /\ jobPc' = "inventory" => \/ ~c.confirmed \/ c.outcome \in {"timed-out", "infrastructure"}
                                 \/ n + 1 = JobCommands
  BY <1>5 DEF JobRecord
<1> HIDE DEF cs, m
<1>7. JobTypeOK'
  BY <1>4, <1>6 DEF JobInv, JobTypeOK
<1>8. JobSingle'
  <2>1. jobTrees
    BY DEF JobInv, JobSingle, JobActive, JobTypeOK
  <2>2. \A i \in JobIndexes : i > n + 1 => jobSpawned[i] = 0
    BY <1>1 DEF JobInv, JobSingle, JobIndexes
  <2>3. JobDone' < JobCommands \/ jobPc' # "spawn"
    BY <1>1, <1>5, <1>6, JobAssumption
  <2> QED
    BY <1>5, <1>6, <2>1, <2>2, <2>3 DEF JobInv, JobSingle
<1>9. JobAccounted'
  <2>1. jobTrees' /\ jobPc' # "wait"
    BY <1>6 DEF JobInv, JobSingle, JobActive, JobTypeOK
  <2>2. ASSUME NEW i \in JobLive'
        PROVE  i <= n + 1 /\ ~jobManifest'.commands[i].confirmed
    <3>1. i \in JobIndexes /\ jobGroups'[i] = "populated"
      BY <2>2 DEF JobLive
    <3>2. CASE i = n + 1 /\ ~c.confirmed
      BY <1>1, <1>2, <1>4, <3>2
    <3>3. CASE jobGroups[i] = "populated" /\ i <= n
      <4>1. ~jobManifest.commands[i].confirmed
        BY <1>1, <3>1, <3>3 DEF JobInv, JobAccounted, JobActive, JobLive
      <4> QED
        BY <1>1, <1>2, <1>4, <3>1, <3>3, <4>1 DEF cs, JobIndexes
    <3> QED
      BY <1>1, <3>1, <3>2, <3>3
  <2> QED
    BY <1>5, <2>1, <2>2 DEF JobAccounted
<1>10. JobConsistent'
  <2>1. \A k \in 1..(n + 1) : /\ JobCommandConsistent(jobManifest'.commands[k])
                              /\ k = n + 1 => jobManifest'.commands[k] = c
                              /\ k # n + 1 => jobManifest'.commands[k] = cs[k]
    BY <1>1, <1>2, <1>4 DEF JobInv, JobConsistent, cs
  <2>2. jobManifest'.outcome = "completed" => c.outcome = "completed" /\ m.outcome = "completed"
    BY <1>4
  <2>3. jobManifest'.outcome = "completed" =>
          \A k \in 1..(n + 1) : jobManifest'.commands[k].outcome = "completed"
    BY <1>1, <2>1, <2>2 DEF JobInv, JobConsistent, cs, m
  <2>4. c.outcome = "completed" => c.confirmed
    BY DEF JobCommandConsistent
  <2>5. n + 1 \in 1..JobCommands
    BY <1>1, JobAssumption
  <2>6. \A k \in 1..(n + 1) : JobCommandConsistent(jobManifest.commands[k])'
    BY <2>1 DEF JobCommandConsistent
  <2> QED
    BY <1>5, <1>6, <2>2, <2>3, <2>4, <2>5, <2>6 DEF JobConsistent
<1>11. JobEvident'
  BY <1>4, <1>6 DEF JobInv, JobEvident, m
<1>12. JobFrozen'
  BY <1>6 DEF JobInv, JobFrozen, JobActive
<1> QED
  BY <1>7, <1>8, <1>9, <1>10, <1>11, <1>12 DEF JobInv

\* The runner ends without a result, or something outside it happens.
LEMMA JobQuietSteps ==
  ASSUME JobInv,
         \/ JobPrepare \/ JobRunnerKilled \/ JobTamper \/ JobExpire
         \/ \E i \in JobIndexes : JobDrain(i)
  PROVE  JobInv'
<1> USE DEF JobInv
<1>1. CASE JobPrepare \/ JobExpire
  <2>1. UNCHANGED <<jobPc, jobTrees, jobGroups, jobDirty, jobSpawned, jobManifest, jobResult>>
    BY <1>1 DEF JobPrepare, JobExpire
  <2> QED
    BY <2>1 DEF JobTypeOK, JobSingle, JobAccounted, JobConsistent, JobEvident, JobFrozen,
                JobDone, JobActive, JobLive, JobCommandConsistent
<1>2. CASE JobRunnerKilled
  <2>1. /\ jobPc' = "idle" /\ JobActive
        /\ UNCHANGED <<jobTrees, jobGroups, jobDirty, jobSpawned, jobManifest, jobResult>>
    BY <1>2 DEF JobRunnerKilled, JobActive
  <2> QED
    BY <2>1 DEF JobTypeOK, JobSingle, JobAccounted, JobConsistent, JobEvident, JobFrozen,
                JobDone, JobActive, JobLive, JobCommandConsistent
<1>3. CASE JobTamper
  <2>1. /\ JobLive # {} /\ jobDirty' = TRUE
        /\ UNCHANGED <<jobPc, jobTrees, jobGroups, jobSpawned, jobManifest, jobResult>>
    BY <1>3 DEF JobTamper
  <2> QED
    BY <2>1 DEF JobTypeOK, JobSingle, JobAccounted, JobConsistent, JobEvident, JobFrozen,
                JobDone, JobActive, JobLive, JobCommandConsistent
<1>4. ASSUME NEW i \in JobIndexes, JobDrain(i)
      PROVE  JobInv'
  <2>1. /\ jobPc = "idle" /\ jobGroups' = [jobGroups EXCEPT ![i] = "empty"]
        /\ UNCHANGED <<jobPc, jobTrees, jobDirty, jobSpawned, jobManifest, jobResult>>
    BY <1>4 DEF JobDrain
  <2>2. JobTypeOK' /\ JobLive' \subseteq JobLive
    BY <2>1 DEF JobTypeOK, JobLive
  <2> QED
    BY <2>1, <2>2 DEF JobSingle, JobAccounted, JobConsistent, JobEvident, JobFrozen,
                      JobDone, JobActive, JobCommandConsistent
<1> QED
  BY <1>1, <1>2, <1>3, <1>4

\* run: the one run of this guest begins with nothing spawned and no record.
LEMMA JobRunStep ==
  ASSUME JobInv, JobRun
  PROVE  JobInv'
<1> USE DEF JobInv
<1>1. CASE JobRunnable
  <2>1. /\ ~jobTrees /\ jobPc' = "spawn" /\ jobTrees' = TRUE /\ jobManifest' = JobFresh
        /\ UNCHANGED <<jobGroups, jobDirty, jobSpawned, jobResult>>
    BY <1>1 DEF JobRun, JobRunnable
  <2>2. /\ jobManifest' \in JobManifests /\ JobDone' = 0
        /\ jobManifest'.changed = "unknown" /\ jobManifest'.verified
        /\ jobManifest'.collection = "complete" /\ jobManifest'.artifacts = <<>>
    BY <2>1 DEF JobFresh, JobManifests, JobDone
  <2>3. JobTypeOK'
    BY <2>1, <2>2 DEF JobTypeOK
  <2>4. JobSingle' /\ JobConsistent' /\ JobEvident'
    BY <2>1, <2>2, JobAssumption DEF JobSingle, JobConsistent, JobEvident, JobIndexes
  <2>5. JobLive' = {} /\ jobResult.outcome # "completed"
    BY <2>1 DEF JobAccounted, JobLive, JobFrozen
  <2> QED
    BY <2>1, <2>3, <2>4, <2>5 DEF JobAccounted, JobFrozen
<1>2. CASE ~JobRunnable
  <2>1. UNCHANGED <<jobPc, jobTrees, jobGroups, jobDirty, jobSpawned, jobManifest, jobResult>>
    BY <1>2 DEF JobRun
  <2> QED
    BY <2>1 DEF JobTypeOK, JobSingle, JobAccounted, JobConsistent, JobEvident, JobFrozen,
                JobDone, JobActive, JobLive, JobCommandConsistent
<1> QED
  BY <1>1, <1>2

\* execute and its wait: a command's turn comes once, and its record says
\* whether its cgroup was seen empty.
LEMMA JobCommandSteps ==
  ASSUME JobInv, JobSpawn \/ JobWait
  PROVE  JobInv'
<1>0. PICK n \in Nat : n = JobDone /\ JobNextIndex = n + 1
  BY DEF JobInv, JobTypeOK, JobManifests, JobDone, JobNextIndex
<1>1. JobFailedStart \in JobRecords /\ JobCommandConsistent(JobFailedStart)
      /\ JobFailedStart.confirmed = FALSE
  BY DEF JobFailedStart, JobRecords, JobCommandConsistent
<1>2. CASE JobSpawn
  <2>1. jobPc = "spawn" /\ UNCHANGED <<jobTrees, jobDirty, jobResult>> /\ jobTrees
    BY <1>2 DEF JobSpawn, JobInv, JobSingle, JobActive, JobTypeOK
  <2>2. CASE JobRecord(JobFailedStart) /\ UNCHANGED <<jobGroups, jobSpawned>>
    <3>1. \A i \in JobIndexes : jobGroups[i] = "populated" => i <= JobDone
      BY <2>1 DEF JobInv, JobAccounted, JobActive, JobLive
    <3> QED
      BY <1>1, <2>1, <2>2, <3>1, JobRecordStep DEF JobInv, JobTypeOK
  <2>3. CASE /\ jobGroups' = [jobGroups EXCEPT ![n + 1] = "populated"]
             /\ jobSpawned' = [jobSpawned EXCEPT ![n + 1] = jobSpawned[n + 1] + 1]
             /\ jobPc' = "wait" /\ UNCHANGED jobManifest
    <3>1. n + 1 \in JobIndexes /\ n < JobCommands
      BY <1>0, <2>1, JobAssumption DEF JobInv, JobSingle, JobIndexes
    <3>2. JobTypeOK'
      BY <2>1, <2>3, <3>1 DEF JobInv, JobTypeOK
    <3>3. /\ jobSpawned'[n + 1] = 1 /\ \A i \in JobIndexes \ {n + 1} : jobSpawned'[i] = jobSpawned[i]
          /\ JobLive' \subseteq JobLive \cup {n + 1}
      <4>1. jobSpawned[n + 1] = 0
        BY <1>0, <2>1, <3>1 DEF JobInv, JobSingle
      <4> QED
        BY <2>3, <3>1, <4>1 DEF JobInv, JobTypeOK, JobLive
    <3>4. JobDone' = n
      BY <1>0, <2>3 DEF JobDone
    <3>5. JobSingle'
      <4>1. \A i \in JobIndexes : i > n + 1 => jobSpawned'[i] = 0
        BY <1>0, <2>1, <3>3 DEF JobInv, JobSingle, JobIndexes
      <4>2. \A i \in JobIndexes : jobSpawned'[i] <= 1
        BY <3>3 DEF JobInv, JobSingle
      <4> QED
        BY <2>1, <2>3, <3>1, <3>4, <4>1, <4>2 DEF JobSingle
    <3>6. JobAccounted'
      BY <1>0, <2>1, <2>3, <3>3, <3>4 DEF JobInv, JobAccounted, JobActive
    <3>7. JobConsistent' /\ JobEvident'
      BY <1>0, <2>1, <2>3, <3>4
         DEF JobInv, JobConsistent, JobEvident, JobCommandConsistent
    <3>8. JobFrozen'
      BY <2>1, <2>3 DEF JobInv, JobFrozen, JobActive
    <3> QED
      BY <3>2, <3>5, <3>6, <3>7, <3>8 DEF JobInv
  <2> QED
    BY <1>0, <1>2, <2>2, <2>3 DEF JobSpawn
<1>3. CASE JobWait
  <2>1. jobPc = "wait" /\ UNCHANGED <<jobTrees, jobDirty, jobSpawned, jobResult>>
    BY <1>3 DEF JobWait
  <2>2. PICK exit \in {"zero", "nonzero", "none"}, ok \in BOOLEAN, cut \in BOOLEAN :
          /\ JobTerminate(n + 1, ok)
          /\ \/ JobRecord([exit |-> exit, confirmed |-> ok, cut |-> cut,
                           outcome |-> IF ~ok THEN "infrastructure"
                                       ELSE CASE exit = "zero"    -> "completed"
                                              [] exit = "nonzero" -> "failed"
                                              [] exit = "none"    -> "timed-out"])
             \/ JobRecord(JobFailedStart)
    BY <1>0, <1>3 DEF JobWait
  <2> DEFINE outcome == IF ~ok THEN "infrastructure"
                        ELSE CASE exit = "zero"    -> "completed"
                               [] exit = "nonzero" -> "failed"
                               [] exit = "none"    -> "timed-out"
             c == [exit |-> exit, confirmed |-> ok, cut |-> cut, outcome |-> outcome]
  <2>3. /\ outcome \in {"completed", "failed", "timed-out", "infrastructure"}
        /\ outcome = "completed" => exit = "zero" /\ ok
        /\ outcome = "failed" => exit = "nonzero" /\ ok
    BY <2>2
  <2>4. JobRecord(c) \/ JobRecord(JobFailedStart)
    BY <2>2
  <2> HIDE DEF outcome
  <2>5. c \in JobRecords /\ JobCommandConsistent(c) /\ c.confirmed = ok
    BY <2>3 DEF JobRecords, JobCommandConsistent
  <2> HIDE DEF c
  <2>6. n + 1 \in JobIndexes
    BY <1>0, <2>1, JobAssumption DEF JobInv, JobSingle, JobIndexes
  <2>7. /\ jobGroups' \in [JobIndexes -> {"none", "empty", "populated"}]
        /\ jobGroups'[n + 1] = (IF ok THEN "none" ELSE "populated")
        /\ \A i \in JobIndexes \ {n + 1} : jobGroups'[i] = jobGroups[i]
    BY <2>2, <2>6 DEF JobTerminate, JobInv, JobTypeOK
  <2>8. \A i \in JobIndexes : jobGroups'[i] = "populated" =>
          (jobGroups[i] = "populated" /\ i <= JobDone) \/ (i = JobDone + 1 /\ ~ok)
    BY <1>0, <2>1, <2>7 DEF JobInv, JobAccounted, JobActive, JobLive
  <2>9. CASE JobRecord(c)
    BY <2>1, <2>5, <2>7, <2>8, <2>9, JobRecordStep
  <2>10. CASE JobRecord(JobFailedStart)
    BY <1>1, <2>1, <2>7, <2>8, <2>10, JobRecordStep
  <2> QED
    BY <2>4, <2>9, <2>10
<1> QED
  BY <1>2, <1>3

\* A step after the commands: it changes what the manifest says of tree,
\* artifacts and outcome, never a record, and completes nothing that was not.
LEMMA JobManifestStep ==
  ASSUME JobInv, jobPc \in {"inventory", "collect"}, jobPc' \in {"collect", "write"},
         UNCHANGED <<jobTrees, jobGroups, jobDirty, jobSpawned, jobResult>>,
         jobManifest' \in JobManifests, jobManifest'.commands = jobManifest.commands,
         jobManifest'.outcome = "completed" => jobManifest.outcome = "completed",
         JobEvident',
         jobManifest'.changed = "no" => JobLive = {} /\ ~jobDirty
  PROVE  JobInv'
<1>1. JobTypeOK' /\ JobDone' = JobDone /\ JobLive' = JobLive /\ JobActive /\ JobActive'
  BY DEF JobInv, JobTypeOK, JobDone, JobLive, JobActive
<1>2. JobSingle' /\ JobAccounted'
  BY <1>1 DEF JobInv, JobSingle, JobAccounted, JobTypeOK
<1>3. JobConsistent'
  BY <1>1 DEF JobInv, JobConsistent, JobCommandConsistent
<1>4. JobFrozen'
  BY <1>1 DEF JobInv, JobFrozen
<1> QED
  BY <1>1, <1>2, <1>3, <1>4 DEF JobInv

\* When every record is confirmed, no process of the job lives.
LEMMA JobTerminatedDead ==
  ASSUME JobInv, jobPc \in {"inventory", "collect"}, JobAllTerminated
  PROVE  JobLive = {}
<1> SUFFICES ASSUME NEW i \in JobLive PROVE FALSE
  OBVIOUS
<1>1. i \in 1..JobDone /\ ~jobManifest.commands[i].confirmed
  BY DEF JobInv, JobAccounted, JobActive, JobLive, JobIndexes, JobTypeOK, JobManifests, JobDone
<1> QED
  BY <1>1 DEF JobAllTerminated, JobDone

\* Inventory, collection and the seal.
LEMMA JobEvidenceSteps ==
  ASSUME JobInv, JobInventory \/ JobCollect \/ JobSeal
  PROVE  JobInv'
<1>0. jobManifest \in JobManifests
  BY DEF JobInv, JobTypeOK
<1>1. CASE JobInventory
  <2> DEFINE m == IF JobCut THEN [jobManifest EXCEPT !.collection = "truncated"] ELSE jobManifest
  <2>1. /\ jobPc = "inventory" /\ jobPc' = "collect"
        /\ UNCHANGED <<jobTrees, jobGroups, jobDirty, jobSpawned, jobResult>>
        /\ \/ /\ JobAllTerminated
              /\ jobManifest' = [m EXCEPT !.changed = IF jobDirty THEN "yes" ELSE "no",
                                          !.outcome = IF jobDirty THEN "infrastructure"
                                                      ELSE m.outcome]
           \/ jobManifest' = [m EXCEPT !.verified = FALSE, !.outcome = "infrastructure",
                                       !.collection = "failed"]
    BY <1>1 DEF JobInventory
  <2>2. /\ m \in JobManifests /\ m.commands = jobManifest.commands /\ m.verified
        /\ m.outcome = jobManifest.outcome /\ m.collection # "failed"
        /\ m.artifacts = <<>> /\ m.changed = "unknown"
    <3>1. /\ jobManifest.changed = "unknown" /\ jobManifest.verified
          /\ jobManifest.collection = "complete" /\ jobManifest.artifacts = <<>>
      BY <2>1 DEF JobInv, JobEvident
    <3>2. CASE JobCut
      BY <1>0, <3>1, <3>2 DEF JobManifests
    <3>3. CASE ~JobCut
      BY <1>0, <3>1, <3>3
    <3> QED
      BY <3>2, <3>3
  <2> HIDE DEF m
  <2>3. CASE /\ JobAllTerminated
             /\ jobManifest' = [m EXCEPT !.changed = IF jobDirty THEN "yes" ELSE "no",
                                         !.outcome = IF jobDirty THEN "infrastructure"
                                                     ELSE m.outcome]
    <3>1. JobLive = {}
      BY <2>1, <2>3, JobTerminatedDead
    <3>2. CASE jobDirty
      <4>1. jobManifest' = [m EXCEPT !.changed = "yes", !.outcome = "infrastructure"]
        BY <2>3, <3>2
      <4>2. /\ jobManifest' \in JobManifests /\ jobManifest'.commands = jobManifest.commands
            /\ jobManifest'.outcome # "completed" /\ jobManifest'.changed # "no"
        BY <2>2, <4>1 DEF JobManifests
      <4>3. JobEvident'
        BY <2>1, <4>2 DEF JobEvident
      <4> QED
        BY <2>1, <4>2, <4>3, JobManifestStep
    <3>3. CASE ~jobDirty
      <4>1. jobManifest' = [m EXCEPT !.changed = "no", !.outcome = m.outcome]
        BY <2>3, <3>3
      <4>2. /\ jobManifest' \in JobManifests /\ jobManifest'.commands = jobManifest.commands
            /\ jobManifest'.outcome = jobManifest.outcome /\ jobManifest'.changed = "no"
            /\ jobManifest'.verified /\ jobManifest'.collection # "failed"
            /\ jobManifest'.artifacts = <<>>
        BY <2>2, <4>1 DEF JobManifests
      <4>3. JobEvident'
        BY <2>1, <4>2 DEF JobEvident
      <4> QED
        BY <2>1, <3>1, <3>3, <4>2, <4>3, JobManifestStep
    <3> QED
      BY <3>2, <3>3
  <2>4. CASE jobManifest' = [m EXCEPT !.verified = FALSE, !.outcome = "infrastructure",
                                      !.collection = "failed"]
    <3>1. /\ jobManifest' \in JobManifests /\ jobManifest'.commands = jobManifest.commands
          /\ jobManifest'.outcome # "completed" /\ jobManifest'.changed # "no"
      BY <2>2, <2>4 DEF JobManifests
    <3>2. JobEvident'
      BY <2>1, <3>1 DEF JobEvident
    <3> QED
      BY <2>1, <3>1, <3>2, JobManifestStep
  <2> QED
    BY <2>1, <2>3, <2>4
<1>2. CASE JobCollect
  <2>1. /\ jobPc = "collect" /\ jobPc' = "collect"
        /\ UNCHANGED <<jobTrees, jobGroups, jobDirty, jobSpawned, jobResult>>
    BY <1>2 DEF JobCollect
  <2>2. CASE jobManifest' = [jobManifest EXCEPT !.artifacts = Append(jobManifest.artifacts, "stored")]
    <3> DEFINE old == jobManifest.artifacts
               new == Append(old, "stored")
    <3>1. old \in Seq({"stored", "error"})
      BY <1>0 DEF JobManifests
    <3>2. /\ new \in Seq({"stored", "error"})
          /\ (\A k \in 1..Len(old) : old[k] # "error") => \A k \in 1..Len(new) : new[k] # "error"
      <4> HIDE DEF old
      <4> QED BY <3>1
    <3>3. jobManifest' = [jobManifest EXCEPT !.artifacts = new]
      BY <2>2
    <3> HIDE DEF new
    <3>4. /\ jobManifest' \in JobManifests /\ jobManifest'.commands = jobManifest.commands
          /\ jobManifest'.outcome = jobManifest.outcome /\ jobManifest'.changed = jobManifest.changed
          /\ jobManifest'.verified = jobManifest.verified
          /\ jobManifest'.collection = jobManifest.collection /\ jobManifest'.artifacts = new
      BY <1>0, <3>2, <3>3 DEF JobManifests
    <3>5. JobEvident'
      BY <2>1, <3>2, <3>4 DEF JobInv, JobEvident
    <3>6. jobManifest'.changed = "no" => JobLive = {} /\ ~jobDirty
      BY <2>1, <3>4 DEF JobInv, JobFrozen
    <3> QED
      BY <2>1, <3>4, <3>5, <3>6, JobManifestStep
  <2>3. CASE jobManifest' = [jobManifest EXCEPT !.artifacts = Append(jobManifest.artifacts, "error"),
                               !.collection = "failed", !.outcome = "infrastructure"]
    <3> DEFINE new == Append(jobManifest.artifacts, "error")
    <3>1. new \in Seq({"stored", "error"})
      BY <1>0 DEF JobManifests
    <3>2. jobManifest' = [jobManifest EXCEPT !.artifacts = new, !.collection = "failed",
                                             !.outcome = "infrastructure"]
      BY <2>3
    <3> HIDE DEF new
    <3>3. /\ jobManifest' \in JobManifests /\ jobManifest'.commands = jobManifest.commands
          /\ jobManifest'.outcome # "completed" /\ jobManifest'.changed = jobManifest.changed
      BY <1>0, <3>1, <3>2 DEF JobManifests
    <3>4. JobEvident'
      BY <2>1, <3>3 DEF JobEvident
    <3>5. jobManifest'.changed = "no" => JobLive = {} /\ ~jobDirty
      BY <2>1, <3>3 DEF JobInv, JobFrozen
    <3> QED
      BY <2>1, <3>3, <3>4, <3>5, JobManifestStep
  <2> QED
    BY <1>2, <2>2, <2>3 DEF JobCollect
<1>3. CASE JobSeal
  <2>1. /\ jobPc = "collect" /\ jobPc' = "write" /\ Len(jobManifest.artifacts) = JobArtifacts
        /\ UNCHANGED <<jobTrees, jobGroups, jobDirty, jobSpawned, jobResult>>
    BY <1>3 DEF JobSeal
  <2>5. PICK z \in {"fits", "large"} :
          jobManifest' = [jobManifest EXCEPT
            !.outcome = IF jobExpired THEN "timed-out" ELSE jobManifest.outcome, !.size = z]
    BY <1>3 DEF JobSeal
  <2>2. /\ jobManifest' \in JobManifests /\ jobManifest'.commands = jobManifest.commands
        /\ jobManifest'.outcome \in {"timed-out", jobManifest.outcome}
        /\ jobManifest'.changed = jobManifest.changed
        /\ jobManifest'.verified = jobManifest.verified
        /\ jobManifest'.collection = jobManifest.collection
        /\ jobManifest'.artifacts = jobManifest.artifacts
    BY <1>0, <2>5 DEF JobManifests
  <2>3. JobEvident'
    BY <2>1, <2>2 DEF JobInv, JobEvident
  <2>4. jobManifest'.changed = "no" => JobLive = {} /\ ~jobDirty
    BY <2>1, <2>2 DEF JobInv, JobFrozen
  <2> QED
    BY <2>1, <2>2, <2>3, <2>4, JobManifestStep
<1> QED
  BY <1>1, <1>2, <1>3

\* A manifest that reaches the write passes its own decoder if it is not too
\* large for it.
LEMMA JobWritable ==
  ASSUME JobInv, jobPc = "write"
  PROVE  JobDecodes([jobManifest EXCEPT !.size = "fits"])
<1>1. /\ JobDone \in 1..JobCommands /\ Len(jobManifest.artifacts) = JobArtifacts
      /\ \A k \in 1..JobDone : JobCommandConsistent(jobManifest.commands[k])
  BY DEF JobInv, JobConsistent, JobEvident
<1>2. ASSUME jobManifest.outcome = "completed"
      PROVE  /\ JobDone = JobCommands
             /\ \A k \in 1..JobDone : jobManifest.commands[k].outcome = "completed"
             /\ jobManifest.changed = "no" /\ jobManifest.verified
             /\ jobManifest.collection # "failed"
             /\ \A k \in 1..Len(jobManifest.artifacts) : jobManifest.artifacts[k] # "error"
  BY <1>2 DEF JobInv, JobConsistent, JobEvident
<1>3. PICK m : m = [jobManifest EXCEPT !.size = "fits"]
  OBVIOUS
<1>4. /\ m.size = "fits" /\ m.commands = jobManifest.commands
      /\ m.artifacts = jobManifest.artifacts /\ m.outcome = jobManifest.outcome
      /\ m.changed = jobManifest.changed /\ m.verified = jobManifest.verified
      /\ m.collection = jobManifest.collection
  BY <1>3 DEF JobInv, JobTypeOK, JobManifests
<1>5. JobDecodes(m)
  BY <1>1, <1>2, <1>4 DEF JobDecodes, JobDone
<1> QED
  BY <1>3, <1>5

\* result.json is created from such a manifest, once.
LEMMA JobWriteStep ==
  ASSUME JobInv, JobWrite
  PROVE  JobInv'
<1>1. /\ jobPc = "write" /\ jobPc' = "idle" /\ jobResult' \in {jobManifest, jobResult} /\ jobTrees
      /\ UNCHANGED <<jobTrees, jobGroups, jobDirty, jobSpawned, jobManifest>>
  BY DEF JobWrite, JobInv, JobSingle, JobActive, JobTypeOK
<1>2. JobTypeOK' /\ JobDone' = JobDone /\ JobLive' = JobLive /\ ~JobActive' /\ JobActive
  BY <1>1 DEF JobInv, JobTypeOK, JobDone, JobLive, JobActive
<1>3. JobSingle' /\ JobAccounted' /\ JobConsistent' /\ JobEvident'
  BY <1>1, <1>2 DEF JobInv, JobSingle, JobAccounted, JobConsistent, JobEvident,
                    JobCommandConsistent
<1>4. jobManifest.outcome = "completed" => JobLive = {} /\ ~jobDirty
  BY <1>1 DEF JobInv, JobEvident, JobFrozen
<1>5. JobFrozen'
  BY <1>1, <1>2, <1>4 DEF JobInv, JobFrozen
<1> QED
  BY <1>2, <1>3, <1>5 DEF JobInv

\* The evidence of a job can be believed: a completed result is of a tree that
\* no living process can still change, no command is spawned twice whatever is
\* killed and started again, and a manifest the runner ends with is refused by
\* its own decoder for its size alone (job_runner.rs, job_process.rs,
\* job_result.rs).
THEOREM JobEvidenceBelievable ==
  JobInit /\ [][JobNext]_jobVars => []JobEvidenceSound
<1>1. JobInit => JobInv
  BY JobBegins
<1>2. JobInv /\ [JobNext]_jobVars => JobInv'
  <2>1. ASSUME JobInv, JobNext PROVE JobInv'
    BY <2>1, JobQuietSteps, JobRunStep, JobCommandSteps, JobEvidenceSteps, JobWriteStep
       DEF JobNext
  <2>2. ASSUME JobInv, UNCHANGED jobVars PROVE JobInv'
    BY <2>2 DEF jobVars, JobInv, JobTypeOK, JobSingle, JobAccounted, JobConsistent, JobEvident,
                JobFrozen, JobDone, JobActive, JobLive, JobCommandConsistent
  <2> QED
    BY <2>1, <2>2
<1>3. JobInv => JobEvidenceSound
  BY JobWritable DEF JobInv, JobEvidenceSound, JobFrozen, JobSingle
<1> QED
  BY <1>1, <1>2, <1>3, PTL

-----------------------------------------------------------------------------
(* The guest side of the connection (GuestLink).                           *)

\* Version v of the guest file, up to chunk n.
LnkPart(v, n) == [k \in 1..n |-> <<v, k>>]

\* A version's inode holds the bytes of that version: files are replaced by
\* rename, and no version is empty.
LnkFiles ==
  /\ lnkFile \in Seq(Nat \ {0}) /\ Len(lnkFile) >= 1
  /\ lnkInode \in Seq(Nat) /\ Len(lnkInode) = Len(lnkFile)
  /\ \A v \in 1..Len(lnkFile) : lnkInode[v] = v

\* A copy that goes on has the first chunks of the version it was told of.
LnkCopying ==
  /\ lnkCopy \in [pc : {"idle", "ask", "data", "done", "failed"},
                  buf : Seq(Nat \X Nat), expect : Seq(Nat), ver : Nat]
  /\ lnkCopy.pc \in {"ask", "data"} =>
       \/ lnkCopy.expect = <<>> /\ lnkCopy.buf = <<>>
       \/ \E e \in 1..Len(lnkFile) :
             /\ lnkCopy.expect = <<e>> /\ Len(lnkCopy.buf) < lnkFile[e]
             /\ lnkCopy.buf = LnkPart(e, Len(lnkCopy.buf))
  /\ lnkCopy.pc = "data" => lnkCopy.ver \in 1..Len(lnkFile)

LnkInv == LnkFiles /\ LnkCopying /\ LnkCopyWhole

\* The first chunks of a version, and one more.
LEMMA LnkPartFacts ==
  ASSUME NEW v \in Nat, NEW n \in Nat
  PROVE  /\ LnkPart(v, n) \in Seq(Nat \X Nat) /\ Len(LnkPart(v, n)) = n
         /\ LnkPart(v, n) \o <<<<v, n + 1>>>> = LnkPart(v, n + 1)
         /\ n = 0 => LnkPart(v, n) = <<>>
<1>1. LnkPart(v, n) \in Seq(Nat \X Nat) /\ Len(LnkPart(v, n)) = n
  BY DEF LnkPart
<1>2. LnkPart(v, n + 1) \in Seq(Nat \X Nat) /\ Len(LnkPart(v, n + 1)) = n + 1
  BY DEF LnkPart
<1>3. LnkPart(v, n) \o <<<<v, n + 1>>>> = LnkPart(v, n + 1)
  <2> DEFINE s == LnkPart(v, n)
             t == <<<<v, n + 1>>>>
  <2>1. t \in Seq(Nat \X Nat) /\ Len(t) = 1 /\ t[1] = <<v, n + 1>>  OBVIOUS
  <2>5. s \in Seq(Nat \X Nat) /\ Len(s) = n  BY <1>1
  <2>2. /\ s \o t \in Seq(Nat \X Nat) /\ Len(s \o t) = n + 1
        /\ \A i \in 1..n + 1 : (s \o t)[i] = IF i <= n THEN s[i] ELSE t[i - n]
    <3> HIDE DEF s, t
    <3>1. /\ s \o t \in Seq(Nat \X Nat) /\ Len(s \o t) = Len(s) + Len(t)
          /\ \A i \in 1..Len(s) + Len(t) :
                (s \o t)[i] = IF i <= Len(s) THEN s[i] ELSE t[i - Len(s)]
      BY <2>1, <2>5, ConcatProperties
    <3> QED BY <3>1, <2>1, <2>5
  <2>3. \A i \in 1..n + 1 : (s \o t)[i] = LnkPart(v, n + 1)[i]
    <3> SUFFICES ASSUME NEW i \in 1..n + 1 PROVE (s \o t)[i] = LnkPart(v, n + 1)[i]
      OBVIOUS
    <3>1. LnkPart(v, n + 1)[i] = <<v, i>>  BY DEF LnkPart
    <3>2. CASE i <= n
      <4>1. s[i] = <<v, i>>  BY <3>2 DEF LnkPart
      <4> HIDE DEF s, t
      <4> QED BY <4>1, <3>1, <3>2, <2>2
    <3>3. CASE i = n + 1
      <4>1. (s \o t)[i] = t[i - n] /\ i - n = 1
        <5> HIDE DEF s, t
        <5>1. ~(i <= n) /\ i - n = 1  BY <3>3
        <5>2. (s \o t)[i] = IF i <= n THEN s[i] ELSE t[i - n]  BY <2>2
        <5> QED BY <5>1, <5>2
      <4> HIDE DEF s, t
      <4> QED BY <4>1, <3>1, <3>3, <2>1
    <3> HIDE DEF s, t
    <3>4. i <= n \/ i = n + 1  OBVIOUS
    <3> QED BY <3>2, <3>3, <3>4
  <2> HIDE DEF s, t
  <2>4. s \o t = LnkPart(v, n + 1)
    BY <1>2, <2>2, <2>3, SeqEqual
  <2> QED BY <2>4 DEF s, t
<1>4. n = 0 => LnkPart(v, n) = <<>>
  BY <1>1
<1> QED BY <1>1, <1>3, <1>4

\* No copy has begun when the guest boots.
LEMMA LnkInitInv == LnkInit => LnkInv
<1> SUFFICES ASSUME LnkInit PROVE LnkInv  OBVIOUS
<1>1. LnkFiles  BY DEF LnkInit, LnkFiles
<1>2. lnkCopy = [pc |-> "idle", buf |-> <<>>, expect |-> <<>>, ver |-> 0]
  BY DEF LnkInit, LnkNoCopy
<1>3. <<>> \in Seq(Nat \X Nat) /\ <<>> \in Seq(Nat)  OBVIOUS
<1>4. LnkCopying  BY <1>2, <1>3 DEF LnkCopying
<1>5. LnkCopyWhole  BY <1>2 DEF LnkCopyWhole
<1> QED BY <1>1, <1>4, <1>5 DEF LnkInv

\* A step that leaves the file alone and the copy too, or ends it.
LEMMA LnkOtherSteps ==
  ASSUME LnkInv, UNCHANGED <<lnkFile, lnkInode>>,
         \/ UNCHANGED lnkCopy
         \/ lnkCopy' = [lnkCopy EXCEPT !.pc = "failed"]
  PROVE  LnkInv'
<1> USE DEF LnkInv
<1>1. LnkFiles'  BY DEF LnkFiles
<1>2. CASE UNCHANGED lnkCopy
  <2>1. LnkCopying'  BY <1>2 DEF LnkCopying
  <2>2. LnkCopyWhole'  BY <1>2 DEF LnkCopyWhole, LnkVersion
  <2> QED BY <1>1, <2>1, <2>2
<1>3. CASE lnkCopy' = [lnkCopy EXCEPT !.pc = "failed"]
  <2>1. lnkCopy'.pc = "failed" /\ lnkCopy' \in
            [pc : {"idle", "ask", "data", "done", "failed"},
             buf : Seq(Nat \X Nat), expect : Seq(Nat), ver : Nat]
    BY <1>3 DEF LnkCopying
  <2>2. LnkCopying'  BY <2>1 DEF LnkCopying
  <2>3. LnkCopyWhole'  BY <2>1 DEF LnkCopyWhole
  <2> QED BY <1>1, <2>2, <2>3
<1> QED BY <1>2, <1>3

\* A guest program replaces the file: the versions so far stay what they were.
LEMMA LnkEditStep ==
  ASSUME LnkInv, ~LnkInPlace, NEW size \in 1..2, LnkEdit(size)
  PROVE  LnkInv'
<1> USE DEF LnkInv
<1> DEFINE n == Len(lnkFile)
<1>0. /\ lnkFile' = Append(lnkFile, size) /\ lnkInode' = Append(lnkInode, n + 1)
      /\ lnkCopy' = lnkCopy
  BY DEF LnkEdit, LnkVersion
<1>1. /\ n \in Nat /\ n >= 1 /\ lnkFile' \in Seq(Nat \ {0}) /\ Len(lnkFile') = n + 1
      /\ \A v \in 1..n : lnkFile'[v] = lnkFile[v]
      /\ lnkInode' \in Seq(Nat) /\ Len(lnkInode') = n + 1
      /\ \A v \in 1..n : lnkInode'[v] = lnkInode[v]
      /\ lnkInode'[n + 1] = n + 1
  BY <1>0 DEF LnkFiles
<1> HIDE DEF n
<1>2. LnkFiles'
  <2>1. \A v \in 1..n + 1 : lnkInode'[v] = v
    <3>1. \A v \in 1..n : lnkInode[v] = v  BY DEF LnkFiles, n
    <3>2. \A v \in 1..n + 1 : v \in 1..n \/ v = n + 1  BY <1>1
    <3> QED BY <1>1, <3>1, <3>2
  <2> QED BY <1>1, <2>1 DEF LnkFiles
<1>3. LnkCopying'
  <2>1. \A e \in 1..n : e \in 1..n + 1 /\ lnkFile'[e] = lnkFile[e]  BY <1>1
  <2> QED BY <1>0, <1>1, <2>1 DEF LnkCopying, n
<1>4. LnkCopyWhole'
  <2>1. \A e \in 1..n : e \in 1..n + 1 /\ lnkFile'[e] = lnkFile[e]  BY <1>1
  <2> QED BY <1>0, <1>1, <2>1 DEF LnkCopyWhole, LnkVersion, n
<1> QED BY <1>2, <1>3, <1>4

\* The copy begins, and asks for its next chunk.
LEMMA LnkAskSteps ==
  ASSUME LnkInv, LnkCopyStart \/ LnkReadMeta
  PROVE  LnkInv'
<1> USE DEF LnkInv
<1>0. lnkFile' = lnkFile /\ lnkInode' = lnkInode  BY DEF LnkCopyStart, LnkReadMeta
<1>1. LnkFiles'  BY <1>0 DEF LnkFiles
<1>2. CASE LnkCopyStart
  <2>1. lnkCopy' = [pc |-> "ask", buf |-> <<>>, expect |-> <<>>, ver |-> 0]
    BY <1>2 DEF LnkCopyStart, LnkNoCopy
  <2>2. <<>> \in Seq(Nat \X Nat) /\ <<>> \in Seq(Nat)  OBVIOUS
  <2>3. LnkCopying'  BY <2>1, <2>2 DEF LnkCopying
  <2>4. LnkCopyWhole'  BY <2>1 DEF LnkCopyWhole
  <2> QED BY <1>1, <2>3, <2>4
<1>3. CASE LnkReadMeta
  <2>1. lnkCopy' = [lnkCopy EXCEPT !.pc = "data", !.ver = Len(lnkFile)] /\ lnkCopy.pc = "ask"
    BY <1>3 DEF LnkReadMeta, LnkVersion
  <2>2. Len(lnkFile) \in 1..Len(lnkFile) /\ Len(lnkFile) \in Nat  BY DEF LnkFiles
  <2>3. LnkCopying'  BY <1>0, <2>1, <2>2 DEF LnkCopying
  <2>4. LnkCopyWhole'  BY <2>1 DEF LnkCopyWhole, LnkCopying
  <2> QED BY <1>1, <2>3, <2>4
<1> QED BY <1>2, <1>3

\* An answer: the whole of one version, its next chunk, or the end.
LEMMA LnkDataStep ==
  ASSUME LnkInv, LnkReadData
  PROVE  LnkInv'
<1> USE DEF LnkInv
<1> DEFINE v == lnkCopy.ver
           old == lnkCopy.buf
           n == Len(old)
           size == lnkFile[v]
           buf == old \o LnkBytes
<1>0. lnkFile' = lnkFile /\ lnkInode' = lnkInode /\ lnkCopy.pc = "data"
  BY DEF LnkReadData
<1>1. LnkFiles'  BY <1>0 DEF LnkFiles
<1>2. /\ v \in 1..Len(lnkFile) /\ v \in Nat /\ lnkInode[v] = v /\ size \in Nat \ {0}
      /\ old \in Seq(Nat \X Nat) /\ n \in Nat /\ lnkCopy.expect \in Seq(Nat)
  BY <1>0 DEF LnkFiles, LnkCopying
<1>3. LnkBytes = IF gst.legacy THEN LnkPart(v, size)
                 ELSE IF n < size THEN <<<<v, n + 1>>>> ELSE <<>>
  BY <1>2 DEF LnkBytes, LnkPart
<1>4. CASE gst.legacy /\ old = <<>>
  <2>1. lnkCopy' = [lnkCopy EXCEPT !.pc = "done", !.buf = buf]
    BY <1>4 DEF LnkReadData
  <2>2. buf = LnkPart(v, size)
    <3>1. LnkPart(v, size) \in Seq(Nat \X Nat)  BY <1>2, LnkPartFacts
    <3>2. LnkBytes = LnkPart(v, size)  BY <1>3, <1>4
    <3> QED BY <1>4, <3>1, <3>2
  <2> HIDE DEF buf
  <2>3. buf \in Seq(Nat \X Nat)
    <3>1. LnkPart(v, size) \in Seq(Nat \X Nat)  BY <1>2, LnkPartFacts
    <3> QED BY <2>2, <3>1
  <2>4. LnkCopying'  BY <2>1, <2>3 DEF LnkCopying
  <2>5. lnkCopy'.buf = LnkPart(v, size)  BY <2>1, <2>2 DEF LnkCopying
  <2>6. LnkCopyWhole'  BY <1>0, <1>2, <2>5 DEF LnkCopyWhole, LnkVersion, LnkPart
  <2> QED BY <1>1, <2>4, <2>6
<1>5. CASE \/ gst.legacy /\ old # <<>>
           \/ ~gst.legacy /\ ~LnkSame(lnkCopy.expect, v)
  <2>1. lnkCopy' = [lnkCopy EXCEPT !.pc = "failed"]  BY <1>5 DEF LnkReadData
  <2> QED BY <2>1, <1>0, LnkOtherSteps
<1>6. CASE ~gst.legacy /\ LnkSame(lnkCopy.expect, v)
  <2>1. old = LnkPart(v, n) /\ n < size
    <3>1. CASE lnkCopy.expect = <<>>
      <4>1. old = <<>>  BY <3>1, <1>0 DEF LnkCopying
      <4>2. n = 0  BY <4>1
      <4>3. LnkPart(v, n) = <<>>  BY <4>2, <1>2, LnkPartFacts
      <4> QED BY <4>1, <4>2, <4>3, <1>2
    <3>2. CASE lnkCopy.expect # <<>>
      <4>1. PICK e \in 1..Len(lnkFile) :
               /\ lnkCopy.expect = <<e>> /\ n < lnkFile[e] /\ old = LnkPart(e, n)
        BY <3>2, <1>0 DEF LnkCopying
      <4>2. e = v  BY <4>1, <1>6 DEF LnkSame
      <4> QED BY <4>1, <4>2
    <3> QED BY <3>1, <3>2
  <2>2. buf = LnkPart(v, n + 1)
    <3>1. LnkBytes = <<<<v, n + 1>>>>  BY <1>3, <1>6, <2>1
    <3> QED BY <3>1, <2>1, <1>2, LnkPartFacts
  <2> HIDE DEF buf
  <2>3. buf \in Seq(Nat \X Nat) /\ Len(buf) = n + 1 /\ n + 1 <= size /\ n + 1 \in Nat
    <3>1. n + 1 \in Nat /\ n + 1 <= size  BY <2>1, <1>2
    <3> HIDE DEF n, size, v
    <3>2. LnkPart(v, n + 1) \in Seq(Nat \X Nat) /\ Len(LnkPart(v, n + 1)) = n + 1
      BY <3>1, <1>2, LnkPartFacts, Zenon
    <3> QED BY <2>2, <3>1, <3>2
  <2>4. LnkBytes # <<>>  BY <1>3, <1>6, <2>1
  <2>5. lnkCopy' = [lnkCopy EXCEPT
                      !.buf = SubSeq(buf, 1, IF Len(buf) < size THEN Len(buf) ELSE size),
                      !.expect = <<v>>,
                      !.pc = IF Len(buf) >= size THEN "done"
                             ELSE IF LnkBytes = <<>> THEN "failed" ELSE "ask"]
    BY <1>6 DEF LnkReadData, buf
  <2>6. (IF Len(buf) < size THEN Len(buf) ELSE size) = Len(buf)  BY <2>3, <1>2
  <2>7. SubSeq(buf, 1, Len(buf)) = buf  BY <2>3
  <2>8. lnkCopy' = [lnkCopy EXCEPT !.buf = buf, !.expect = <<v>>,
                      !.pc = IF Len(buf) >= size THEN "done" ELSE "ask"]
    BY <2>4, <2>5, <2>6, <2>7
  <2>9. /\ lnkCopy'.buf = LnkPart(v, n + 1) /\ lnkCopy'.expect = <<v>> /\ lnkCopy'.ver = v
        /\ lnkCopy'.pc = IF n + 1 >= size THEN "done" ELSE "ask"
        /\ lnkCopy' \in [pc : {"idle", "ask", "data", "done", "failed"},
                         buf : Seq(Nat \X Nat), expect : Seq(Nat), ver : Nat]
        /\ Len(lnkCopy'.buf) = n + 1
    <3>1. PICK pc \in {"done", "ask"} : pc = IF n + 1 >= size THEN "done" ELSE "ask"
      OBVIOUS
    <3>2. <<v>> \in Seq(Nat)  BY <1>2
    <3>3. lnkCopy' = [lnkCopy EXCEPT !.buf = buf, !.expect = <<v>>, !.pc = pc]
      BY <2>3, <2>8, <3>1
    <3> HIDE DEF n, size
    <3> QED BY <2>2, <2>3, <3>1, <3>2, <3>3 DEF LnkCopying
  <2>10. LnkCopying'
    <3>1. lnkCopy'.pc \in {"ask", "data"} => Len(lnkCopy'.buf) < lnkFile[v]
      <4>1. ~(n + 1 >= size) => n + 1 < size  BY <1>2
      <4> QED BY <2>9, <4>1
    <3> QED BY <3>1, <2>9, <1>0, <1>2 DEF LnkCopying
  <2>11. LnkCopyWhole'
    <3>1. lnkCopy'.pc = "done" => n + 1 = size
      <4>1. n + 1 >= size => n + 1 = size  BY <2>3, <1>2
      <4> QED BY <2>9, <4>1
    <3> QED BY <3>1, <2>9, <1>0, <1>2 DEF LnkCopyWhole, LnkVersion, LnkPart
  <2> QED BY <1>1, <2>10, <2>11
<1> QED BY <1>4, <1>5, <1>6

\* The invariant, for every step of the guest and of the host.
LEMMA LnkStep ==
  ASSUME LnkInv, ~LnkInPlace, [LnkNext]_lnkVars
  PROVE  LnkInv'
<1>1. CASE \E size \in 1..2 : LnkEdit(size)  BY <1>1, LnkEditStep
<1>2. CASE LnkCopyStart \/ LnkReadMeta  BY <1>2, LnkAskSteps
<1>3. CASE LnkReadData  BY <1>3, LnkDataStep
<1>4. CASE GstAgentDies \/ GstTerminate \/ LnkEndGuest
  BY <1>4, LnkOtherSteps DEF GstAgentDies, GstTerminate, LnkEndGuest, LnkCut
<1>6. CASE LnkAskFails  BY <1>6, LnkOtherSteps DEF LnkAskFails
<1>5. CASE \/ GstMount \/ GstConfigure \/ GstServe
           \/ \E ok \in BOOLEAN : LnkAccept(ok)
           \/ LnkCorruptFrame \/ LnkWriteFile \/ LnkReconfigure
           \/ \E st \in {"exec", "shell", "tunnel"} : LnkTakeOver(st)
           \/ LnkForward \/ LnkChildEnds \/ LnkExitFrame \/ LnkHostGone
           \/ \E a \in {"flush", "reboot", "poweroff"} : LnkShutdown(a)
           \/ UNCHANGED lnkVars
  <2>1. UNCHANGED <<lnkFile, lnkInode, lnkCopy>>
    BY <1>5 DEF GstMount, GstConfigure, GstServe, LnkAccept, LnkCorruptFrame, LnkWriteFile,
       LnkReconfigure, LnkTakeOver, LnkForward, LnkChildEnds, LnkExitFrame, LnkHostGone,
       LnkShutdown, lnkVars
  <2> QED BY <2>1, LnkOtherSteps
<1> QED BY <1>1, <1>2, <1>3, <1>4, <1>5, <1>6 DEF LnkNext

-----------------------------------------------------------------------------
(* The host side of the connection (AgentClient).                          *)

AgcRequests == AgcOps \cup {"info", "exec_stream"}
AgcSent(op, arg) == <<[op |-> op, arg |-> arg]>>

\* The chunks 1 to n of the upload.
AgcUpTo(n) == [i \in 1..n |-> i]

\* What a power request comes to in a guest of this version.
AgcPower == IF agcVersion >= 6 THEN "poweroff" ELSE "flush"

AgcTypes ==
  /\ agcVersion \in Nat
  /\ agcGuest \in [file : Seq(Nat), restored : BOOLEAN, sessions : Nat, output : Nat,
                   power : {"flush", "poweroff"}]
  /\ agcGuest.power \in {"flush", AgcPower}
  /\ agcCall \in [op : AgcOps \cup {"none"}, arg : Nat, got : Nat,
                  pc : {"idle", "ask", "version", "send", "start", "wait", "started", "stream"}]
  /\ (agcCall.pc = "idle") <=> (agcCall.op = "none")
  /\ agcLate \in Seq([op : AgcRequests, arg : Nat])

\* The answer under way is the one of the request that was sent.
AgcFits(f) ==
  LET c == agcCall IN
  \/ /\ f.kind = "error" /\ f.value \in {"limit", "phrase"}
     /\ c.op \in {"session", "replay", "restore"}
  \/ f.kind = "write" /\ c.op = "write"
  \/ f.kind = "read" /\ c.op = "read" /\ f.value = IF f.sized THEN c.arg ELSE 0
  \/ f.kind = "restore" /\ c.op = "restore" /\ agcGuest.restored
  \/ f.kind = "session" /\ c.op \in {"session", "replay"} /\ agcGuest.sessions > 0
  \/ f.kind = "exec" /\ c.op = "exec" /\ f.value = AgcChunks
  \/ f.kind = "shutdown" /\ c.op = "shutdown" /\ f.value = AgcPower /\ agcGuest.power = AgcPower

\* The connection holds the request of the call in progress, or its answer.
AgcWireShape ==
  LET c == agcCall  up == agcWire.up  down == agcWire.down IN
  /\ agcWire = [up |-> up, down |-> down]
  /\ c.pc \in {"idle", "ask", "send", "start"} => up = <<>> /\ down = <<>>
  /\ c.pc = "version" =>
       \/ up = AgcSent("info", 0) /\ down = <<>>
       \/ up = <<>> /\ down = <<AgcAnswer("info", agcVersion)>>
  /\ c.pc = "wait" =>
       \/ up = AgcSent(c.op, c.arg) /\ down = <<>>
       \/ up = <<>> /\ Len(down) = 1 /\ down = <<down[1]>> /\ AgcFits(down[1])
  /\ c.pc = "started" =>
       \/ up = AgcSent("exec_stream", c.arg) /\ down = <<>>
       \/ up = <<>> /\ down = AgcFrames(AgcAnswer("exec_stream", AgcChunks))
  /\ c.pc = "stream" =>
       /\ up = <<>> /\ c.got <= AgcChunks
       /\ down \in Seq([kind : {"output", "exit"}, value : Nat])
       /\ Len(down) = AgcChunks - c.got + 1
       /\ \A i \in 1..Len(down) : down[i].kind = IF i = Len(down) THEN "exit" ELSE "output"

\* After the version was asked for, the guest knows the request.
AgcGated ==
  LET c == agcCall IN
  /\ c.pc \in {"send", "wait"} =>
       (c.op = "write" /\ c.arg <= 1) \/ agcVersion >= AgcRequired(c.op)
  /\ c.pc \in {"start", "started", "stream"} => c.op = "exec" /\ agcVersion >= 4

\* The upload: nothing else of it is under way, and the file is what was
\* reported, one chunk further once the request in progress is carried out.
AgcUpload ==
  LET c == agcCall  r == agcResult IN
  /\ r.op = "none" \/ (r.op = "write" /\ r.out = "ok") => agcLate = <<>>
  /\ r.op = "write" /\ r.out = "ok" /\ c.op # "write" =>
       r.arg \in Nat /\ agcGuest.file = AgcUpTo(r.arg)
  /\ c.op = "write" =>
       /\ c.arg >= 1 /\ agcLate = <<>>
       /\ r.op = "none" \/ (r.op = "write" /\ r.out = "ok")
       /\ IF c.pc = "wait" /\ agcWire.up = <<>> THEN agcGuest.file = AgcUpTo(c.arg)
          ELSE c.arg > 1 => agcGuest.file = AgcUpTo(c.arg - 1)

\* What the other calls reported still holds of the guest.
AgcReported ==
  LET r == agcResult IN
  /\ r.op = "read" /\ r.out = "ok" => r.value = r.arg
  /\ r.op = "restore" /\ r.out = "ok" => agcGuest.restored
  /\ r.op = "restore" /\ r.out = "skipped" => r.arg = 0
  /\ r.op = "exec" /\ r.out = "ok" => r.value = AgcChunks
  /\ r.op = "shutdown" /\ r.out = "ok" => r.value = AgcPower /\ agcGuest.power = AgcPower
  /\ r.op \in {"session", "replay"} /\ r.out = "ok" => agcGuest.sessions > 0
  /\ r.op \in {"session", "replay"} /\ r.out = "refused" => r.value = "limit"

AgcInv == AgcTypes /\ AgcWireShape /\ AgcGated /\ AgcUpload /\ AgcReported

AgcGuests == [file : Seq(Nat), restored : BOOLEAN, sessions : Nat, output : Nat,
              power : {"flush", "poweroff"}]

\* What a guest did stays done, whatever request it carries out.
AgcKeeps(g) ==
  /\ g \in AgcGuests /\ g.power \in {"flush", AgcPower}
  /\ agcGuest.restored => g.restored
  /\ agcGuest.sessions > 0 => g.sessions > 0
  /\ agcGuest.power = AgcPower => g.power = AgcPower

\* Whatever request a guest carries out, late or not, it undoes nothing.
LEMMA AgcCarryOutKeeps ==
  ASSUME AgcTypes, NEW op \in AgcRequests, NEW arg \in Nat
  PROVE  LET g == AgcCarryOut([op |-> op, arg |-> arg])[1]
         IN  AgcKeeps(g) /\ (op # "write" => g.file = agcGuest.file)
<1> DEFINE req == [op |-> op, arg |-> arg]
           g == AgcCarryOut(req)[1]
<1>0. /\ req.op = op /\ req.arg = arg /\ agcVersion \in Nat /\ agcGuest \in AgcGuests
      /\ agcGuest.power \in {"flush", AgcPower} /\ AgcPower \in {"flush", "poweroff"}
  BY DEF AgcTypes, AgcGuests, AgcPower
<1>00. AgcKeeps(agcGuest)  BY <1>0 DEF AgcKeeps
<1> HIDE DEF req
<1>1. CASE agcVersion < AgcVocabulary(op)
  <2>1. g = agcGuest  BY <1>0, <1>1 DEF AgcCarryOut
  <2> QED BY <2>1, <1>00 DEF req
<1>2. CASE ~(agcVersion < AgcVocabulary(op))
  <2>1. CASE op \in {"info", "read"}
    <3>1. g = agcGuest  BY <1>0, <1>2, <2>1 DEF AgcCarryOut
    <3> QED BY <3>1, <1>00 DEF req
  <2>2. CASE op = "write"
    <3>1. g = [agcGuest EXCEPT !.file = IF arg > 1 /\ agcVersion >= 2
                                        THEN Append(@, arg) ELSE <<arg>>]
      BY <1>0, <1>2, <2>2 DEF AgcCarryOut
    <3>2. PICK file \in Seq(Nat) : g = [agcGuest EXCEPT !.file = file]
      <4>1. Append(agcGuest.file, arg) \in Seq(Nat) /\ <<arg>> \in Seq(Nat)
        BY <1>0 DEF AgcGuests
      <4> QED BY <3>1, <4>1
    <3>3. AgcKeeps(g)  BY <3>2, <1>0 DEF AgcKeeps, AgcGuests
    <3> QED BY <3>3, <2>2 DEF req
  <2>3. CASE op = "restore"
    <3>1. g = [agcGuest EXCEPT !.restored = TRUE]
      BY <1>0, <1>2, <2>3 DEF AgcCarryOut
    <3>2. AgcKeeps(g) /\ g.file = agcGuest.file  BY <3>1, <1>0 DEF AgcKeeps, AgcGuests
    <3> QED BY <3>2 DEF req
  <2>4. CASE op \in {"session", "replay"}
    <3>1. g = [agcGuest EXCEPT !.sessions = @ + 1]
      BY <1>0, <1>2, <2>4 DEF AgcCarryOut
    <3>2. AgcKeeps(g) /\ g.file = agcGuest.file  BY <3>1, <1>0, SMTT(30) DEF AgcKeeps, AgcGuests
    <3> QED BY <3>2 DEF req
  <2>5. CASE op \in {"exec", "exec_stream"}
    <3>1. g = [agcGuest EXCEPT !.output = AgcChunks]
      BY <1>0, <1>2, <2>5 DEF AgcCarryOut
    <3>2. AgcKeeps(g) /\ g.file = agcGuest.file
      BY <3>1, <1>0, AgcAssumption DEF AgcKeeps, AgcGuests
    <3> QED BY <3>2 DEF req
  <2>6. CASE op = "shutdown"
    <3>1. g = [agcGuest EXCEPT !.power = AgcPower]
      BY <1>0, <1>2, <2>6 DEF AgcCarryOut, AgcPower
    <3>2. AgcKeeps(g) /\ g.file = agcGuest.file  BY <3>1, <1>0 DEF AgcKeeps, AgcGuests
    <3> QED BY <3>2 DEF req
  <2> QED BY <2>1, <2>2, <2>3, <2>4, <2>5, <2>6 DEF AgcRequests, AgcOps
<1> QED BY <1>1, <1>2

\* Before the first call nothing was sent, and nothing reported.
LEMMA AgcInitInv == AgcInit => AgcInv
<1> SUFFICES ASSUME AgcInit PROVE AgcInv  OBVIOUS
<1>1. AgcTypes
  <2>1. <<>> \in Seq(Nat) /\ <<>> \in Seq([op : AgcRequests, arg : Nat])  OBVIOUS
  <2>2. agcVersion \in Nat  BY AgcAssumption DEF AgcInit
  <2>3. /\ agcGuest \in [file : Seq(Nat), restored : BOOLEAN, sessions : Nat, output : Nat,
                         power : {"flush", "poweroff"}]
        /\ agcGuest.power = "flush"
    BY <2>1 DEF AgcInit
  <2> QED BY <2>1, <2>2, <2>3 DEF AgcInit, AgcTypes, AgcIdle
<1>2. AgcWireShape  BY DEF AgcInit, AgcWireShape, AgcIdle, AgcNoWire
<1>3. AgcGated  BY DEF AgcInit, AgcGated, AgcIdle
<1>4. AgcUpload  BY DEF AgcInit, AgcUpload, AgcIdle, AgcNoResult
<1>5. AgcReported  BY DEF AgcInit, AgcReported, AgcNoResult
<1> QED BY <1>1, <1>2, <1>3, <1>4, <1>5 DEF AgcInv

\* A call that ends reports what holds of the guest.
AgcHolds(out, value) ==
  LET op == agcCall.op IN
  /\ op = "write" /\ out = "ok" => agcCall.pc = "wait" /\ agcWire.up = <<>>
  /\ op = "read" /\ out = "ok" => value = agcCall.arg
  /\ op = "restore" /\ out = "ok" => agcGuest.restored
  /\ op = "restore" /\ out = "skipped" => agcCall.arg = 0
  /\ op = "exec" /\ out = "ok" => value = AgcChunks
  /\ op = "shutdown" /\ out = "ok" => value = AgcPower /\ agcGuest.power = AgcPower
  /\ op \in {"session", "replay"} /\ out = "ok" => agcGuest.sessions > 0
  /\ op \in {"session", "replay"} /\ out = "refused" => value = "limit"

\* At most one request is under way, and the guest knows it.
LEMMA AgcUpFacts ==
  ASSUME AgcInv
  PROVE  \/ agcWire.up = <<>>
         \/ /\ agcWire.down = <<>>
            /\ \E op \in AgcRequests, arg \in Nat :
                  /\ agcWire.up = AgcSent(op, arg) /\ agcVersion >= AgcVocabulary(op)
                  /\ \/ op = "info" /\ arg = 0 /\ agcCall.pc = "version"
                     \/ op = "exec_stream" /\ arg = agcCall.arg /\ agcCall.pc = "started"
                     \/ op = agcCall.op /\ arg = agcCall.arg /\ agcCall.pc = "wait"
<1> USE DEF AgcInv
<1>0. agcVersion \in Nat /\ agcCall.arg \in Nat /\ 0 \in Nat
      /\ agcCall.pc \in {"idle", "ask", "version", "send", "start", "wait", "started", "stream"}
  BY DEF AgcTypes
<1>1. CASE agcCall.pc \in {"idle", "ask", "send", "start", "stream"}
  BY <1>1 DEF AgcWireShape
<1>2. CASE agcCall.pc = "version"
  <2>1. "info" \in AgcRequests /\ agcVersion >= AgcVocabulary("info")
    BY <1>0 DEF AgcRequests, AgcVocabulary
  <2> QED BY <1>0, <1>2, <2>1 DEF AgcWireShape
<1>3. CASE agcCall.pc = "started"
  <2>1. "exec_stream" \in AgcRequests /\ agcVersion >= AgcVocabulary("exec_stream")
    BY <1>0, <1>3 DEF AgcRequests, AgcVocabulary, AgcGated
  <2> QED BY <1>0, <1>3, <2>1 DEF AgcWireShape
<1>4. CASE agcCall.pc = "wait"
  <2>1. agcCall.op \in AgcRequests /\ agcCall.op \in AgcOps
    BY <1>4 DEF AgcRequests, AgcTypes
  <2>2. agcVersion >= AgcVocabulary(agcCall.op)
    BY <1>0, <1>4, <2>1 DEF AgcVocabulary, AgcGated, AgcRequired, AgcOps
  <2> QED BY <1>0, <1>4, <2>1, <2>2 DEF AgcWireShape
<1> QED BY <1>0, <1>1, <1>2, <1>3, <1>4

\* A call that ends with a report that holds; what it had sent may be late.
LEMMA AgcReportStep ==
  ASSUME AgcInv, agcCall.pc # "idle", NEW out, NEW value, AgcHolds(out, value),
         AgcReport(out, value), AgcStill
  PROVE  AgcInv'
<1> USE DEF AgcInv
<1>0. /\ agcResult' = [op |-> agcCall.op, arg |-> agcCall.arg, out |-> out, value |-> value]
      /\ agcCall' = [op |-> "none", pc |-> "idle", arg |-> 0, got |-> 0]
      /\ agcWire' = [up |-> <<>>, down |-> <<>>]
      /\ agcLate' = agcLate \o agcWire.up
      /\ agcVersion' = agcVersion /\ agcGuest' = agcGuest
  BY DEF AgcReport, AgcStill, AgcIdle, AgcNoWire
<1>1. agcWire.up \in Seq([op : AgcRequests, arg : Nat])
  <2>1. \A op \in AgcRequests, arg \in Nat :
            AgcSent(op, arg) \in Seq([op : AgcRequests, arg : Nat])
    BY DEF AgcSent
  <2>2. <<>> \in Seq([op : AgcRequests, arg : Nat])  OBVIOUS
  <2>3. \/ agcWire.up = <<>>
        \/ \E op \in AgcRequests, arg \in Nat : agcWire.up = AgcSent(op, arg)
    BY AgcUpFacts
  <2> QED BY <2>1, <2>2, <2>3, Zenon
<1>2. agcCall.op \in AgcOps /\ agcCall.arg \in Nat /\ agcLate \in Seq([op : AgcRequests, arg : Nat])
  BY DEF AgcTypes
<1>3. AgcTypes'
  <2>1. agcLate' \in Seq([op : AgcRequests, arg : Nat])
    <3> DEFINE S == [op : AgcRequests, arg : Nat]
    <3>1. agcWire.up \in Seq(S) /\ agcLate \in Seq(S)  BY <1>1, <1>2
    <3> HIDE DEF S
    <3>2. agcLate \o agcWire.up \in Seq(S)  BY <3>1
    <3> QED BY <3>2, <1>0 DEF S
  <2>2. AgcPower' = AgcPower  BY <1>0 DEF AgcPower
  <2> QED BY <1>0, <2>1, <2>2 DEF AgcTypes
<1>4. AgcWireShape'  BY <1>0 DEF AgcWireShape
<1>5. AgcGated'  BY <1>0 DEF AgcGated
<1>6. AgcUpload'
  <2>1. agcCall.op = "write" /\ out = "ok" =>
           agcLate' = <<>> /\ agcGuest.file = AgcUpTo(agcCall.arg)
    BY <1>0, <1>2 DEF AgcHolds, AgcUpload
  <2>2. agcResult'.op = agcCall.op /\ agcResult'.out = out /\ agcResult'.arg = agcCall.arg
        /\ agcResult'.op # "none" /\ agcCall'.op = "none"
    BY <1>0, <1>2 DEF AgcOps
  <2> QED BY <2>1, <2>2, <1>0, <1>2 DEF AgcUpload, AgcUpTo
<1>7. AgcReported'
  <2>1. agcResult'.op = agcCall.op /\ agcResult'.out = out /\ agcResult'.arg = agcCall.arg
        /\ agcResult'.value = value
    BY <1>0
  <2>2. AgcPower' = AgcPower  BY <1>0 DEF AgcPower
  <2> QED BY <2>1, <2>2, <1>0 DEF AgcReported, AgcHolds
<1> QED BY <1>3, <1>4, <1>5, <1>6, <1>7

\* A connection that breaks, or a timeout, claims nothing of the guest.
LEMMA AgcDropStep ==
  ASSUME AgcInv, AgcDrop
  PROVE  AgcInv'
<1>1. AgcHolds("failed", 0)  BY DEF AgcHolds
<1> QED BY <1>1, AgcReportStep DEF AgcDrop

\* A new call: the upload goes on where the last report left it.
LEMMA AgcOpenStep ==
  ASSUME AgcInv, NEW op \in AgcOps, NEW arg \in 0..AgcChunks, AgcOpen(op, arg)
  PROVE  AgcInv'
<1> USE DEF AgcInv
<1>0. /\ agcCall' = [op |-> op, arg |-> arg, got |-> 0,
                     pc |-> IF AgcAsksFirst(op, arg) THEN "ask" ELSE "send"]
      /\ agcWire' = [up |-> <<>>, down |-> <<>>]
      /\ agcVersion' = agcVersion /\ agcGuest' = agcGuest /\ agcLate' = agcLate
      /\ agcResult' = agcResult /\ agcCall.pc = "idle" /\ AgcMay(op, arg)
  BY DEF AgcOpen, AgcNoWire
<1>1. PICK pc \in {"ask", "send"} :
         /\ agcCall' = [op |-> op, arg |-> arg, got |-> 0, pc |-> pc]
         /\ pc = "send" => ~AgcAsksFirst(op, arg)
  BY <1>0
<1>2. arg \in Nat /\ agcVersion \in Nat  BY AgcAssumption DEF AgcTypes
<1>3. AgcTypes'
  <2>1. AgcPower' = AgcPower  BY <1>0 DEF AgcPower
  <2>2. op # "none"  BY DEF AgcOps
  <2> QED BY <1>0, <1>1, <1>2, <2>1, <2>2 DEF AgcTypes
<1>4. AgcWireShape'  BY <1>0, <1>1 DEF AgcWireShape
<1>5. AgcGated'
  <2>1. pc = "send" => (op = "write" /\ arg <= 1) \/ agcVersion >= AgcRequired(op)
    BY <1>1, <1>2 DEF AgcAsksFirst, AgcOps, AgcRequired
  <2> QED BY <2>1, <1>0, <1>1 DEF AgcGated, AgcRequired
<1>6. AgcUpload'
  <2>1. op = "write" =>
           /\ arg >= 1
           /\ agcResult.op = "none" \/ (agcResult.op = "write" /\ agcResult.out = "ok")
           /\ arg > 1 => agcResult.op = "write" /\ agcResult.out = "ok" /\ agcResult.arg = arg - 1
    BY <1>0, <1>2 DEF AgcMay
  <2>2. agcCall.op # "write"  BY <1>0 DEF AgcTypes
  <2> QED BY <2>1, <2>2, <1>0, <1>1, <1>2 DEF AgcUpload, AgcUpTo
<1>7. AgcReported'
  <2>2. AgcPower' = AgcPower  BY <1>0 DEF AgcPower
  <2> QED BY <2>2, <1>0 DEF AgcReported
<1> QED BY <1>3, <1>4, <1>5, <1>6, <1>7

\* A call that goes on with the same guest, requests and report: only its
\* own program counter and its connection move.
LEMMA AgcCallGoesOn ==
  ASSUME AgcInv, agcCall.pc # "idle", AgcStill, UNCHANGED <<agcLate, agcResult>>,
         NEW pc \in {"ask", "version", "send", "start", "wait", "started", "stream"},
         NEW got \in Nat,
         agcCall' = [agcCall EXCEPT !.pc = pc, !.got = got],
         AgcWireShape', AgcGated',
         agcCall.op = "write" => ~(agcCall.pc = "wait" /\ agcWire.up = <<>>)
                                 /\ ~(pc = "wait" /\ agcWire'.up = <<>>)
  PROVE  AgcInv'
<1> USE DEF AgcInv
<1>0. /\ agcVersion' = agcVersion /\ agcGuest' = agcGuest
      /\ agcLate' = agcLate /\ agcResult' = agcResult
      /\ agcCall'.op = agcCall.op /\ agcCall'.arg = agcCall.arg /\ agcCall'.pc = pc
      /\ agcCall' \in [op : AgcOps \cup {"none"}, arg : Nat, got : Nat,
            pc : {"idle", "ask", "version", "send", "start", "wait", "started", "stream"}]
  BY DEF AgcStill, AgcTypes
<1>1. AgcPower' = AgcPower  BY <1>0 DEF AgcPower
<1>2. AgcTypes'  BY <1>0, <1>1 DEF AgcTypes
<1>3. AgcUpload'  BY <1>0 DEF AgcUpload, AgcUpTo
<1>4. AgcReported'  BY <1>0, <1>1 DEF AgcReported
<1> QED BY <1>2, <1>3, <1>4

\* The host asks the agent for its version.
LEMMA AgcAskStep ==
  ASSUME AgcInv, AgcAsk
  PROVE  AgcInv'
<1> USE DEF AgcInv
<1>0. /\ agcCall.pc = "ask" /\ agcCall' = [agcCall EXCEPT !.pc = "version"]
      /\ agcWire' = [agcWire EXCEPT !.up = Append(@, [op |-> "info", arg |-> 0])]
      /\ agcVersion' = agcVersion
  BY DEF AgcAsk, AgcWrite, AgcStill
<1>1. agcCall.got \in Nat /\ agcCall' = [agcCall EXCEPT !.pc = "version", !.got = agcCall.got]
      /\ agcCall'.pc = "version"
  BY <1>0 DEF AgcTypes
<1>2. agcWire' = [up |-> AgcSent("info", 0), down |-> <<>>]
  BY <1>0 DEF AgcWireShape, AgcSent
<1>3. AgcWireShape'
  <2>1. agcWire' = [up |-> agcWire'.up, down |-> agcWire'.down]
        /\ agcWire'.up = AgcSent("info", 0) /\ agcWire'.down = <<>>
    BY <1>2
  <2>2. \A op, arg : AgcSent(op, arg)' = AgcSent(op, arg)  BY DEF AgcSent
  <2> QED BY <1>1, <2>1, <2>2 DEF AgcWireShape
<1>4. AgcGated'  BY <1>1 DEF AgcGated
<1> QED BY <1>0, <1>1, <1>3, <1>4, AgcCallGoesOn DEF AgcAsk

\* The version decides: the call goes on, is skipped, or is not supported.
LEMMA AgcGateStep ==
  ASSUME AgcInv, AgcGate
  PROVE  AgcInv'
<1> USE DEF AgcInv
<1>0. agcCall.pc = "version" /\ agcWire.down = <<AgcAnswer("info", agcVersion)>> /\ AgcStill
      /\ agcWire = [up |-> <<>>, down |-> agcWire.down] /\ agcVersion \in Nat
  BY DEF AgcGate, AgcWireShape, AgcTypes
<1>1. Head(agcWire.down).value = agcVersion /\ Tail(agcWire.down) = <<>>
  BY <1>0 DEF AgcAnswer
<1>2. CASE agcVersion < AgcRequired(agcCall.op)
           /\ (IF agcCall.op = "restore" /\ agcCall.arg = 0 THEN AgcReport("skipped", 0)
               ELSE AgcReport("unsupported", 0))
  <2>1. CASE agcCall.op = "restore" /\ agcCall.arg = 0
    <3>1. AgcHolds("skipped", 0)  BY <2>1 DEF AgcHolds
    <3> QED BY <3>1, <2>1, <1>0, <1>2, AgcReportStep
  <2>2. CASE ~(agcCall.op = "restore" /\ agcCall.arg = 0)
    <3>1. AgcHolds("unsupported", 0)  BY DEF AgcHolds
    <3> QED BY <3>1, <2>2, <1>0, <1>2, AgcReportStep
  <2> QED BY <2>1, <2>2
<1>3. CASE /\ agcVersion >= AgcRequired(agcCall.op)
           /\ agcCall' = [agcCall EXCEPT !.pc = IF agcCall.op = "exec" /\ agcVersion >= 4
                                                THEN "start" ELSE "send"]
           /\ agcWire' = [agcWire EXCEPT !.down = Tail(@)]
           /\ UNCHANGED <<agcLate, agcResult>>
  <2>1. PICK pc \in {"start", "send"} :
           /\ agcCall' = [agcCall EXCEPT !.pc = pc]
           /\ pc = "start" => agcCall.op = "exec" /\ agcVersion >= 4
    BY <1>3
  <2>2. agcCall.got \in Nat /\ agcCall' = [agcCall EXCEPT !.pc = pc, !.got = agcCall.got]
        /\ agcCall'.pc = pc /\ agcCall'.op = agcCall.op
    BY <2>1 DEF AgcTypes
  <2>3. agcWire' = [up |-> <<>>, down |-> <<>>]  BY <1>0, <1>1, <1>3
  <2>4. AgcWireShape'  BY <2>2, <2>3 DEF AgcWireShape
  <2>5. agcVersion' = agcVersion  BY <1>0 DEF AgcStill
  <2>6. AgcGated'  BY <1>3, <2>1, <2>2, <2>5 DEF AgcGated, AgcRequired
  <2> QED BY <1>0, <1>3, <2>2, <2>4, <2>6, AgcCallGoesOn
<1>4. AgcGate => \/ agcVersion < AgcRequired(agcCall.op)
                    /\ (IF agcCall.op = "restore" /\ agcCall.arg = 0 THEN AgcReport("skipped", 0)
                        ELSE AgcReport("unsupported", 0))
                 \/ /\ agcVersion >= AgcRequired(agcCall.op)
                    /\ agcCall' = [agcCall EXCEPT !.pc = IF agcCall.op = "exec" /\ agcVersion >= 4
                                                         THEN "start" ELSE "send"]
                    /\ agcWire' = [agcWire EXCEPT !.down = Tail(@)]
                    /\ UNCHANGED <<agcLate, agcResult>>
  BY <1>1, Zenon DEF AgcGate
<1> QED BY <1>2, <1>3, <1>4

\* The request is sent to an agent that knows it.
LEMMA AgcSendStep ==
  ASSUME AgcInv, AgcSend
  PROVE  AgcInv'
<1> USE DEF AgcInv
<1>0. agcCall.pc \in {"send", "start"} /\ AgcStill /\ UNCHANGED <<agcLate, agcResult>>
      /\ agcVersion' = agcVersion /\ agcVersion \in Nat
      /\ agcWire = [up |-> <<>>, down |-> <<>>]
  BY DEF AgcSend, AgcStill, AgcTypes, AgcWireShape
<1>1. PICK pc \in {"started", "wait"}, op \in AgcOps \cup {"exec_stream"} :
         /\ agcCall' = [agcCall EXCEPT !.pc = pc]
         /\ agcWire' = [agcWire EXCEPT !.up = Append(@, [op |-> op, arg |-> agcCall.arg])]
         /\ \/ pc = "started" /\ agcCall.pc = "start" /\ op = "exec_stream"
            \/ pc = "wait" /\ agcCall.pc = "send" /\ op = agcCall.op
  BY <1>0 DEF AgcSend, AgcWrite, AgcTypes
<1>2. agcCall.got \in Nat /\ agcCall' = [agcCall EXCEPT !.pc = pc, !.got = agcCall.got]
      /\ agcCall'.pc = pc /\ agcCall'.op = agcCall.op /\ agcCall'.arg = agcCall.arg
  BY <1>1 DEF AgcTypes
<1>3. agcWire' = [up |-> AgcSent(op, agcCall.arg), down |-> <<>>]
  BY <1>0, <1>1 DEF AgcSent
<1>4. AgcWireShape'
  <2>1. agcWire' = [up |-> agcWire'.up, down |-> agcWire'.down]
        /\ agcWire'.up = AgcSent(op, agcCall.arg) /\ agcWire'.down = <<>>
    BY <1>3
  <2>2. pc = "started" => AgcSent("exec_stream", agcCall.arg)' = AgcSent(op, agcCall.arg)
    BY <1>1, <1>2 DEF AgcSent
  <2>3. pc = "wait" => AgcSent(agcCall.op, agcCall.arg)' = AgcSent(op, agcCall.arg)
    BY <1>1, <1>2 DEF AgcSent
  <2> QED BY <1>1, <1>2, <2>1, <2>2, <2>3 DEF AgcWireShape
<1>5. AgcGated'  BY <1>0, <1>1, <1>2 DEF AgcGated, AgcRequired
<1>6. agcWire'.up # <<>>  BY <1>3 DEF AgcSent
<1> QED BY <1>0, <1>1, <1>2, <1>4, <1>5, <1>6, AgcCallGoesOn

\* The one answer of a call is what the call reports.
LEMMA AgcReceiveStep ==
  ASSUME AgcInv, AgcReceive
  PROVE  AgcInv'
<1> USE DEF AgcInv
<1>0. agcCall.pc = "wait" /\ agcWire.down # <<>> /\ AgcStill /\ agcCall.arg \in Nat
      /\ agcCall.op \in AgcOps
  BY DEF AgcReceive, AgcTypes
<1>1. PICK f : f = Head(agcWire.down)  OBVIOUS
<1>2. agcWire.up = <<>> /\ AgcFits(f)
  <2>1. agcWire.up = <<>> /\ agcWire.down = <<agcWire.down[1]>> /\ AgcFits(agcWire.down[1])
    BY <1>0 DEF AgcWireShape
  <2>2. Head(agcWire.down) = agcWire.down[1]  BY <2>1
  <2> QED BY <1>1, <2>1, <2>2
<1>3. PICK wanted : wanted = IF agcCall.op \in {"session", "replay"} THEN "session" ELSE agcCall.op
  OBVIOUS
<1>4. CASE f.kind = "error"
  <2>0. f.kind # wanted  BY <1>0, <1>3, <1>4 DEF AgcOps
  <2>1. AgcReport("refused", AgcRefusal(f))
    BY <1>1, <1>3, <1>4, <2>0, Zenon DEF AgcReceive
  <2>2. AgcHolds("refused", AgcRefusal(f))
    BY <1>2, <1>4 DEF AgcFits, AgcHolds, AgcRefusal
  <2> QED BY <2>1, <2>2, <1>0, AgcReportStep
<1>5. CASE f.kind = wanted /\ f.kind = "read" /\ ~AgcRanged(f)
  <2>1. AgcReport("unsupported", 0)
    BY <1>1, <1>3, <1>5 DEF AgcReceive
  <2>2. AgcHolds("unsupported", 0)  BY DEF AgcHolds
  <2> QED BY <2>1, <2>2, <1>0, AgcReportStep
<1>6. CASE f.kind = wanted /\ f.kind # "error" /\ (f.kind = "read" => AgcRanged(f))
  <2>1. AgcReport("ok", f.value)
    BY <1>1, <1>3, <1>6 DEF AgcReceive
  <2>2. AgcHolds("ok", f.value)
    BY <1>0, <1>2, <1>3, <1>6 DEF AgcFits, AgcHolds, AgcRanged, AgcOps
  <2> QED BY <2>1, <2>2, <1>0, AgcReportStep
<1>7. CASE f.kind \notin {"error", wanted}
  <2>1. AgcReport("failed", 0)
    BY <1>1, <1>3, <1>7 DEF AgcReceive
  <2>2. AgcHolds("failed", 0)  BY DEF AgcHolds
  <2> QED BY <2>1, <2>2, <1>0, AgcReportStep
<1> QED BY <1>4, <1>5, <1>6, <1>7

\* A stream of frames: started, the output, the exit.
LEMMA AgcFramesFacts ==
  LET F == AgcFrames(AgcAnswer("exec_stream", AgcChunks)) IN
  /\ F \in Seq([kind : {"started", "output", "exit"}, value : Nat])
  /\ Len(F) = AgcChunks + 2 /\ F[1].kind = "started" /\ F[AgcChunks + 2].kind = "exit"
  /\ \A i \in 2..AgcChunks + 1 : F[i].kind = "output"
<1> DEFINE S == [kind : {"started", "output", "exit"}, value : Nat]
           F == AgcFrames(AgcAnswer("exec_stream", AgcChunks))
           a == <<AgcAnswer("started", 0)>>
           b == [i \in 1..AgcChunks |-> AgcAnswer("output", i)]
           c == <<AgcAnswer("exit", 0)>>
           n == AgcChunks
<1>1. F = (a \o b) \o c
  <2>1. AgcAnswer("exec_stream", AgcChunks).kind = "exec_stream"  BY DEF AgcAnswer
  <2> QED BY <2>1 DEF AgcFrames
<1>2. n \in Nat  BY AgcAssumption
<1>3. a \in Seq(S) /\ Len(a) = 1 /\ a[1].kind = "started"  BY DEF AgcAnswer
<1>4. b \in Seq(S) /\ Len(b) = n /\ \A i \in 1..n : b[i].kind = "output"
  <2>1. \A i \in 1..n : AgcAnswer("output", i) \in S /\ AgcAnswer("output", i).kind = "output"
    BY <1>2 DEF AgcAnswer
  <2> HIDE DEF S
  <2> QED BY <1>2, <2>1
<1>5. c \in Seq(S) /\ Len(c) = 1 /\ c[1].kind = "exit"  BY DEF AgcAnswer
<1> HIDE DEF S, F, a, b, c, n
<1>6. /\ a \o b \in Seq(S) /\ Len(a \o b) = n + 1 /\ (a \o b)[1].kind = "started"
      /\ \A i \in 2..n + 1 : (a \o b)[i].kind = "output"
  <2>1. /\ a \o b \in Seq(S) /\ Len(a \o b) = Len(a) + Len(b)
        /\ \A i \in 1..Len(a) + Len(b) :
              (a \o b)[i] = IF i <= Len(a) THEN a[i] ELSE b[i - Len(a)]
    BY <1>3, <1>4, ConcatProperties
  <2>2. \A i \in 1..n + 1 : (a \o b)[i] = IF i <= 1 THEN a[i] ELSE b[i - 1]
    BY <2>1, <1>2, <1>3, <1>4
  <2> QED BY <2>1, <2>2, <1>2, <1>3, <1>4
<1>7. /\ (a \o b) \o c \in Seq(S) /\ Len((a \o b) \o c) = n + 2
      /\ \A i \in 1..n + 2 : ((a \o b) \o c)[i] = IF i <= n + 1 THEN (a \o b)[i] ELSE c[i - (n + 1)]
  <2>1. PICK d : d = a \o b  OBVIOUS
  <2>2. d \in Seq(S) /\ Len(d) = n + 1  BY <2>1, <1>6
  <2>3. /\ d \o c \in Seq(S) /\ Len(d \o c) = Len(d) + Len(c)
        /\ \A i \in 1..Len(d) + Len(c) :
              (d \o c)[i] = IF i <= Len(d) THEN d[i] ELSE c[i - Len(d)]
    BY <2>2, <1>5, ConcatProperties
  <2>4. Len(d) + Len(c) = n + 2  BY <2>2, <1>2, <1>5
  <2> QED BY <2>1, <2>2, <2>3, <2>4
<1>8. F \in Seq(S) /\ Len(F) = n + 2  BY <1>1, <1>7
<1>9. F[1].kind = "started"  BY <1>1, <1>2, <1>6, <1>7
<1>10. \A i \in 2..n + 1 : F[i].kind = "output"  BY <1>1, <1>2, <1>6, <1>7
<1>11. F[n + 2].kind = "exit"
  <2>1. PICK k : k = n + 2  OBVIOUS
  <2>2. k \in 1..n + 2 /\ ~(k <= n + 1) /\ k - (n + 1) = 1  BY <1>2, <2>1
  <2>3. F[k] = c[1]  BY <2>2, <1>1, <1>7
  <2> QED BY <2>1, <2>3, <1>5
<1> QED BY <1>8, <1>9, <1>10, <1>11 DEF S, F, n

\* What is left of the stream is one shorter, and one more was delivered.
LEMMA AgcStreamStep ==
  ASSUME AgcInv, AgcStream
  PROVE  AgcInv'
<1> USE DEF AgcInv
<1> DEFINE S == [kind : {"output", "exit"}, value : Nat]
<1>0. /\ agcCall.pc \in {"started", "stream"} /\ agcWire.down # <<>> /\ AgcStill
      /\ agcVersion' = agcVersion /\ agcCall.op = "exec" /\ agcVersion >= 4
      /\ agcWire = [up |-> <<>>, down |-> agcWire.down] /\ agcCall.got \in Nat
  BY DEF AgcStream, AgcStill, AgcWireShape, AgcGated, AgcTypes
<1>00. AgcChunks \in Nat  BY AgcAssumption
<1>1. PICK f : f = Head(agcWire.down)  OBVIOUS
<1>2. PICK got : got = IF f.kind = "output" THEN agcCall.got + 1 ELSE 0  OBVIOUS
<1>3. \/ /\ f.kind = (IF agcCall.pc = "started" THEN "started" ELSE "output")
         /\ agcCall' = [agcCall EXCEPT !.pc = "stream", !.got = got]
         /\ agcWire' = [agcWire EXCEPT !.down = Tail(@)]
         /\ UNCHANGED <<agcLate, agcResult>>
      \/ /\ f.kind = "exit" /\ agcCall.pc = "stream" /\ AgcReport("ok", agcCall.got)
  BY <1>1, <1>2 DEF AgcStream
<1>4. CASE f.kind = "exit" /\ agcCall.pc = "stream" /\ AgcReport("ok", agcCall.got)
  <2>1. /\ agcWire.down \in Seq(S) /\ Len(agcWire.down) = AgcChunks - agcCall.got + 1
        /\ agcCall.got <= AgcChunks
        /\ \A i \in 1..Len(agcWire.down) :
              agcWire.down[i].kind = IF i = Len(agcWire.down) THEN "exit" ELSE "output"
    BY <1>4 DEF AgcWireShape
  <2>2. f = agcWire.down[1] /\ Len(agcWire.down) \in Nat /\ Len(agcWire.down) # 0
    BY <1>0, <1>1, <2>1
  <2>3. Len(agcWire.down) = 1
    <3>1. 1 \in 1..Len(agcWire.down)  BY <2>2
    <3> QED BY <3>1, <2>1, <2>2, <1>4
  <2>4. agcCall.got = AgcChunks  BY <2>1, <2>3, <1>0, <1>00
  <2>5. AgcHolds("ok", agcCall.got)  BY <2>4, <1>0 DEF AgcHolds
  <2> QED BY <2>5, <1>0, <1>4, AgcReportStep
<1>5. CASE /\ f.kind = (IF agcCall.pc = "started" THEN "started" ELSE "output")
           /\ agcCall' = [agcCall EXCEPT !.pc = "stream", !.got = got]
           /\ agcWire' = [agcWire EXCEPT !.down = Tail(@)]
           /\ UNCHANGED <<agcLate, agcResult>>
  <2> DEFINE d == agcWire.down
             e == Tail(d)
             n == AgcChunks
  <2>1. got \in Nat /\ got <= n /\ e \in Seq(S) /\ Len(e) = n - got + 1
        /\ \A i \in 1..Len(e) : e[i].kind = IF i = Len(e) THEN "exit" ELSE "output"
    <3>1. CASE agcCall.pc = "started"
      <4>1. got = 0  BY <1>2, <1>5, <3>1
      <4>2. PICK T : T = [kind : {"started", "output", "exit"}, value : Nat]  OBVIOUS
      <4>3. /\ d \in Seq(T) /\ Len(d) = n + 2
            /\ d[n + 2].kind = "exit" /\ \A i \in 2..n + 1 : d[i].kind = "output"
        <5>1. d = AgcFrames(AgcAnswer("exec_stream", AgcChunks))
          BY <1>0, <3>1 DEF AgcWireShape
        <5> QED BY <5>1, <4>2, AgcFramesFacts
      <4> HIDE DEF d, n
      <4>4. /\ e \in Seq(T) /\ Len(e) = n + 1
            /\ \A i \in 1..n + 1 : e[i] = d[i + 1]
        BY <4>3, <1>00 DEF n
      <4> HIDE DEF e
      <4>5. \A i \in 1..n + 1 : e[i].kind = IF i = n + 1 THEN "exit" ELSE "output"
        <5> SUFFICES ASSUME NEW i \in 1..n + 1
                     PROVE  e[i].kind = IF i = n + 1 THEN "exit" ELSE "output"
          OBVIOUS
        <5>1. n \in Nat  BY <1>00 DEF n
        <5>2. CASE i = n + 1
          <6>1. i + 1 = n + 2  BY <5>1, <5>2
          <6> QED BY <6>1, <5>2, <4>3, <4>4
        <5>3. CASE i # n + 1
          <6>1. i + 1 \in 2..n + 1  BY <5>1, <5>3
          <6> QED BY <6>1, <5>3, <4>3, <4>4
        <5> QED BY <5>2, <5>3
      <4>6. \A i \in 1..n + 1 : e[i] \in S
        <5>1. \A i \in 1..n + 1 : e[i] \in T  BY <4>4
        <5> QED BY <5>1, <4>2, <4>5
      <4>7. e \in Seq(S)
        <5> HIDE DEF S
        <5> QED BY <4>4, <4>6
      <4> QED BY <4>1, <4>4, <4>5, <4>7, <1>00 DEF n
    <3>2. CASE agcCall.pc = "stream"
      <4>1. /\ d \in Seq(S) /\ Len(d) = n - agcCall.got + 1 /\ agcCall.got <= n
            /\ \A i \in 1..Len(d) : d[i].kind = IF i = Len(d) THEN "exit" ELSE "output"
        BY <3>2 DEF AgcWireShape
      <4>2. got = agcCall.got + 1 /\ f.kind = "output"  BY <1>2, <1>5, <3>2
      <4> HIDE DEF d, S, n
      <4>3. n \in Nat  BY <1>00 DEF n
      <4>4. d # <<>> /\ f = d[1] /\ Len(d) \in Nat /\ Len(d) # 0
        BY <1>0, <1>1, <4>1 DEF d
      <4>5. Len(d) # 1
        <5>1. 1 \in 1..Len(d)  BY <4>4
        <5> QED BY <5>1, <4>1, <4>2, <4>4
      <4>6. /\ e \in Seq(S) /\ Len(e) = Len(d) - 1
            /\ \A i \in 1..Len(e) : e[i] = d[i + 1]
        BY <4>1, <4>4
      <4> HIDE DEF e
      <4>7. \A i \in 1..Len(e) : e[i].kind = IF i = Len(e) THEN "exit" ELSE "output"
        <5> SUFFICES ASSUME NEW i \in 1..Len(e)
                     PROVE  e[i].kind = IF i = Len(e) THEN "exit" ELSE "output"
          OBVIOUS
        <5>1. i + 1 \in 1..Len(d) /\ (i + 1 = Len(d) <=> i = Len(e))  BY <4>4, <4>6
        <5> QED BY <5>1, <4>1, <4>6
      <4>8. got \in Nat /\ got <= n /\ Len(e) = n - got + 1
        <5> DEFINE k == agcCall.got
                   ld == Len(d)
                   le == Len(e)
        <5>1. /\ k \in Nat /\ ld = n - k + 1 /\ k <= n /\ ld # 0 /\ ld # 1 /\ le = ld - 1
              /\ got = k + 1
          BY <1>0, <4>1, <4>2, <4>4, <4>5, <4>6
        <5> HIDE DEF k, ld, le
        <5>2. got \in Nat /\ got <= n /\ le = n - got + 1  BY <5>1, <4>3
        <5> QED BY <5>2 DEF le
      <4> QED BY <4>6, <4>7, <4>8
    <3> QED BY <1>0, <3>1, <3>2
  <2>2. agcWire' = [up |-> <<>>, down |-> e]  BY <1>0, <1>5
  <2> HIDE DEF d, e, n, S
  <2>3. agcCall'.pc = "stream" /\ agcCall'.got = got /\ agcCall'.op = agcCall.op
    BY <1>5, <2>1 DEF AgcTypes
  <2>4. AgcWireShape'
    <3>1. agcWire' = [up |-> agcWire'.up, down |-> agcWire'.down]
          /\ agcWire'.up = <<>> /\ agcWire'.down = e
      BY <2>2
    <3> QED BY <3>1, <2>1, <2>3 DEF AgcWireShape, S, n
  <2>5. AgcGated'  BY <1>0, <2>3 DEF AgcGated
  <2> QED BY <1>0, <1>5, <2>1, <2>4, <2>5, AgcCallGoesOn
<1> QED BY <1>3, <1>4, <1>5

\* A step of the guest for a call that stays where it is.
LEMMA AgcGuestStep ==
  ASSUME AgcInv, UNCHANGED <<agcVersion, agcCall, agcResult>>,
         agcLate' \in Seq([op : AgcRequests, arg : Nat]),
         AgcKeeps(agcGuest'), AgcWireShape', AgcUpload'
  PROVE  AgcInv'
<1> USE DEF AgcInv
<1>1. AgcPower' = AgcPower  BY DEF AgcPower
<1>2. AgcTypes'  BY <1>1 DEF AgcTypes, AgcKeeps, AgcGuests
<1>3. AgcGated'  BY DEF AgcGated, AgcRequired
<1>4. AgcReported'  BY <1>1 DEF AgcReported, AgcKeeps
<1> QED BY <1>2, <1>3, <1>4

\* A request of a dropped connection that is carried out after all.
LEMMA AgcServeLateStep ==
  ASSUME AgcInv, AgcServeLate
  PROVE  AgcInv'
<1> USE DEF AgcInv
<1> DEFINE R == [op : AgcRequests, arg : Nat]
<1>0. /\ UNCHANGED <<agcVersion, agcCall, agcWire, agcResult>>
      /\ agcLate # <<>> /\ agcLate \in Seq(R) /\ agcLate' = Tail(agcLate)
      /\ agcGuest' \in {agcGuest, AgcCarryOut(Head(agcLate))[1]}
  BY DEF AgcServeLate, AgcTypes
<1>1. agcLate' \in Seq(R) /\ Head(agcLate) \in R
  <2> HIDE DEF R
  <2> QED BY <1>0
<1>2. AgcKeeps(agcGuest')
  <2>1. AgcKeeps(agcGuest)  BY DEF AgcTypes, AgcKeeps, AgcGuests
  <2>2. AgcKeeps(AgcCarryOut(Head(agcLate))[1])
    <3>1. PICK op \in AgcRequests, arg \in Nat : Head(agcLate) = [op |-> op, arg |-> arg]
      BY <1>1
    <3>2. AgcKeeps(AgcCarryOut([op |-> op, arg |-> arg])[1])  BY AgcCarryOutKeeps
    <3> QED BY <3>1, <3>2
  <2> QED BY <1>0, <2>1, <2>2
<1>3. AgcWireShape'
  <2>1. \A f : AgcFits(f) => AgcFits(f)'
    <3>1. AgcPower' = AgcPower  BY <1>0 DEF AgcPower
    <3> QED BY <1>0, <1>2, <3>1 DEF AgcFits, AgcKeeps
  <2>2. agcCall.pc = "wait" /\ AgcFits(agcWire.down[1]) => AgcFits(agcWire.down[1])'
    BY <2>1, <1>0
  <2> QED BY <1>0, <2>2 DEF AgcWireShape, AgcSent, AgcAnswer, AgcFrames
<1>4. AgcUpload'  BY <1>0 DEF AgcUpload
<1> QED BY <1>0, <1>1, <1>2, <1>3, <1>4, AgcGuestStep

\* The answer of a guest that knows the request, and what it did.
LEMMA AgcAnswered ==
  ASSUME AgcTypes, NEW op \in AgcOps, NEW arg \in Nat, agcVersion >= AgcVocabulary(op)
  PROVE  LET did == AgcCarryOut([op |-> op, arg |-> arg])
             g == did[1]
             f == did[2]
         IN  \/ /\ op = "write" /\ f.kind = "write"
                /\ g.file = IF arg > 1 /\ agcVersion >= 2 THEN Append(agcGuest.file, arg)
                            ELSE <<arg>>
             \/ op = "read" /\ f.kind = "read" /\ f.value = IF f.sized THEN arg ELSE 0
             \/ op = "restore" /\ f.kind = "restore" /\ g.restored
             \/ op \in {"session", "replay"} /\ f.kind = "session" /\ g.sessions > 0
             \/ op = "exec" /\ f.kind = "exec" /\ f.value = AgcChunks
             \/ /\ op = "shutdown" /\ f.kind = "shutdown" /\ f.value = AgcPower
                /\ g.power = AgcPower
<1> DEFINE req == [op |-> op, arg |-> arg]
<1>0. /\ req.op = op /\ req.arg = arg /\ agcVersion \in Nat /\ agcGuest \in AgcGuests
      /\ ~(agcVersion < AgcVocabulary(op))
  <2>1. AgcVocabulary(op) \in Nat  BY DEF AgcVocabulary, AgcOps
  <2> QED BY <2>1 DEF AgcTypes, AgcGuests
<1> HIDE DEF req
<1>1. CASE op = "write"
  <2>1. AgcCarryOut(req) = <<[agcGuest EXCEPT !.file = IF arg > 1 /\ agcVersion >= 2
                                                       THEN Append(@, arg) ELSE <<arg>>],
                             AgcAnswer("write", 1)>>
    BY <1>0, <1>1 DEF AgcCarryOut
  <2>2. AgcCarryOut(req)[2].kind = "write"  BY <2>1 DEF AgcAnswer
  <2>3. PICK file : file = IF arg > 1 /\ agcVersion >= 2 THEN Append(agcGuest.file, arg)
                           ELSE <<arg>>
    OBVIOUS
  <2>4. AgcCarryOut(req)[1] = [agcGuest EXCEPT !.file = file]  BY <2>1, <2>3
  <2>5. AgcCarryOut(req)[1].file = file  BY <2>4, <1>0 DEF AgcGuests
  <2> QED BY <2>2, <2>3, <2>5, <1>1, Zenon DEF req
<1>2. CASE op = "read"
  <2>1. AgcCarryOut(req) = <<agcGuest, [kind |-> "read", value |-> IF agcVersion >= 3 THEN arg ELSE 0,
                                        sized |-> agcVersion >= 3]>>
    BY <1>0, <1>2 DEF AgcCarryOut
  <2>2. PICK value : value = IF agcVersion >= 3 THEN arg ELSE 0  OBVIOUS
  <2>3. PICK f : f = AgcCarryOut(req)[2]  OBVIOUS
  <2>4. f = [kind |-> "read", value |-> value, sized |-> agcVersion >= 3]
    BY <2>1, <2>2, <2>3
  <2>5. f.kind = "read" /\ f.value = value  BY <2>4
  <2>6. f.sized <=> agcVersion >= 3  BY <2>4
  <2>7. value = IF f.sized THEN arg ELSE 0  BY <2>2, <2>6
  <2> QED BY <2>3, <2>5, <2>7, <1>2, Zenon DEF req
<1>3. CASE op = "restore"
  <2>1. AgcCarryOut(req) = <<[agcGuest EXCEPT !.restored = TRUE], AgcAnswer("restore", 1)>>
    BY <1>0, <1>3 DEF AgcCarryOut
  <2> QED BY <2>1, <1>0, <1>3 DEF AgcAnswer, AgcGuests, req
<1>4. CASE op \in {"session", "replay"}
  <2>1. AgcCarryOut(req) = <<[agcGuest EXCEPT !.sessions = @ + 1], AgcAnswer("session", 1)>>
    BY <1>0, <1>4 DEF AgcCarryOut
  <2>2. /\ AgcCarryOut(req)[1].sessions = agcGuest.sessions + 1
        /\ AgcCarryOut(req)[2].kind = "session"
    BY <2>1, <1>0 DEF AgcAnswer, AgcGuests
  <2>3. agcGuest.sessions + 1 > 0  BY <1>0 DEF AgcGuests
  <2> QED BY <2>2, <2>3, <1>4, Zenon DEF req
<1>5. CASE op = "exec"
  <2>1. AgcCarryOut(req) = <<[agcGuest EXCEPT !.output = AgcChunks], AgcAnswer(op, AgcChunks)>>
    BY <1>0, <1>5 DEF AgcCarryOut
  <2>2. AgcCarryOut(req)[2].kind = op /\ AgcCarryOut(req)[2].value = AgcChunks
    BY <2>1 DEF AgcAnswer
  <2> QED BY <2>2, <1>5, Zenon DEF req
<1>6. CASE op = "shutdown"
  <2>1. AgcCarryOut(req) = <<[agcGuest EXCEPT !.power = AgcPower], AgcAnswer("shutdown", AgcPower)>>
    BY <1>0, <1>6 DEF AgcCarryOut, AgcPower
  <2> QED BY <2>1, <1>0, <1>6 DEF AgcAnswer, AgcGuests, req
<1> QED BY <1>1, <1>2, <1>3, <1>4, <1>5, <1>6 DEF AgcOps

\* One more chunk of the upload.
LEMMA AgcUpToFacts ==
  ASSUME NEW n \in Nat
  PROVE  /\ AgcUpTo(n) \in Seq(Nat) /\ Len(AgcUpTo(n)) = n
         /\ n >= 1 => Append(AgcUpTo(n - 1), n) = AgcUpTo(n)
         /\ n = 1 => <<n>> = AgcUpTo(n)
<1>1. AgcUpTo(n) \in Seq(Nat) /\ Len(AgcUpTo(n)) = n /\ \A i \in 1..n : AgcUpTo(n)[i] = i
  BY DEF AgcUpTo
<1>2. ASSUME n >= 1 PROVE Append(AgcUpTo(n - 1), n) = AgcUpTo(n)
  <2>1. PICK m \in Nat : m = n - 1  BY <1>2
  <2>2. AgcUpTo(m) \in Seq(Nat) /\ Len(AgcUpTo(m)) = m /\ \A i \in 1..m : AgcUpTo(m)[i] = i
    BY DEF AgcUpTo
  <2>3. PICK s : s = AgcUpTo(m)  OBVIOUS
  <2>4. /\ Append(s, n) \in Seq(Nat) /\ Len(Append(s, n)) = m + 1
        /\ \A i \in 1..m : Append(s, n)[i] = s[i]
        /\ Append(s, n)[m + 1] = n
    BY <2>2, <2>3
  <2>5. \A i \in 1..n : i \in 1..m \/ i = m + 1  BY <2>1
  <2>6. \A i \in 1..n : Append(s, n)[i] = AgcUpTo(n)[i]
    BY <1>1, <2>1, <2>2, <2>3, <2>4, <2>5
  <2>7. Len(Append(s, n)) = Len(AgcUpTo(n))  BY <1>1, <2>1, <2>4
  <2>8. Append(s, n) = AgcUpTo(n)  BY <1>1, <2>4, <2>6, <2>7, SeqEqual
  <2> QED BY <2>1, <2>3, <2>8
<1>3. ASSUME n = 1 PROVE <<n>> = AgcUpTo(n)
  BY <1>1, <1>3, SeqEqual
<1> QED BY <1>1, <1>2, <1>3

\* The guest carries out the one request under way, or refuses it.
LEMMA AgcServeStep ==
  ASSUME AgcInv, AgcServe
  PROVE  AgcInv'
<1> USE DEF AgcInv
<1>0. UNCHANGED <<agcVersion, agcCall, agcLate, agcResult>> /\ agcWire.up # <<>>
      /\ AgcTypes /\ agcVersion \in Nat /\ agcCall.arg \in Nat
      /\ agcLate' \in Seq([op : AgcRequests, arg : Nat])
  BY DEF AgcServe, AgcTypes
<1>1. PICK op \in AgcRequests, arg \in Nat :
         /\ agcWire.up = AgcSent(op, arg) /\ agcVersion >= AgcVocabulary(op)
         /\ agcWire.down = <<>>
         /\ \/ op = "info" /\ arg = 0 /\ agcCall.pc = "version"
            \/ op = "exec_stream" /\ arg = agcCall.arg /\ agcCall.pc = "started"
            \/ op = agcCall.op /\ arg = agcCall.arg /\ agcCall.pc = "wait"
  BY <1>0, AgcUpFacts
<1>2. PICK req : req = [op |-> op, arg |-> arg]  OBVIOUS
<1>3. Head(agcWire.up) = req /\ Tail(agcWire.up) = <<>> /\ req.op = op /\ req.arg = arg
  BY <1>1, <1>2 DEF AgcSent
<1>4. PICK g : g = AgcCarryOut(req)[1]  OBVIOUS
<1>5. PICK f : f = AgcCarryOut(req)[2]  OBVIOUS
<1>6. \/ agcGuest' = g /\ agcWire' = [up |-> <<>>, down |-> AgcFrames(f)]
      \/ /\ AgcRefuses(req) /\ agcGuest' = agcGuest
         /\ \E coded \in BOOLEAN : agcWire' = [up |-> <<>>, down |-> <<AgcError(coded)>>]
  <2>1. \/ agcGuest' = g
           /\ agcWire' = [up |-> Tail(agcWire.up), down |-> agcWire.down \o AgcFrames(f)]
        \/ /\ AgcRefuses(req) /\ agcGuest' = agcGuest
           /\ \E coded \in IF agcVersion >= 6 THEN {TRUE} ELSE BOOLEAN :
                 agcWire' = [up |-> Tail(agcWire.up),
                             down |-> Append(agcWire.down, AgcError(coded))]
    BY <1>3, <1>4, <1>5 DEF AgcServe
  <2>2. \A x : Append(<<>>, x) = <<x>>  OBVIOUS
  <2>3. <<>> \o AgcFrames(f) = AgcFrames(f)
    <3>1. \A x : <<>> \o <<x>> = <<x>>  OBVIOUS
    <3>2. \A S, s : s \in Seq(S) => <<>> \o s = s  OBVIOUS
    <3>3. CASE f.kind # "exec_stream"  BY <3>1, <3>3 DEF AgcFrames
    <3>4. CASE f.kind = "exec_stream"
      <4>1. AgcFrames(f) = AgcFrames(AgcAnswer("exec_stream", AgcChunks))
        BY <3>4 DEF AgcFrames, AgcAnswer
      <4> QED BY <4>1, <3>2, AgcFramesFacts
    <3> QED BY <3>3, <3>4
  <2> QED BY <2>1, <2>2, <2>3, <1>1, <1>3
<1>7. CASE agcGuest' = g /\ agcWire' = [up |-> <<>>, down |-> AgcFrames(f)]
  <2>1. AgcKeeps(agcGuest') /\ (op # "write" => agcGuest'.file = agcGuest.file)
    BY <1>0, <1>2, <1>4, <1>7, AgcCarryOutKeeps
  <2>0. agcWire' = [up |-> agcWire'.up, down |-> agcWire'.down]
        /\ agcWire'.up = <<>> /\ agcWire'.down = AgcFrames(f)
    BY <1>7
  <2>2. CASE agcCall.pc = "version"
    <3>1. op = "info"  BY <1>1, <2>2
    <3>2. f = AgcAnswer("info", agcVersion)
      <4>1. ~(agcVersion < AgcVocabulary(op))  BY <3>1, <1>0 DEF AgcVocabulary
      <4> QED BY <4>1, <3>1, <1>3, <1>5 DEF AgcCarryOut
    <3>3. agcWire'.down = <<AgcAnswer("info", agcVersion)>>
      BY <3>2, <2>0 DEF AgcFrames, AgcAnswer
    <3>4. AgcWireShape'
      BY <3>3, <2>0, <2>2, <1>0 DEF AgcWireShape, AgcAnswer
    <3>5. AgcUpload'  BY <2>1, <2>2, <3>1, <1>0 DEF AgcUpload
    <3> QED BY <1>0, <2>1, <3>4, <3>5, AgcGuestStep
  <2>3. CASE agcCall.pc = "started"
    <3>1. op = "exec_stream" /\ agcCall.op = "exec"  BY <1>1, <2>3 DEF AgcGated, AgcOps
    <3>2. f = AgcAnswer("exec_stream", AgcChunks)
      <4>1. ~(agcVersion < AgcVocabulary(op))
        BY <3>1, <2>3, <1>0 DEF AgcVocabulary, AgcGated
      <4> QED BY <4>1, <3>1, <1>3, <1>5 DEF AgcCarryOut
    <3>3. AgcFrames(f) = AgcFrames(AgcAnswer("exec_stream", AgcChunks))'
      BY <3>2 DEF AgcFrames, AgcAnswer
    <3>4. AgcWireShape'
      BY <3>3, <2>0, <2>3, <1>0 DEF AgcWireShape
    <3>5. AgcUpload'  BY <2>1, <2>3, <3>1, <1>0 DEF AgcUpload
    <3> QED BY <1>0, <2>1, <3>4, <3>5, AgcGuestStep
  <2>4. CASE agcCall.pc = "wait"
    <3>1. op = agcCall.op /\ arg = agcCall.arg /\ op \in AgcOps
      BY <1>1, <2>4 DEF AgcTypes
    <3>2. \/ /\ op = "write" /\ f.kind = "write"
             /\ g.file = IF arg > 1 /\ agcVersion >= 2 THEN Append(agcGuest.file, arg)
                         ELSE <<arg>>
          \/ op = "read" /\ f.kind = "read" /\ f.value = IF f.sized THEN arg ELSE 0
          \/ op = "restore" /\ f.kind = "restore" /\ g.restored
          \/ op \in {"session", "replay"} /\ f.kind = "session" /\ g.sessions > 0
          \/ op = "exec" /\ f.kind = "exec" /\ f.value = AgcChunks
          \/ /\ op = "shutdown" /\ f.kind = "shutdown" /\ f.value = AgcPower
             /\ g.power = AgcPower
      BY <1>0, <1>1, <1>2, <1>4, <1>5, <3>1, AgcAnswered
    <3>3. AgcFrames(f) = <<f>>  BY <3>2 DEF AgcFrames
    <3>4. AgcFits(f)'
      <4>1. AgcPower' = AgcPower  BY <1>0 DEF AgcPower
      <4> QED BY <4>1, <3>1, <3>2, <1>0, <1>7 DEF AgcFits
    <3>5. AgcWireShape'
      <4>1. agcWire'.down = <<f>> /\ Len(agcWire'.down) = 1 /\ agcWire'.down[1] = f
        BY <2>0, <3>3
      <4>2. AgcFits(agcWire.down[1])'  BY <4>1, <3>4 DEF AgcFits
      <4> QED BY <4>1, <4>2, <2>0, <2>4, <1>0 DEF AgcWireShape
    <3>6. AgcUpload'
      <4>1. CASE op # "write"  BY <4>1, <2>1, <3>1, <1>0 DEF AgcUpload
      <4>2. CASE op = "write"
        <5>1. /\ arg >= 1
              /\ arg > 1 => agcGuest.file = AgcUpTo(arg - 1)
          BY <4>2, <3>1, <1>0 DEF AgcUpload
        <5>2. arg > 1 => agcVersion >= 2
          BY <4>2, <3>1, <2>4, <1>0 DEF AgcGated, AgcRequired
        <5>3. g.file = AgcUpTo(arg)
          <6>1. g.file = IF arg > 1 /\ agcVersion >= 2 THEN Append(agcGuest.file, arg)
                         ELSE <<arg>>
            BY <3>2, <4>2
          <6>2. CASE arg > 1
            <7>1. g.file = Append(AgcUpTo(arg - 1), arg)  BY <6>1, <6>2, <5>1, <5>2
            <7>2. Append(AgcUpTo(arg - 1), arg) = AgcUpTo(arg)  BY <5>1, AgcUpToFacts
            <7> QED BY <7>1, <7>2
          <6>3. CASE arg = 1
            <7>1. g.file = <<arg>>  BY <6>1, <6>3
            <7> QED BY <7>1, <6>3, AgcUpToFacts
          <6> QED BY <5>1, <6>2, <6>3
        <5>4. agcGuest'.file = AgcUpTo(agcCall.arg)'
          BY <5>3, <3>1, <1>0, <1>7 DEF AgcUpTo
        <5>5. agcWire'.up = <<>>  BY <2>0
        <5> QED BY <5>4, <5>5, <4>2, <3>1, <2>4, <1>0 DEF AgcUpload
      <4> QED BY <4>1, <4>2
    <3> QED BY <1>0, <2>1, <3>5, <3>6, AgcGuestStep
  <2> QED BY <1>1, <2>2, <2>3, <2>4
<1>8. CASE /\ AgcRefuses(req) /\ agcGuest' = agcGuest
           /\ \E coded \in BOOLEAN : agcWire' = [up |-> <<>>, down |-> <<AgcError(coded)>>]
  <2>1. op \in {"session", "replay", "restore"} /\ agcCall.pc = "wait" /\ op = agcCall.op
    BY <1>1, <1>3, <1>8 DEF AgcRefuses
  <2>2. PICK coded \in BOOLEAN : agcWire' = [up |-> <<>>, down |-> <<AgcError(coded)>>]
    BY <1>8
  <2>3. PICK e : e = AgcError(coded)  OBVIOUS
  <2>4. e.kind = "error" /\ e.value \in {"limit", "phrase"}  BY <2>3 DEF AgcError
  <2>5. AgcFits(e)'  BY <2>1, <2>4, <1>0 DEF AgcFits
  <2>6. AgcWireShape'
    <3>1. /\ agcWire' = [up |-> agcWire'.up, down |-> agcWire'.down]
          /\ agcWire'.up = <<>> /\ agcWire'.down = <<e>> /\ Len(agcWire'.down) = 1
          /\ agcWire'.down[1] = e
      BY <2>2, <2>3
    <3>2. AgcFits(agcWire.down[1])'  BY <3>1, <2>5 DEF AgcFits
    <3> QED BY <3>1, <3>2, <2>1, <1>0 DEF AgcWireShape
  <2>7. AgcUpload'  BY <2>1, <1>0, <1>8 DEF AgcUpload
  <2>8. AgcKeeps(agcGuest')  BY <1>8 DEF AgcTypes, AgcKeeps, AgcGuests
  <2> QED BY <1>0, <2>6, <2>7, <2>8, AgcGuestStep
<1> QED BY <1>6, <1>7, <1>8

\* The invariant, for every step of the host and of the guest.
LEMMA AgcStep ==
  ASSUME AgcInv, [AgcNext]_agcVars
  PROVE  AgcInv'
<1>1. CASE \E op \in AgcOps, arg \in 0..AgcChunks : AgcOpen(op, arg)  BY <1>1, AgcOpenStep
<1>2. CASE AgcAsk  BY <1>2, AgcAskStep
<1>3. CASE AgcGate  BY <1>3, AgcGateStep
<1>4. CASE AgcSend  BY <1>4, AgcSendStep
<1>5. CASE AgcReceive  BY <1>5, AgcReceiveStep
<1>6. CASE AgcStream  BY <1>6, AgcStreamStep
<1>7. CASE AgcDrop  BY <1>7, AgcDropStep
<1>8. CASE AgcServe  BY <1>8, AgcServeStep
<1>9. CASE AgcServeLate  BY <1>9, AgcServeLateStep
<1>10. CASE UNCHANGED agcVars
  <2>1. UNCHANGED <<agcVersion, agcGuest, agcCall, agcWire, agcLate, agcResult>>
    BY <1>10 DEF agcVars
  <2>2. agcLate' \in Seq([op : AgcRequests, arg : Nat]) /\ AgcKeeps(agcGuest')
    BY <2>1 DEF AgcInv, AgcTypes, AgcKeeps, AgcGuests
  <2>3. AgcWireShape'
    <3>1. AgcPower' = AgcPower  BY <2>1 DEF AgcPower
    <3>2. AgcFits(agcWire.down[1])' <=> AgcFits(agcWire.down[1])  BY <2>1, <3>1 DEF AgcFits
    <3> QED BY <2>1, <3>2 DEF AgcInv, AgcWireShape, AgcSent, AgcAnswer, AgcFrames
  <2>4. AgcUpload'  BY <2>1 DEF AgcInv, AgcUpload, AgcUpTo
  <2> QED BY <2>1, <2>2, <2>3, <2>4, AgcGuestStep
<1> QED BY <1>1, <1>2, <1>3, <1>4, <1>5, <1>6, <1>7, <1>8, <1>9, <1>10 DEF AgcNext

\* The invariant says what the property says.
LEMMA AgcInvExact == AgcInv => AgcExact
<1> SUFFICES ASSUME AgcInv PROVE AgcExact  OBVIOUS
<1>1. \A i \in 1..Len(agcWire.up) : agcVersion >= AgcVocabulary(agcWire.up[i].op)
  <2>1. CASE agcWire.up = <<>>  BY <2>1
  <2>2. CASE agcWire.up # <<>>
    <3>1. PICK op \in AgcRequests, arg \in Nat :
             agcWire.up = AgcSent(op, arg) /\ agcVersion >= AgcVocabulary(op)
      BY <2>2, AgcUpFacts
    <3>2. Len(agcWire.up) = 1 /\ agcWire.up[1].op = op  BY <3>1 DEF AgcSent
    <3>3. \A i \in 1..Len(agcWire.up) : i = 1  BY <3>2
    <3> QED BY <3>1, <3>2, <3>3
  <2> QED BY <2>1, <2>2
<1>2. AgcUpload /\ AgcReported  BY DEF AgcInv
<1> QED BY <1>1, <1>2 DEF AgcExact, AgcUpload, AgcReported, AgcUpTo


-----------------------------------------------------------------------------
(***************************************************************************)
(* `husker job` (CliJob): how far the client is, and what it then knows.   *)
(***************************************************************************)
JbWaiting == {"validate", "create", "health", "look up", "ready", "hosts", "archive", "info",
              "upload", "stream", "exec"}
JbFetching == {"manifest", "outputs", "extract"}
JbEnding == {"cleanup", "render", "abandon", "done"}

\* Outputs were asked for and some matched, as an honest list says: then they
\* are whole in the tree.
JbBrought ==
  JbAsked(jbOpt) # {} /\ jbLines = Cardinality(jbMissed) /\ jbMissed # JbAsked(jbOpt) =>
    jbHost = "whole"

\* The list names patterns that were asked for.
JbListed == jbOpt \in JbOptions /\ jbMissed \in SUBSET JbAsked(jbOpt)

\* The command is started by the last stage of waiting and by no later one.
JbOnce ==
  /\ jbStage \in JbWaiting \cup JbFetching \cup {"decide"} \cup JbEnding
  /\ jbRuns \in {0, 1}
  /\ jbStage \in JbWaiting => jbRuns = 0
  /\ jbStage \in JbFetching \cup {"decide"} => jbRuns = 1

\* What was fetched before the client decides.
JbFetched ==
  /\ jbStage \in JbWaiting \cup JbFetching => jbHost = "untouched" /\ jbFault = FALSE
  /\ jbStage = "extract" => jbPacked \in {"whole", "torn"}
  /\ jbHost # "untouched" => jbPacked = "whole"
  /\ jbStage = "decide" => jbFault \/ JbBrought

\* A success was decided and is still one.
JbDecided ==
  /\ jbStage \notin JbEnding => jbEnd = "none"
  /\ jbEnd = "success" =>
       /\ jbStage # "abandon"
       /\ jbExit = 0 /\ jbRuns = 1 /\ ~JbRetrievalFails /\ JbBrought

\* The client's own VM after its clean-up.
JbLeft ==
  /\ jbStage \in {"validate", "create"} => ~jbMade
  /\ jbStage = "render" /\ jbVm = "ours" => \/ jbOpt.keep \/ jbEnd = "unclean"
                                            \/ jbTold /\ jbEnd # "success"
  /\ jbStage = "done" /\ jbVm = "ours" => /\ jbMade => jbTold \/ jbEnd = "undelivered"
                                          /\ jbEnd = "success" => jbOpt.keep

JbCore == JbOnce /\ JbFetched /\ JbDecided /\ JbLeft
JbInv == JbCore /\ JbListed

\* A job starts with the invariant.
LEMMA JbInitInv == ASSUME JbInit PROVE JbInv
<1>1. JbCore
  BY DEF JbInit, JbCore, JbOnce, JbFetched, JbDecided, JbLeft, JbWaiting, JbFetching, JbEnding
<1>2. JbListed
  BY DEF JbInit, JbListed
<1> QED BY <1>1, <1>2 DEF JbInv

\* A list without repeated lines that is as long as the request names all of it.
LEMMA JbCounted ==
  ASSUME JbListed, jbLines = Cardinality(JbAsked(jbOpt)), jbLines = Cardinality(jbMissed)
  PROVE  jbMissed = JbAsked(jbOpt)
<1>1. PICK A, M : A = JbAsked(jbOpt) /\ M = jbMissed
  OBVIOUS
<1>2. IsFiniteSet(jbOpt.out) /\ IsFiniteSet(jbOpt.back)
  BY JbAssumption DEF JbListed
<1>3. IsFiniteSet(A)
  BY <1>1, <1>2, FS_Union, FS_EmptySet DEF JbAsked
<1>4. M \in SUBSET A
  BY <1>1 DEF JbListed
<1>5. Cardinality(M) = Cardinality(A) => M = A
  BY <1>3, <1>4, FS_Subset
<1> QED BY <1>1, <1>5

\* The invariant is the property and what it rests on.
LEMMA JbInvHonest == ASSUME JbInv PROVE JbHonest
<1> JbCore
  BY DEF JbInv
<1>1. jbRuns <= 1
  BY DEF JbCore, JbOnce
<1>2. jbStage = "done" /\ jbEnd = "success" /\ jbVm = "ours" => jbOpt.keep
  BY DEF JbCore, JbLeft
<1>3. jbStage = "done" /\ jbMade /\ jbVm = "ours" => jbTold \/ jbEnd = "undelivered"
  BY DEF JbCore, JbLeft
<1>4. ASSUME jbEnd = "success"
      PROVE  /\ jbExit = 0 /\ jbRuns = 1
             /\ JbAsked(jbOpt) # {} => jbMissed \cap jbOpt.out = {}
             /\ JbAsked(jbOpt) # {} =>
                  (jbLines = Cardinality(jbMissed) /\ jbMissed # JbAsked(jbOpt) => jbHost = "whole")
  BY <1>4, Zenon DEF JbCore, JbDecided, JbBrought, JbRetrievalFails
<1>5. jbHost # "untouched" => jbPacked = "whole"
  BY DEF JbCore, JbFetched
<1> QED BY <1>1, <1>2, <1>3, <1>4, <1>5, Zenon DEF JbHonest

\* A job that is given up (execute_created_job failed or was interrupted):
\* what it did so far is kept, and the VM is named or destroyed.
LEMMA JbAbandonInv ==
  ASSUME JbCore, NEW end \in {"failure", "exit"}, JbAbandon(end),
         jbStage \in JbWaiting \cup JbFetching,
         jbRuns' \in {jbRuns, jbRuns + 1}, jbRuns' \in {0, 1},
         UNCHANGED <<jbOpt, jbMade, jbVm, jbHost, jbFault>>
  PROVE  JbCore'
<1>1. jbEnd' = end /\ jbTold' = jbOpt.keep /\ jbOpt' = jbOpt /\ jbVm' = jbVm /\ jbMade' = jbMade
  BY DEF JbAbandon
<1>2. jbStage' = IF jbOpt.keep THEN "done" ELSE "abandon"
  BY DEF JbAbandon, JbGo
<1>3. jbHost' = "untouched"
  BY DEF JbCore, JbFetched
<1>4. JbOnce'
  BY <1>2 DEF JbOnce, JbEnding, JbWaiting, JbFetching
<1>5. JbFetched'
  BY <1>2, <1>3 DEF JbFetched, JbWaiting, JbFetching
<1>6. JbDecided'
  BY <1>1, <1>2 DEF JbDecided, JbEnding
<1>7. JbLeft'
  BY <1>1, <1>2 DEF JbLeft
<1> QED BY <1>4, <1>5, <1>6, <1>7 DEF JbCore

\* A step on to another stage of waiting keeps the invariant.
LEMMA JbWaitInv ==
  ASSUME JbCore, jbStage \in JbWaiting, jbStage' \in JbWaiting,
         jbStage' \in {"validate", "create"} => ~jbMade',
         UNCHANGED <<jbOpt, jbRuns, jbHost, jbPacked, jbFault, jbEnd>>
  PROVE  JbCore'
<1>1. JbOnce'
  BY DEF JbCore, JbOnce, JbWaiting, JbFetching, JbEnding
<1>2. JbFetched'
  BY DEF JbCore, JbFetched, JbWaiting, JbFetching
<1>3. JbDecided'
  BY DEF JbCore, JbDecided, JbWaiting, JbEnding
<1>4. JbLeft'
  BY DEF JbLeft, JbWaiting
<1> QED BY <1>1, <1>2, <1>3, <1>4 DEF JbCore

\* The command is started, and answered or not (exec_stream, exec).
LEMMA JbRanInv ==
  ASSUME JbCore, NEW o, NEW exit, JbRan(o, exit), jbStage \in {"stream", "exec"},
         UNCHANGED <<jbOpt, jbMade, jbVm, jbHost, jbFault>>
  PROVE  JbCore'
<1>0. jbStage \in JbWaiting
  BY DEF JbWaiting
<1>1. jbRuns = 0 /\ jbRuns' = 1 /\ jbStage \in JbWaiting
  <2>1. jbRuns = 0  BY <1>0 DEF JbCore, JbOnce
  <2>2. jbRuns' = jbRuns + 1  BY DEF JbRan
  <2> QED BY <1>0, <2>1, <2>2
<1>2. CASE o = "ok"
  <2>1. jbStage' \in {"decide", "manifest"} /\ jbEnd' = jbEnd /\ jbEnd = "none"
    BY <1>1, <1>2 DEF JbRan, JbGo, JbAfterExec, JbCore, JbDecided, JbWaiting, JbEnding
  <2>2. jbStage' = "decide" => JbAsked(jbOpt') = {}
    BY <1>2 DEF JbRan, JbGo, JbAfterExec
  <2>3. jbHost' = "untouched" /\ jbFault' = FALSE
    BY <1>1 DEF JbCore, JbFetched
  <2>4. JbOnce'
    BY <1>1, <2>1 DEF JbOnce, JbWaiting, JbFetching, JbEnding
  <2>5. JbFetched'
    BY <2>1, <2>2, <2>3 DEF JbFetched, JbBrought, JbWaiting, JbFetching, JbAsked
  <2>6. JbDecided' /\ JbLeft'
    BY <2>1 DEF JbDecided, JbLeft
  <2> QED BY <2>4, <2>5, <2>6 DEF JbCore
<1>3. CASE o # "ok"
  BY <1>1, <1>3, JbAbandonInv DEF JbRan
<1> QED BY <1>2, <1>3

\* The command of a job (JbStream, JbExec).
LEMMA JbCommandInv ==
  ASSUME JbCore, NEW o, NEW exit, JbStream(o, exit) \/ JbExec(o, exit)
  PROVE  JbCore'
<1>1. jbStage \in {"stream", "exec"} /\ jbStage \in JbWaiting
  BY DEF JbStream, JbExec, JbWaiting
<1>2. UNCHANGED <<jbOpt, jbMade, jbVm, jbHost, jbFault>>
  BY DEF JbStream, JbExec
<1>3. CASE JbRan(o, exit)
  BY <1>1, <1>2, <1>3, JbRanInv
<1>4. CASE JbNotRun
  <2>1. jbRuns' = jbRuns  BY <1>4 DEF JbNotRun, jbGuest
  <2>2. jbRuns \in {0, 1}  BY DEF JbCore, JbOnce
  <2> QED BY <1>1, <1>2, <1>4, <2>1, <2>2, JbAbandonInv DEF JbNotRun
<1>5. CASE /\ JbGo("exec") /\ UNCHANGED <<jbExit, jbMissed, jbLines, jbPacked, jbEnd, jbTold>>
           /\ jbRuns' = jbRuns
  BY <1>1, <1>2, <1>5, JbWaitInv DEF JbGo, JbWaiting
<1> QED
  BY <1>3, <1>4, <1>5 DEF JbStream, JbExec, JbAfterStream, JbEffect

\* A request the job waits for (JbNeeds): it goes on or gives up.
LEMMA JbNeedsInv ==
  ASSUME JbCore, NEW stage, NEW next \in JbWaiting, NEW o, JbNeeds(stage, next, o),
         stage \in JbWaiting, next \notin {"validate", "create"}
  PROVE  JbCore'
<1>1. jbStage \in JbWaiting /\ UNCHANGED <<jbOpt, jbMade, jbVm, jbRuns, jbPacked, jbHost, jbFault>>
  BY DEF JbNeeds, jbGuest, jbResult
<1>2. CASE o = "ok"
  BY <1>1, <1>2, JbWaitInv DEF JbNeeds, JbGo
<1>3. CASE o # "ok"
  <2>1. JbAbandon("failure")  BY <1>3 DEF JbNeeds
  <2>2. jbRuns \in {0, 1}  BY DEF JbCore, JbOnce
  <2> QED BY <1>1, <2>1, <2>2, JbAbandonInv
<1> QED BY <1>2, <1>3

\* The steps before the command.
LEMMA JbPrepareInv ==
  ASSUME JbCore, NEW o, NEW ok \in BOOLEAN,
         \/ JbHealth \/ JbReadyTimeout \/ JbLookUp(o) \/ JbReady(o) \/ JbHosts(o) \/ JbInfo(o)
         \/ JbUpload(o) \/ JbArchive(ok)
  PROVE  JbCore'
<1>0. jbRuns \in {0, 1}  BY DEF JbCore, JbOnce
<1>1. CASE JbHealth
  BY <1>1, JbWaitInv DEF JbHealth, JbGo, JbWaiting, jbGuest, jbResult
<1>2. CASE JbReadyTimeout
  BY <1>0, <1>2, JbAbandonInv DEF JbReadyTimeout, JbWaiting, jbGuest, jbResult
<1>3. CASE JbLookUp(o) \/ JbReady(o) \/ JbHosts(o) \/ JbInfo(o)
  <2>1. {"look up", "ready", "hosts", "info", "upload", "archive", "stream", "exec"} \subseteq JbWaiting
    BY DEF JbWaiting
  <2>2. CASE JbLookUp(o)  BY <2>1, <2>2, JbNeedsInv DEF JbLookUp
  <2>3. CASE JbReady(o)  BY <2>1, <2>3, JbNeedsInv DEF JbReady
  <2>4. CASE JbHosts(o)
    <3> DEFINE next == IF jbOpt.sync THEN "archive" ELSE IF jbOpt.text THEN "stream" ELSE "exec"
    <3>1. next \in JbWaiting /\ next \notin {"validate", "create"}  BY <2>1
    <3>2. JbNeeds("hosts", next, o)  BY <2>4 DEF JbHosts
    <3> HIDE DEF next
    <3> QED BY <2>1, <3>1, <3>2, JbNeedsInv
  <2>5. CASE JbInfo(o)  BY <2>1, <2>5, JbNeedsInv DEF JbInfo
  <2> QED BY <1>3, <2>2, <2>3, <2>4, <2>5
<1>4. CASE JbUpload(o)
  <2>1. jbStage = "upload" /\ UNCHANGED <<jbOpt, jbMade, jbVm, jbRuns, jbPacked, jbHost, jbFault>>
    BY <1>4 DEF JbUpload, jbGuest, jbResult
  <2>2. CASE o # "ok"
    BY <1>0, <1>4, <2>1, <2>2, JbAbandonInv DEF JbUpload, JbWaiting
  <2>3. CASE o = "ok"
    <3>1. jbStage' \in {"upload", "stream", "exec"} /\ jbEnd' = jbEnd
      BY <1>4, <2>3 DEF JbUpload, JbGo
    <3> QED BY <2>1, <3>1, JbWaitInv DEF JbWaiting
  <2> QED BY <2>2, <2>3
<1>5. CASE JbArchive(ok)
  <2>1. jbStage = "archive" /\ UNCHANGED <<jbOpt, jbMade, jbVm, jbRuns, jbPacked, jbHost, jbFault>>
    BY <1>5 DEF JbArchive, jbGuest, jbResult
  <2>2. CASE ~ok
    BY <1>0, <1>5, <2>1, <2>2, JbAbandonInv DEF JbArchive, JbWaiting
  <2>3. CASE ok
    <3>1. jbStage' \in {"upload", "info"} /\ jbEnd' = jbEnd
      BY <1>5, <2>3 DEF JbArchive, JbGo
    <3> QED BY <2>1, <3>1, JbWaitInv DEF JbWaiting
  <2> QED BY <2>2, <2>3
<1> QED BY <1>1, <1>2, <1>3, <1>4, <1>5

\* The steps around the creation and the ones any stage may meet.
LEMMA JbOutsideInv ==
  ASSUME JbCore, NEW o, NEW ok \in BOOLEAN,
         \/ JbValidate \/ JbCreate(o) \/ JbInterruptCreate(ok) \/ JbInterrupt \/ JbLimited \/ JbRival
  PROVE  JbCore'
<1>0. jbRuns \in {0, 1}  BY DEF JbCore, JbOnce
<1>1. CASE JbValidate \/ JbCreate(o) \/ JbInterruptCreate(ok)
  <2>1. jbStage \in {"validate", "create"} /\ jbStage' \in {"create", "health", "done"}
    BY <1>1 DEF JbValidate, JbCreate, JbInterruptCreate, JbGo
  <2>2. UNCHANGED <<jbOpt, jbRuns, jbHost, jbPacked, jbFault>>
    BY <1>1 DEF JbValidate, JbCreate, JbInterruptCreate, jbGuest, jbResult
  <2>3. CASE jbStage' # "done"
    <3>1. jbEnd' = jbEnd
      BY <1>1, <2>3 DEF JbValidate, JbCreate, JbInterruptCreate, JbGo
    <3>2. jbStage' = "create" => ~jbMade'
      BY <1>1, <2>1 DEF JbValidate, JbCreate, JbInterruptCreate, JbGo, JbCore, JbLeft
    <3> QED BY <2>1, <2>2, <2>3, <3>1, <3>2, JbWaitInv DEF JbWaiting
  <2>4. CASE jbStage' = "done"
    <3>1. jbEnd' \in {"failure", "exit"}
      BY <1>1, <2>4 DEF JbValidate, JbCreate, JbInterruptCreate, JbGo
    <3>2. ~jbMade'
      BY <1>1, <2>1, <2>4 DEF JbValidate, JbCreate, JbInterruptCreate, JbGo, JbCore, JbLeft
    <3>3. jbHost = "untouched" /\ jbRuns = 0
      BY <2>1 DEF JbCore, JbOnce, JbFetched, JbWaiting
    <3>4. JbOnce'
      BY <2>2, <2>4, <3>3 DEF JbOnce, JbWaiting, JbFetching, JbEnding
    <3>5. JbFetched'
      BY <2>2, <2>4, <3>3 DEF JbFetched, JbWaiting, JbFetching
    <3>6. JbDecided' /\ JbLeft'
      BY <2>4, <3>1, <3>2 DEF JbDecided, JbLeft, JbEnding
    <3> QED BY <3>4, <3>5, <3>6 DEF JbCore
  <2> QED BY <2>1, <2>3, <2>4
<1>2. CASE JbInterrupt
  <2>1. jbStage \in JbWaiting \cup JbFetching
    BY <1>2 DEF JbInterrupt, JbRunning, JbWaiting, JbFetching
  <2>2. jbRuns' \in {jbRuns, jbRuns + 1}
    BY <1>2 DEF JbInterrupt
  <2>3. jbRuns' \in {0, 1}
    <3>1. CASE jbStage \in {"stream", "exec"}
      <4>1. jbRuns = 0  BY <3>1 DEF JbCore, JbOnce, JbWaiting
      <4> QED BY <2>2, <4>1
    <3>2. CASE jbStage \notin {"stream", "exec"}
      BY <1>0, <1>2, <3>2 DEF JbInterrupt
    <3> QED BY <3>1, <3>2
  <2>4. JbAbandon("exit") /\ UNCHANGED <<jbOpt, jbMade, jbVm, jbHost, jbFault>>
    BY <1>2 DEF JbInterrupt, jbResult
  <2> QED BY <2>1, <2>2, <2>3, <2>4, JbAbandonInv
<1>3. CASE JbLimited
  BY <1>3 DEF JbLimited, JbCore, JbOnce, JbFetched, JbDecided, JbLeft, JbBrought, JbRetrievalFails,
     JbAsked, jbGuest, jbResult
<1>4. CASE JbRival
  <2>1. jbVm' # "ours"  BY <1>4 DEF JbRival
  <2> QED BY <1>4, <2>1 DEF JbRival, JbCore, JbOnce, JbFetched, JbDecided, JbLeft, JbBrought,
             JbRetrievalFails, JbAsked, jbGuest, jbResult
<1> QED BY <1>1, <1>2, <1>3, <1>4

\* retrieve_outputs: manifest, archive, extraction.
LEMMA JbRetrieveInv ==
  ASSUME JbCore, JbListed, NEW o, NEW ok \in BOOLEAN,
         JbManifest(o) \/ JbOutputs(o) \/ JbExtract(ok)
  PROVE  JbCore'
<1>0. /\ jbStage \in JbFetching /\ jbRuns = 1 /\ jbHost = "untouched" /\ jbFault = FALSE
      /\ jbEnd = "none"
  BY DEF JbManifest, JbOutputs, JbExtract, JbFetching, JbCore, JbOnce, JbFetched, JbDecided, JbEnding
<1>1. UNCHANGED <<jbOpt, jbMade, jbVm, jbRuns, jbMissed, jbLines, jbPacked, jbExit>>
  BY DEF JbManifest, JbOutputs, JbExtract, jbGuest
<1>2. ASSUME JbManifest(o) \/ JbOutputs(o), JbAbandon("failure")
      PROVE  JbCore'
  <2>1. jbHost' = jbHost /\ jbFault' = jbFault
    BY <1>2, <1>0 DEF JbManifest, JbOutputs, JbReadFailed, JbAbandon
  <2> QED BY <1>0, <1>1, <1>2, <2>1, JbAbandonInv
<1> DEFINE On == /\ jbStage' \in {"outputs", "extract", "decide"}
                 /\ jbEnd' = "none"
                 /\ jbHost' # "untouched" => jbPacked = "whole"
                 /\ jbStage' # "decide" => jbHost' = "untouched" /\ jbFault' = FALSE
                 /\ jbStage' = "extract" => jbPacked \in {"whole", "torn"}
                 /\ jbStage' = "decide" => jbFault' \/ JbBrought'
<1>3. ASSUME On PROVE JbCore'
  <2>1. JbOnce'
    BY <1>0, <1>1, <1>3 DEF JbOnce, JbWaiting, JbFetching, JbEnding
  <2>2. JbFetched'
    BY <1>1, <1>3 DEF JbFetched, JbWaiting, JbFetching
  <2>3. JbDecided' /\ JbLeft'
    BY <1>3 DEF JbDecided, JbLeft
  <2> QED BY <2>1, <2>2, <2>3 DEF JbCore
<1>4. CASE JbManifest(o)
  <2>1. CASE o = "ok"
    <3>1. jbStage' = (IF jbLines = Cardinality(JbAsked(jbOpt)) THEN "decide" ELSE "outputs")
      BY <1>4, <2>1 DEF JbManifest, JbGo
    <3>2. jbEnd' = jbEnd /\ jbHost' = jbHost /\ jbFault' = jbFault
      BY <1>4, <2>1 DEF JbManifest
    <3>3. ASSUME jbLines = Cardinality(JbAsked(jbOpt)) PROVE JbBrought'
      <4>1. jbLines = Cardinality(jbMissed) => jbMissed = JbAsked(jbOpt)
        BY <3>3, JbCounted
      <4> QED BY <1>1, <4>1 DEF JbBrought, JbAsked
    <3> QED BY <1>0, <1>3, <3>1, <3>2, <3>3
  <2>2. CASE o = "refused"
    <3>1. /\ jbStage' = "decide" /\ jbFault' = TRUE /\ jbEnd' = jbEnd /\ jbHost' = jbHost
      BY <1>4, <2>2 DEF JbManifest, JbReadFailed, JbGo
    <3> QED BY <1>0, <1>3, <3>1
  <2>3. CASE o \notin {"ok", "refused"}
    BY <1>2, <1>4, <2>3 DEF JbManifest, JbReadFailed
  <2> QED BY <2>1, <2>2, <2>3
<1>5. CASE JbOutputs(o)
  <2>1. CASE o = "ok"
    <3>1. jbStage' = "extract" /\ jbPacked \in {"whole", "torn"}
      BY <1>5, <2>1 DEF JbOutputs, JbGo
    <3>2. jbEnd' = jbEnd /\ jbHost' = jbHost /\ jbFault' = jbFault
      BY <1>5, <2>1 DEF JbOutputs
    <3> QED BY <1>0, <1>3, <3>1, <3>2
  <2>2. CASE o = "refused"
    <3>1. /\ jbStage' = "decide" /\ jbFault' = TRUE /\ jbEnd' = jbEnd /\ jbHost' = jbHost
      BY <1>5, <2>2 DEF JbOutputs, JbReadFailed, JbGo
    <3> QED BY <1>0, <1>3, <3>1
  <2>3. CASE o \notin {"ok", "refused"}
    BY <1>2, <1>5, <2>3 DEF JbOutputs, JbReadFailed
  <2> QED BY <2>1, <2>2, <2>3
<1>6. CASE JbExtract(ok)
  <2>1. jbStage' = "decide" /\ jbEnd' = jbEnd
    BY <1>6 DEF JbExtract, JbGo
  <2>2. CASE jbPacked # "whole"
    <3>1. jbHost' = "untouched" /\ jbFault' = TRUE
      BY <1>6, <2>2 DEF JbExtract, JbValidated
    <3> QED BY <1>0, <1>3, <2>1, <3>1
  <2>3. CASE jbPacked = "whole" /\ ~ok
    <3>1. jbFault' = TRUE
      BY <1>6, <2>3 DEF JbExtract, JbValidated
    <3> QED BY <1>0, <1>3, <2>1, <2>3, <3>1
  <2>4. CASE jbPacked = "whole" /\ ok
    <3>1. jbHost' = "whole"
      BY <1>6, <2>4 DEF JbExtract, JbValidated
    <3>2. JbBrought'
      BY <3>1 DEF JbBrought
    <3> QED BY <1>0, <1>3, <2>1, <2>4, <3>2
  <2> QED BY <2>2, <2>3, <2>4
<1> QED BY <1>4, <1>5, <1>6

\* finish_job, cleanup_vm and render_outcome.
LEMMA JbFinishInv ==
  ASSUME JbCore, NEW o, NEW ok \in BOOLEAN, JbDecide \/ JbCleanup(o) \/ JbRender(ok)
  PROVE  JbCore'
<1>1. UNCHANGED <<jbOpt, jbMade, jbRuns, jbMissed, jbLines, jbPacked, jbExit, jbHost, jbFault>>
  BY DEF JbDecide, JbCleanup, JbRender, jbGuest, jbResult
<1>2. jbStage' \in JbEnding
  BY DEF JbDecide, JbCleanup, JbRender, JbGo, JbAfterCleanup, JbEnding
<1>3. JbOnce'
  BY <1>1, <1>2 DEF JbCore, JbOnce, JbEnding, JbWaiting, JbFetching
<1>4. JbFetched'
  BY <1>1, <1>2 DEF JbCore, JbFetched, JbEnding, JbWaiting, JbFetching
<1>5. (JbBrought' <=> JbBrought) /\ (JbRetrievalFails' <=> JbRetrievalFails)
  BY <1>1 DEF JbBrought, JbRetrievalFails, JbAsked
<1>6. ASSUME /\ jbEnd' = "success" => jbEnd = "success" /\ jbStage' # "abandon",
             jbStage' \in JbEnding
      PROVE  JbDecided'
  BY <1>1, <1>5, <1>6 DEF JbDecided, JbCore
<1>7. CASE JbDecide
  <2>1. jbStage = "decide" /\ jbStage' \in {"render", "cleanup"}
    BY <1>7 DEF JbDecide, JbGo
  <2>2. jbVm' = jbVm /\ (jbStage' = "render" => jbOpt.keep)
    BY <1>7 DEF JbDecide, JbGo
  <2>3. JbDecided'
    <3>1. jbRuns = 1 /\ (jbFault \/ JbBrought)
      BY <2>1 DEF JbCore, JbOnce, JbFetched
    <3>2. jbEnd' = "success" => jbExit = 0 /\ ~JbRetrievalFails
      BY <1>7 DEF JbDecide
    <3>3. ~JbRetrievalFails => ~jbFault
      BY DEF JbRetrievalFails
    <3> QED BY <1>1, <1>2, <1>5, <2>1, <3>1, <3>2, <3>3 DEF JbDecided
  <2>4. JbLeft'
    BY <1>1, <2>1, <2>2 DEF JbLeft
  <2> QED BY <1>3, <1>4, <2>3, <2>4 DEF JbCore
<1>8. CASE JbCleanup(o)
  <2>1. jbStage \in {"cleanup", "abandon"}
    BY <1>8 DEF JbCleanup
  <2>2. jbEnd' = "success" => jbEnd = "success"
    BY <1>8 DEF JbCleanup, JbCleanupFailed
  <2>3. jbEnd = "success" => jbStage = "cleanup"
    BY <2>1 DEF JbCore, JbDecided
  <2>4. jbStage' \in {jbStage, JbAfterCleanup}
    BY <1>8 DEF JbCleanup, JbGo
  <2>5. JbDecided'
    BY <1>2, <1>6, <2>2, <2>3, <2>4 DEF JbAfterCleanup
  <2>6. CASE jbStage' = jbStage
    BY <1>1, <2>1, <2>5, <2>6, <1>3, <1>4 DEF JbCore, JbLeft
  <2>7. CASE jbStage' # jbStage
    <3>1. jbVm' = "ours" => ~JbCleaned(o)
      BY <1>8 DEF JbCleanup, JbCleaned, JbEffect
    <3>2. ~JbCleaned(o) => JbCleanupFailed
      BY <1>8, <2>7 DEF JbCleanup
    <3>3. JbCleanupFailed => jbEnd' # "success" /\ (jbTold' \/ jbEnd' = "unclean")
      BY DEF JbCleanupFailed
    <3>4. JbCleanupFailed /\ jbStage = "abandon" => jbTold'
      BY <2>3 DEF JbCleanupFailed
    <3>5. JbLeft'
      BY <2>1, <2>4, <2>7, <3>1, <3>2, <3>3, <3>4 DEF JbLeft, JbAfterCleanup
    <3> QED BY <1>3, <1>4, <2>5, <3>5 DEF JbCore
  <2> QED BY <2>6, <2>7
<1>9. CASE JbRender(ok)
  <2>1. jbStage = "render" /\ jbStage' = "done" /\ jbVm' = jbVm
    BY <1>9 DEF JbRender, JbGo
  <2>2. jbEnd' = "success" => jbEnd = "success"
    BY <1>9 DEF JbRender
  <2>3. JbDecided'
    BY <1>2, <1>6, <2>1, <2>2
  <2>4. /\ jbTold \/ jbOpt.keep \/ jbEnd = "unclean" => jbTold' \/ ~ok
        /\ ~ok => jbEnd' = "undelivered"
    <3>1. CASE ok  BY <1>9, <3>1, Zenon DEF JbRender
    <3>2. CASE ~ok  BY <1>9, <3>2, Zenon DEF JbRender
    <3> QED BY <3>1, <3>2
  <2>5. jbVm = "ours" => jbOpt.keep \/ jbEnd = "unclean" \/ (jbTold /\ jbEnd # "success")
    BY <2>1 DEF JbCore, JbLeft
  <2>6. JbLeft'
    BY <1>1, <2>1, <2>2, <2>4, <2>5 DEF JbLeft
  <2> QED BY <1>3, <1>4, <2>3, <2>6 DEF JbCore
<1> QED BY <1>7, <1>8, <1>9

\* The list changes only when the command runs, and then names what was asked.
LEMMA JbListedStep == ASSUME JbListed, [JbNext]_jbVars PROVE JbListed'
<1>1. ASSUME NEW o \in JbAnswers, NEW exit \in {0, 1}, JbStream(o, exit) \/ JbExec(o, exit)
      PROVE  jbOpt' = jbOpt /\ jbMissed' \in SUBSET JbAsked(jbOpt)
  <2>1. JbWrapped => jbMissed' \in SUBSET JbAsked(jbOpt)
    BY DEF JbListed, JbWrapped
  <2>2. jbMissed' = jbMissed \/ JbWrapped
    BY <1>1 DEF JbStream, JbExec, JbRan, JbNotRun, jbGuest
  <2> QED BY <1>1, <2>1, <2>2 DEF JbListed, JbStream, JbExec
<1>2. ASSUME NEW o \in JbAnswers,
             \/ JbCreate(o) \/ JbLookUp(o) \/ JbReady(o) \/ JbHosts(o) \/ JbInfo(o)
             \/ JbUpload(o) \/ JbManifest(o) \/ JbOutputs(o) \/ JbCleanup(o)
      PROVE  jbOpt' = jbOpt /\ jbMissed' = jbMissed
  BY <1>2 DEF JbCreate, JbLookUp, JbReady, JbHosts, JbInfo, JbUpload, JbManifest, JbOutputs,
     JbCleanup, JbNeeds, jbGuest
<1>3. ASSUME NEW ok \in BOOLEAN,
             JbInterruptCreate(ok) \/ JbArchive(ok) \/ JbExtract(ok) \/ JbRender(ok)
      PROVE  jbOpt' = jbOpt /\ jbMissed' = jbMissed
  BY <1>3 DEF JbInterruptCreate, JbArchive, JbExtract, JbRender, jbGuest
<1>4. ASSUME \/ JbValidate \/ JbHealth \/ JbReadyTimeout \/ JbDecide \/ JbLimited \/ JbInterrupt
             \/ JbRival
      PROVE  jbOpt' = jbOpt /\ jbMissed' = jbMissed
  BY <1>4 DEF JbValidate, JbHealth, JbReadyTimeout, JbDecide, JbLimited, JbInterrupt, JbRival, jbGuest
<1>5. CASE UNCHANGED jbVars
  BY <1>5 DEF jbVars, JbListed
<1>6. jbOpt' = jbOpt /\ jbMissed' \in SUBSET JbAsked(jbOpt)
  BY <1>1, <1>2, <1>3, <1>4, <1>5 DEF JbNext, JbListed, jbVars
<1> QED BY <1>6 DEF JbListed, JbAsked

\* Every step of a job keeps the invariant.
LEMMA JbStepInv == ASSUME JbInv, [JbNext]_jbVars PROVE JbInv'
<1>0. JbCore /\ JbListed /\ JbListed'
  BY JbListedStep DEF JbInv
<1>1. ASSUME NEW o \in JbAnswers, NEW exit \in {0, 1}, JbStream(o, exit) \/ JbExec(o, exit)
      PROVE  JbCore'
  BY <1>0, <1>1, JbCommandInv
<1>2. ASSUME NEW o \in JbAnswers,
             \/ JbCreate(o) \/ JbLookUp(o) \/ JbReady(o) \/ JbHosts(o) \/ JbInfo(o)
             \/ JbUpload(o) \/ JbManifest(o) \/ JbOutputs(o) \/ JbCleanup(o)
      PROVE  JbCore'
  <2>1. TRUE \in BOOLEAN  OBVIOUS
  <2> QED BY <1>0, <1>2, <2>1, JbOutsideInv, JbPrepareInv, JbRetrieveInv, JbFinishInv
<1>3. ASSUME NEW ok \in BOOLEAN,
             JbInterruptCreate(ok) \/ JbArchive(ok) \/ JbExtract(ok) \/ JbRender(ok)
      PROVE  JbCore'
  BY <1>0, <1>3, JbOutsideInv, JbPrepareInv, JbRetrieveInv, JbFinishInv
<1>4. ASSUME \/ JbValidate \/ JbHealth \/ JbReadyTimeout \/ JbDecide \/ JbLimited \/ JbInterrupt
             \/ JbRival
      PROVE  JbCore'
  <2>1. TRUE \in BOOLEAN  OBVIOUS
  <2> QED BY <1>0, <1>4, <2>1, JbOutsideInv, JbPrepareInv, JbFinishInv
<1>5. ASSUME UNCHANGED jbVars PROVE JbCore'
  BY <1>0, <1>5 DEF jbVars, JbCore, JbOnce, JbFetched, JbDecided, JbLeft, JbBrought, JbRetrievalFails,
     JbAsked
<1>6. JbCore'
  BY <1>1, <1>2, <1>3, <1>4, <1>5 DEF JbNext
<1> QED BY <1>0, <1>6 DEF JbInv

-----------------------------------------------------------------------------
(***************************************************************************)
(* Frozen bundles (FrozenBundles): what two walks can say of a tree that a *)
(* writer changes under them.                                              *)
(***************************************************************************)
\* Pieces and stamps are numbers of edits that were made, of n so far.
FrzFiles(n) ==
  [kind : {"file", "link", "gone"}, data : Seq(0..n), stamp : 0..n, back : BOOLEAN]

FrzWritten ==
  /\ frzEdits \in Nat /\ frzTree \in [FrzPaths -> FrzFiles(frzEdits)]
  /\ \A p \in FrzPaths : frzTree[p].kind = "gone" \/ Len(frzTree[p].data) >= 1

\* e is what became of d: no piece is older, and a rewrite changes the first.
FrzLater(d, e) ==
  /\ \A i \in 1..Len(d) : i <= Len(e) => d[i] <= e[i]
  /\ Len(d) >= 1 /\ Len(e) >= 1 /\ d[1] = e[1] => Len(d) = Len(e)

\* One step of the writer, the n-th so far plus one, as a file sees it.
FrzGrown(a, b, n) ==
  /\ a.stamp <= b.stamp
  /\ b.stamp = a.stamp => Len(b.data) = Len(a.data)
  /\ \A i \in 1..Len(a.data) : i <= Len(b.data) => a.data[i] <= b.data[i]
  /\ Len(b.data) = Len(a.data) \/ \A i \in 1..Len(b.data) : b.data[i] = n + 1

\* The files a walk has captured, and the walk.
FrzCaught(n) == {f \in (FrzPaths \ FrzExcluded) \X Seq(0..n) : Len(f[2]) >= 1}
FrzWalks(n) ==
  [at : {"next", "read"}, first : BOOLEAN, files : SUBSET FrzCaught(n),
   seen : SUBSET FrzCaught(n), left : SUBSET FrzPaths, spent : Nat,
   path : FrzPaths \cup {"none"}, before : [len : Nat, stamp : Nat], got : Seq(0..n)]

\* Each captured file, and the one that is read, has used up some of the budget.
FrzCounted(w) ==
  /\ w.spent <= FrzBudget /\ IsFiniteSet(w.files)
  /\ Cardinality(w.files) <= w.spent
  /\ w.at = "read" => Cardinality(w.files) + 1 <= w.spent

\* The file that is read has kept its length as long as its stamp.
FrzReading(w, t) ==
  w.at = "read" =>
    /\ w.path \in FrzPaths \ FrzExcluded /\ w.before.len >= 1
    /\ w.before.stamp <= t[w.path].stamp
    /\ t[w.path].stamp = w.before.stamp => Len(t[w.path].data) = w.before.len

\* What the first walk caught is what the tree was; the tree went on from it.
FrzFirst(w, t) ==
  /\ \A f \in w.files : FrzLater(f[2], t[f[1]].data)
  /\ w.at = "read" => \A i \in 1..Len(w.got) :
                        i <= Len(t[w.path].data) => w.got[i] <= t[w.path].data[i]

\* What the second walk catches went on from the tree between the walks (m),
\* and it meets every name of that tree.
FrzBetween(w, t, m) ==
  /\ FrzLater(m[2], t[m[1]].data)
  /\ \A f \in w.seen : f[1] = m[1] => FrzLater(f[2], m[2])
  /\ \A f \in w.files : f[1] = m[1] => FrzLater(m[2], f[2])
  /\ \/ m[1] \in w.left
     \/ \E f \in w.files : f[1] = m[1]
     \/ w.at = "read" /\ w.path = m[1]
FrzAgainRead(w, t, m) ==
  w.at = "read" /\ w.path = m[1] =>
    /\ \A i \in 1..Len(m[2]) : i <= Len(w.got) => m[2][i] <= w.got[i]
    /\ Len(w.got) >= 1 /\ m[2][1] = w.got[1] /\ t[m[1]].stamp = w.before.stamp
         => Len(m[2]) = w.before.len
FrzFrom(w, middle) ==
  /\ \A p \in w.left \ FrzExcluded : \E m \in middle : m[1] = p
  /\ \A f \in w.files : \E m \in middle : m[1] = f[1]
  /\ w.at = "read" => \E m \in middle : m[1] = w.path
FrzSecond(w, t, middle, n) ==
  /\ middle \subseteq FrzCaught(n)
  /\ \A m \in middle : FrzBetween(w, t, m) /\ FrzAgainRead(w, t, m)
  /\ FrzFrom(w, middle)

FrzWalkOK(w, t, middle, n) ==
  w.at \in {"next", "read"} =>
    /\ w \in FrzWalks(n) /\ FrzCounted(w) /\ FrzReading(w, t)
    /\ w.first => FrzFirst(w, t)
    /\ ~w.first => FrzSecond(w, t, middle, n)

\* What becomes of a bundle.
FrzClean(b) == \A f \in b : f[1] \notin FrzExcluded
FrzOut ==
  /\ frzBundle # FrzNoBundle => frzBundle = frzMiddle /\ Cardinality(frzBundle) <= FrzBudget
  /\ frzWalk.at \in {"next", "read"} => frzBundle = FrzNoBundle
  /\ frzWalk.at = "write" => FrzClean(frzBundle)
  /\ frzWalk.at = "sync" => ~frzFile.whole /\ FrzClean(frzFile.bundle)
  /\ frzFile = [bundle |-> frzFile.bundle, whole |-> frzFile.whole]
  /\ frzFile = FrzNoFile \/ FrzClean(frzFile.bundle)
  /\ \A b \in frzTaken : FrzClean(b) /\ frzFile.whole /\ frzFile.bundle = b

FrzInv == FrzWritten /\ FrzWalkOK(frzWalk, frzTree, frzMiddle, frzEdits) /\ FrzOut

-----------------------------------------------------------------------------
\* What was numbered so far is numbered later.
LEMMA FrzNumbers ==
  ASSUME NEW n \in Nat, NEW d \in Seq(0..n)
  PROVE  d \in Seq(0..(n + 1))
<1>1. Len(d) \in Nat /\ \A i \in 1..Len(d) : d[i] \in 0..(n + 1)
  BY ElementOfSeq, LenProperties
<1> QED BY <1>1, IsASeq, LenProperties

\* Two observations that each go on from the other are the same.
LEMMA FrzSame ==
  ASSUME NEW n \in Nat, NEW d \in Seq(0..n), NEW e \in Seq(0..n), Len(d) >= 1, Len(e) >= 1,
         FrzLater(d, e), FrzLater(e, d)
  PROVE  d = e
<1>1. Len(d) \in Nat /\ Len(e) \in Nat
  BY LenProperties
<1>2. \A i \in 1..Len(d) : d[i] \in 0..n
  BY ElementOfSeq
<1>3. \A i \in 1..Len(e) : e[i] \in 0..n
  BY ElementOfSeq
<1>4. d[1] = e[1]
  BY <1>1, <1>2, <1>3 DEF FrzLater
<1>5. Len(d) = Len(e)
  BY <1>4 DEF FrzLater
<1>6. \A i \in 1..Len(d) : d[i] = e[i]
  BY <1>1, <1>2, <1>3, <1>5 DEF FrzLater
<1> QED BY <1>5, <1>6, SeqEqual

\* What went on to a file goes on to what the writer makes of it.
LEMMA FrzGoesOn ==
  ASSUME NEW n \in Nat, NEW x \in Seq(0..n), NEW a \in FrzFiles(n), NEW b \in FrzFiles(n + 1),
         FrzGrown(a, b, n), FrzLater(x, a.data)
  PROVE  FrzLater(x, b.data)
<1>0. PICK d, e : d = a.data /\ e = b.data /\ d \in Seq(0..n) /\ e \in Seq(0..(n + 1))
  BY DEF FrzFiles
<1>1. Len(x) \in Nat /\ Len(d) \in Nat /\ Len(e) \in Nat
  BY <1>0, LenProperties
<1>2. \A i \in 1..Len(x) : x[i] \in 0..n
  BY ElementOfSeq
<1>3. \A i \in 1..Len(d) : d[i] \in 0..n
  BY <1>0, ElementOfSeq
<1>4. \A i \in 1..Len(e) : e[i] \in 0..(n + 1)
  BY <1>0, ElementOfSeq
<1>5. /\ \A i \in 1..Len(d) : i <= Len(e) => d[i] <= e[i]
      /\ Len(e) = Len(d) \/ \A i \in 1..Len(e) : e[i] = n + 1
  BY <1>0 DEF FrzGrown
<1>6. /\ \A i \in 1..Len(x) : i <= Len(d) => x[i] <= d[i]
      /\ Len(x) >= 1 /\ Len(d) >= 1 /\ x[1] = d[1] => Len(x) = Len(d)
  BY <1>0 DEF FrzLater
<1>7. CASE \A i \in 1..Len(e) : e[i] = n + 1
  <2>1. \A i \in 1..Len(x) : i <= Len(e) => x[i] <= e[i]
    BY <1>1, <1>2, <1>7
  <2>2. ~(Len(x) >= 1 /\ Len(e) >= 1 /\ x[1] = e[1])
    BY <1>1, <1>2, <1>7
  <2> QED BY <1>0, <2>1, <2>2 DEF FrzLater
<1>8. CASE Len(e) = Len(d)
  <2>1. \A i \in 1..Len(x) : i <= Len(e) => x[i] <= e[i]
    BY <1>1, <1>2, <1>3, <1>4, <1>5, <1>6, <1>8
  <2>2. Len(x) >= 1 /\ Len(e) >= 1 /\ x[1] = e[1] => x[1] = d[1]
    BY <1>1, <1>2, <1>3, <1>4, <1>5, <1>6, <1>8
  <2>3. Len(x) >= 1 /\ Len(e) >= 1 /\ x[1] = e[1] => Len(x) = Len(e)
    BY <1>6, <1>8, <2>2
  <2> QED BY <1>0, <2>1, <2>3 DEF FrzLater
<1> QED BY <1>5, <1>7, <1>8

\* A file of n edits is one of n + 1.
LEMMA FrzFileKept ==
  ASSUME NEW n \in Nat, NEW a \in FrzFiles(n)
  PROVE  a \in FrzFiles(n + 1)
<1>1. a.data \in Seq(0..(n + 1))
  BY FrzNumbers DEF FrzFiles
<1>2. a.stamp \in 0..(n + 1)
  BY DEF FrzFiles
<1> QED BY <1>1, <1>2 DEF FrzFiles

\* The writer's steps (FrzEdit, FrzReplace, FrzRemove), as every file sees them.
LEMMA FrzWrites ==
  ASSUME FrzWritten, FrzWriter
  PROVE  /\ FrzWritten' /\ frzEdits' = frzEdits + 1
         /\ \A p \in FrzPaths : FrzGrown(frzTree[p], frzTree'[p], frzEdits)
         /\ UNCHANGED <<frzWalk, frzMiddle, frzBundle, frzFile, frzTaken>>
<1>0. PICK n \in Nat : n = frzEdits
  BY DEF FrzWritten
<1>1. PICK p \in FrzPaths : (\E i \in 1..2 : FrzEdit(p, i)) \/ FrzReplace(p) \/ FrzRemove(p)
  BY DEF FrzWriter
<1>2. frzEdits' = n + 1 /\ UNCHANGED <<frzWalk, frzMiddle, frzBundle, frzFile, frzTaken>>
  BY <1>0, <1>1 DEF FrzEdit, FrzReplace, FrzRemove, FrzEditing, FrzFrame
<1>3. PICK a \in FrzFiles(n) : a = frzTree[p]
  BY <1>0 DEF FrzWritten
<1>4. a.data \in Seq(0..n) /\ a.stamp \in 0..n /\ a.kind \in {"file", "link", "gone"}
      /\ a.back \in BOOLEAN
  BY DEF FrzFiles
<1>5. Len(a.data) \in Nat /\ \A i \in 1..Len(a.data) : a.data[i] \in 0..n
  BY <1>4, LenProperties, ElementOfSeq
<1>6. a.data \in Seq(0..(n + 1))
  BY <1>4, FrzNumbers
<1> DEFINE Becomes(b) == /\ frzTree' = [frzTree EXCEPT ![p] = b]
                         /\ b \in FrzFiles(n + 1)
                         /\ FrzGrown(a, b, n)
                         /\ b.kind = "gone" \/ Len(b.data) >= 1
<1>7. ASSUME NEW i \in 1..2, FrzEdit(p, i) PROVE \E b : Becomes(b)
  <2>1. PICK stamp \in {a.stamp, n + 1} :
          frzTree' = [frzTree EXCEPT ![p].data[i] = n + 1, ![p].stamp = stamp]
    BY <1>0, <1>3, <1>7 DEF FrzEdit
  <2>2. a.kind = "file" /\ i \in 1..Len(a.data)
    BY <1>3, <1>7 DEF FrzEdit
  <2>3. PICK d : d = [a.data EXCEPT ![i] = n + 1]
    OBVIOUS
  <2>4. /\ d \in Seq(0..(n + 1)) /\ Len(d) = Len(a.data)
        /\ \A j \in 1..Len(a.data) : d[j] = IF j = i THEN n + 1 ELSE a.data[j]
    <3>1. n + 1 \in 0..(n + 1)  OBVIOUS
    <3> QED BY <1>6, <2>2, <2>3, <3>1, ExceptSeq
  <2>5. PICK b : b = [a EXCEPT !.data = d, !.stamp = stamp]
    OBVIOUS
  <2>7. frzTree' = [frzTree EXCEPT ![p] = [a EXCEPT !.data = d, !.stamp = stamp]]
    BY <1>3, <2>1, <2>3 DEF FrzWritten, FrzFiles
  <2>8. stamp \in 0..(n + 1)
    BY <1>4
  <2>9. b \in FrzFiles(n + 1) /\ b.data = d /\ b.stamp = stamp
    BY <1>4, <2>4, <2>5, <2>8 DEF FrzFiles
  <2>10. \A j \in 1..Len(a.data) : a.data[j] <= d[j]
    BY <1>5, <2>4
  <2>11. FrzGrown(a, b, n)
    <3>1. b.data = d /\ b.stamp = stamp  BY <2>9
    <3>2. a.stamp <= stamp  BY <1>4
    <3> QED BY <2>4, <2>10, <3>1, <3>2 DEF FrzGrown
  <2>12. Len(b.data) >= 1
    BY <1>5, <2>2, <2>4, <2>9
  <2> QED BY <2>5, <2>7, <2>9, <2>11, <2>12
<1>8. ASSUME FrzReplace(p) PROVE \E b : Becomes(b)
  <2>1. PICK kind \in {"file", "link"}, len \in 1..2 :
          frzTree' = [frzTree EXCEPT ![p] =
                        [kind |-> kind, data |-> [i \in 1..len |-> n + 1], stamp |-> n + 1,
                         back |-> TRUE]]
    BY <1>0, <1>8, ZenonT(40) DEF FrzReplace
  <2>2. PICK d : d = [i \in 1..len |-> n + 1]
    OBVIOUS
  <2>3. d \in Seq(0..(n + 1)) /\ Len(d) = len /\ \A i \in 1..Len(d) : d[i] = n + 1
    <3>1. d \in [1..len -> 0..(n + 1)] /\ len \in Nat  BY <2>2
    <3>2. d \in Seq(0..(n + 1))  BY <3>1, SeqDef
    <3>3. DOMAIN d = 1..len /\ DOMAIN d = 1..Len(d) /\ Len(d) \in Nat
      BY <2>2, <3>2, LenProperties
    <3> QED BY <2>2, <3>2, <3>3
  <2>4. PICK b : b = [kind |-> kind, data |-> d, stamp |-> n + 1, back |-> TRUE]
    OBVIOUS
  <2>5. b \in FrzFiles(n + 1)
    BY <2>3, <2>4 DEF FrzFiles
  <2>6. b.data = d /\ b.stamp = n + 1
    BY <2>4
  <2>7. FrzGrown(a, b, n)
    BY <1>4, <1>5, <2>3, <2>6 DEF FrzGrown
  <2>8. Len(b.data) >= 1
    BY <2>3, <2>6
  <2> QED BY <2>1, <2>2, <2>4, <2>5, <2>7, <2>8
<1>9. ASSUME FrzRemove(p) PROVE \E b : Becomes(b)
  <2>1. frzTree' = [frzTree EXCEPT ![p].kind = "gone", ![p].stamp = n + 1]
    BY <1>0, <1>9 DEF FrzRemove
  <2>2. PICK b : b = [a EXCEPT !.kind = "gone", !.stamp = n + 1]
    OBVIOUS
  <2>4. frzTree' = [frzTree EXCEPT ![p] = [a EXCEPT !.kind = "gone", !.stamp = n + 1]]
    BY <1>3, <2>1 DEF FrzWritten, FrzFiles
  <2>5. b \in FrzFiles(n + 1)
    <3>1. n + 1 \in 0..(n + 1)  OBVIOUS
    <3> QED BY <1>4, <1>6, <2>2, <3>1 DEF FrzFiles
  <2>6. b.data = a.data /\ b.stamp = n + 1 /\ b.kind = "gone"
    BY <2>2 DEF FrzFiles
  <2>7. FrzGrown(a, b, n)
    BY <1>4, <1>5, <2>6 DEF FrzGrown
  <2> QED BY <2>2, <2>4, <2>5, <2>6, <2>7
<1>10. PICK b : Becomes(b)
  BY <1>1, <1>7, <1>8, <1>9
<1>11. frzTree \in [FrzPaths -> FrzFiles(n)]
  BY <1>0 DEF FrzWritten
<1>12. \A q \in FrzPaths : frzTree[q] \in FrzFiles(n + 1)
  BY <1>11, FrzFileKept
<1>13. frzTree' \in [FrzPaths -> FrzFiles(n + 1)]
  BY <1>10, <1>11, <1>12
<1>14. \A q \in FrzPaths : frzTree'[q] = IF q = p THEN b ELSE frzTree[q]
  BY <1>10, <1>11
<1>15. FrzWritten'
  BY <1>2, <1>10, <1>13, <1>14 DEF FrzWritten
<1>16. \A q \in FrzPaths : FrzGrown(frzTree[q], frzTree[q], n)
  <2> SUFFICES ASSUME NEW q \in FrzPaths PROVE FrzGrown(frzTree[q], frzTree[q], n)
    OBVIOUS
  <2>1. PICK c : c = frzTree[q]  OBVIOUS
  <2>2. c \in FrzFiles(n)  BY <1>11, <2>1
  <2>3. c.data \in Seq(0..n) /\ c.stamp \in 0..n  BY <2>2 DEF FrzFiles
  <2>4. \A i \in 1..Len(c.data) : c.data[i] \in 0..n  BY <2>3, ElementOfSeq
  <2> QED BY <2>1, <2>3, <2>4 DEF FrzGrown
<1>17. \A q \in FrzPaths : FrzGrown(frzTree[q], frzTree'[q], frzEdits)
  BY <1>0, <1>3, <1>10, <1>14, <1>16
<1> QED BY <1>0, <1>2, <1>15, <1>17

\* What a walk has captured is captured whatever the writer does.
LEMMA FrzCaughtKept ==
  ASSUME NEW n \in Nat, NEW f \in FrzCaught(n)
  PROVE  f \in FrzCaught(n + 1) /\ f[1] \in FrzPaths \ FrzExcluded /\ f[2] \in Seq(0..n)
<1>1. f \in (FrzPaths \ FrzExcluded) \X Seq(0..n) /\ Len(f[2]) >= 1
  BY DEF FrzCaught
<1>2. f[2] \in Seq(0..(n + 1))
  BY <1>1, FrzNumbers
<1> QED BY <1>1, <1>2 DEF FrzCaught

\* A walk that stands still while the writer moves keeps its invariant.
LEMMA FrzWalkStands ==
  ASSUME NEW n \in Nat, NEW w, NEW t \in [FrzPaths -> FrzFiles(n)],
         NEW u \in [FrzPaths -> FrzFiles(n + 1)], NEW middle,
         \A p \in FrzPaths : FrzGrown(t[p], u[p], n),
         FrzWalkOK(w, t, middle, n)
  PROVE  FrzWalkOK(w, u, middle, n + 1)
<1> SUFFICES ASSUME w.at \in {"next", "read"}
             PROVE  /\ w \in FrzWalks(n + 1) /\ FrzCounted(w) /\ FrzReading(w, u)
                    /\ w.first => FrzFirst(w, u)
                    /\ ~w.first => FrzSecond(w, u, middle, n + 1)
  BY DEF FrzWalkOK
<1>1. /\ w \in FrzWalks(n) /\ FrzCounted(w) /\ FrzReading(w, t)
      /\ w.first => FrzFirst(w, t)
      /\ ~w.first => FrzSecond(w, t, middle, n)
  BY DEF FrzWalkOK
<1>2. /\ w.files \subseteq FrzCaught(n) /\ w.seen \subseteq FrzCaught(n)
      /\ w.got \in Seq(0..n) /\ w.before.stamp \in Nat /\ w.before.len \in Nat
  BY <1>1 DEF FrzWalks
<1>3. FrzCaught(n) \subseteq FrzCaught(n + 1)
  BY FrzCaughtKept
<1>4. w.got \in Seq(0..(n + 1))
  BY <1>2, FrzNumbers
<1>5. w \in FrzWalks(n + 1)
  BY <1>1, <1>2, <1>3, <1>4 DEF FrzWalks
<1>6. \A p \in FrzPaths : t[p] \in FrzFiles(n) /\ u[p] \in FrzFiles(n + 1)
  OBVIOUS
<1>7. \A p \in FrzPaths : /\ t[p].stamp \in Nat /\ u[p].stamp \in Nat /\ t[p].stamp <= u[p].stamp
                          /\ u[p].stamp = t[p].stamp => Len(u[p].data) = Len(t[p].data)
  BY <1>6 DEF FrzGrown, FrzFiles
<1>8. FrzReading(w, u)
  <2> SUFFICES ASSUME w.at = "read"
               PROVE  /\ w.path \in FrzPaths \ FrzExcluded /\ w.before.len >= 1
                      /\ w.before.stamp <= u[w.path].stamp
                      /\ u[w.path].stamp = w.before.stamp => Len(u[w.path].data) = w.before.len
    BY DEF FrzReading
  <2>1. /\ w.path \in FrzPaths \ FrzExcluded /\ w.before.len >= 1
        /\ w.before.stamp <= t[w.path].stamp
        /\ t[w.path].stamp = w.before.stamp => Len(t[w.path].data) = w.before.len
    BY <1>1 DEF FrzReading
  <2> QED BY <1>2, <1>7, <2>1
<1>9. ASSUME w.first PROVE FrzFirst(w, u)
  <2>1. ASSUME NEW f \in w.files PROVE FrzLater(f[2], u[f[1]].data)
    <3>1. f[1] \in FrzPaths /\ f[2] \in Seq(0..n)
      BY <1>2, FrzCaughtKept
    <3>2. FrzLater(f[2], t[f[1]].data)
      BY <1>1, <1>9 DEF FrzFirst
    <3> QED BY <1>6, <3>1, <3>2, FrzGoesOn
  <2>2. ASSUME w.at = "read", NEW i \in 1..Len(w.got), i <= Len(u[w.path].data)
        PROVE  w.got[i] <= u[w.path].data[i]
    <3>1. w.path \in FrzPaths  BY <1>1, <2>2 DEF FrzReading
    <3>2. PICK d, e : d = t[w.path].data /\ e = u[w.path].data
      OBVIOUS
    <3>3. d \in Seq(0..n) /\ e \in Seq(0..(n + 1))
      BY <1>6, <3>1, <3>2 DEF FrzFiles
    <3>4. FrzGrown(t[w.path], u[w.path], n)
      BY <3>1
    <3>5. Len(d) \in Nat /\ Len(e) \in Nat /\ Len(w.got) \in Nat
      BY <1>2, <3>3, LenProperties
    <3>6. w.got[i] \in 0..n
      BY <1>2, <2>2, ElementOfSeq
    <3>7. CASE i <= Len(d)
      <4>1. w.got[i] <= d[i]
        BY <1>1, <1>9, <2>2, <3>2, <3>7 DEF FrzFirst
      <4>2. d[i] <= e[i]
        BY <2>2, <3>2, <3>4, <3>5, <3>7 DEF FrzGrown
      <4>3. d[i] \in 0..n /\ e[i] \in 0..(n + 1)
        <5>1. i \in 1..Len(d) /\ i \in 1..Len(e)  BY <2>2, <3>2, <3>5, <3>7
        <5> QED BY <3>3, <5>1, ElementOfSeq
      <4> QED BY <3>2, <3>6, <4>1, <4>2, <4>3
    <3>8. CASE ~(i <= Len(d))
      <4>1. e[i] = n + 1
        BY <2>2, <3>2, <3>4, <3>5, <3>8 DEF FrzGrown
      <4> QED BY <3>2, <3>6, <4>1
    <3> QED BY <3>7, <3>8
  <2> QED BY <2>1, <2>2 DEF FrzFirst
<1>10. ASSUME ~w.first PROVE FrzSecond(w, u, middle, n + 1)
  <2>1. middle \subseteq FrzCaught(n) /\ FrzFrom(w, middle)
    BY <1>1, <1>10 DEF FrzSecond
  <2>2. ASSUME NEW m \in middle PROVE FrzBetween(w, u, m) /\ FrzAgainRead(w, u, m)
    <3>1. m[1] \in FrzPaths /\ m[2] \in Seq(0..n)
      BY <2>1, FrzCaughtKept
    <3>2. FrzBetween(w, t, m) /\ FrzAgainRead(w, t, m)
      BY <1>1, <1>10 DEF FrzSecond
    <3>3. FrzLater(m[2], u[m[1]].data)
      BY <1>6, <3>1, <3>2, FrzGoesOn DEF FrzBetween
    <3>4. FrzBetween(w, u, m)
      BY <3>2, <3>3 DEF FrzBetween
    <3>5. ASSUME w.at = "read", w.path = m[1], u[m[1]].stamp = w.before.stamp
          PROVE  t[m[1]].stamp = w.before.stamp
      <4>1. w.before.stamp <= t[m[1]].stamp
        BY <1>1, <3>5 DEF FrzReading
      <4> QED BY <1>2, <1>7, <3>1, <3>5, <4>1
    <3>6. FrzAgainRead(w, u, m)
      BY <3>2, <3>5 DEF FrzAgainRead
    <3> QED BY <3>4, <3>6
  <2> QED BY <1>3, <2>1, <2>2 DEF FrzSecond
<1> QED BY <1>1, <1>5, <1>8, <1>9, <1>10

\* An excluded name is left out (walk: credentials).
LEMMA FrzSkips ==
  ASSUME NEW n \in Nat, NEW t, NEW middle, NEW w, FrzWalkOK(w, t, middle, n), w.at = "next",
         NEW p \in FrzExcluded, NEW v, v = [w EXCEPT !.left = @ \ {p}]
  PROVE  FrzWalkOK(v, t, middle, n)
<1>1. /\ w \in FrzWalks(n) /\ FrzCounted(w)
      /\ w.first => FrzFirst(w, t)
      /\ ~w.first => FrzSecond(w, t, middle, n)
  BY DEF FrzWalkOK
<1>2. /\ v \in FrzWalks(n) /\ v.at = "next" /\ v.first = w.first /\ v.files = w.files
      /\ v.seen = w.seen /\ v.left = w.left \ {p} /\ v.spent = w.spent
  BY <1>1 DEF FrzWalks
<1>3. FrzCounted(v) /\ FrzReading(v, t)
  BY <1>1, <1>2 DEF FrzCounted, FrzReading
<1>4. w.first => FrzFirst(v, t)
  BY <1>1, <1>2 DEF FrzFirst
<1>5. ASSUME ~w.first PROVE FrzSecond(v, t, middle, n)
  <2>1. /\ middle \subseteq FrzCaught(n) /\ FrzFrom(w, middle)
        /\ \A m \in middle : FrzBetween(w, t, m)
    BY <1>1, <1>5 DEF FrzSecond
  <2>2. ASSUME NEW m \in middle PROVE FrzBetween(v, t, m) /\ FrzAgainRead(v, t, m)
    <3>1. m[1] # p  BY <2>1, FrzCaughtKept
    <3>2. FrzBetween(w, t, m)  BY <2>1
    <3> QED BY <1>2, <3>1, <3>2 DEF FrzBetween, FrzAgainRead
  <2>3. FrzFrom(v, middle)
    BY <1>2, <2>1 DEF FrzFrom
  <2> QED BY <2>1, <2>2, <2>3 DEF FrzSecond
<1> QED BY <1>2, <1>3, <1>4, <1>5 DEF FrzWalkOK

\* A file is opened: its length and stamp are noted (FrzOpen).
LEMMA FrzOpens ==
  ASSUME NEW n \in Nat, NEW t \in [FrzPaths -> FrzFiles(n)], NEW middle, NEW w,
         FrzWalkOK(w, t, middle, n), w.at = "next", NEW p \in w.left \ FrzExcluded,
         Len(t[p].data) >= 1, NEW spent, spent = w.spent + Len(t[p].data), spent <= FrzBudget,
         NEW v, v = [w EXCEPT !.at = "read", !.left = @ \ {p}, !.spent = spent, !.path = p,
                       !.got = <<>>, !.before = [len |-> Len(t[p].data), stamp |-> t[p].stamp]]
  PROVE  FrzWalkOK(v, t, middle, n)
<1>1. /\ w \in FrzWalks(n) /\ FrzCounted(w)
      /\ w.first => FrzFirst(w, t)
      /\ ~w.first => FrzSecond(w, t, middle, n)
  BY DEF FrzWalkOK
<1>2. p \in FrzPaths /\ w.spent \in Nat /\ w.files \subseteq FrzCaught(n)
  BY <1>1 DEF FrzWalks
<1>3. t[p].data \in Seq(0..n) /\ t[p].stamp \in Nat
  BY <1>2 DEF FrzFiles
<1>4. Len(t[p].data) \in Nat
  BY <1>3, LenProperties
<1>5. PICK before : before = [len |-> Len(t[p].data), stamp |-> t[p].stamp]
  OBVIOUS
<1>6. before \in [len : Nat, stamp : Nat] /\ before.len = Len(t[p].data)
      /\ before.stamp = t[p].stamp
  BY <1>3, <1>4, <1>5
<1>7. spent \in Nat /\ <<>> \in Seq(0..n)
  BY <1>2, <1>4, EmptySeq
<1>8. PICK g, l : /\ g = <<>> /\ g \in Seq(0..n) /\ l = w.left \ {p} /\ l \in SUBSET FrzPaths
                  /\ v = [w EXCEPT !.at = "read", !.left = l, !.spent = spent, !.path = p,
                                   !.got = g, !.before = before]
  <2>1. w.left \ {p} \in SUBSET FrzPaths
    BY <1>1 DEF FrzWalks
  <2>2. v = [w EXCEPT !.at = "read", !.left = w.left \ {p}, !.spent = spent, !.path = p,
                      !.got = <<>>, !.before = before]
    BY <1>1, <1>5 DEF FrzWalks
  <2> QED BY <1>7, <2>1, <2>2
<1>9. /\ v \in FrzWalks(n) /\ v.at = "read" /\ v.first = w.first /\ v.files = w.files
      /\ v.seen = w.seen /\ v.left = w.left \ {p} /\ v.spent = spent /\ v.path = p
      /\ v.got = <<>> /\ v.before = before
  <2>1. v \in FrzWalks(n)
    BY <1>1, <1>2, <1>6, <1>7, <1>8 DEF FrzWalks
  <2>2. /\ v.at = "read" /\ v.first = w.first /\ v.files = w.files
        /\ v.seen = w.seen /\ v.left = l /\ v.spent = spent /\ v.path = p
        /\ v.got = g /\ v.before = before
    BY <1>1, <1>8 DEF FrzWalks
  <2> QED BY <1>8, <2>1, <2>2
<1>10. FrzCounted(v)
  <2>1. IsFiniteSet(w.files) /\ Cardinality(w.files) <= w.spent
    BY <1>1 DEF FrzCounted
  <2>2. Cardinality(w.files) \in Nat
    BY <2>1, FS_CardinalityType
  <2> QED BY <1>2, <1>4, <1>9, <2>1, <2>2 DEF FrzCounted
<1>11. FrzReading(v, t)
  BY <1>2, <1>3, <1>4, <1>6, <1>9 DEF FrzReading
<1>12. Len(v.got) = 0
  BY <1>9
<1>13. w.first => FrzFirst(v, t)
  BY <1>1, <1>9, <1>12 DEF FrzFirst
<1>14. ASSUME ~w.first PROVE FrzSecond(v, t, middle, n)
  <2>1. /\ middle \subseteq FrzCaught(n) /\ FrzFrom(w, middle)
        /\ \A m \in middle : FrzBetween(w, t, m)
    BY <1>1, <1>14 DEF FrzSecond
  <2>2. ASSUME NEW m \in middle PROVE FrzBetween(v, t, m) /\ FrzAgainRead(v, t, m)
    <3>1. FrzBetween(w, t, m)  BY <2>1
    <3>2. FrzBetween(v, t, m)
      BY <1>9, <3>1 DEF FrzBetween
    <3>3. m[2] \in Seq(0..n)
      BY <2>1, FrzCaughtKept
    <3>4. Len(m[2]) \in Nat
      BY <3>3, LenProperties
    <3> QED BY <1>12, <3>2, <3>4 DEF FrzAgainRead
  <2>3. FrzFrom(v, middle)
    BY <1>9, <2>1 DEF FrzFrom
  <2> QED BY <2>1, <2>2, <2>3 DEF FrzSecond
<1> QED BY <1>9, <1>10, <1>11, <1>13, <1>14 DEF FrzWalkOK

\* One more piece is read (FrzRead).
LEMMA FrzReadsOn ==
  ASSUME NEW n \in Nat, NEW t \in [FrzPaths -> FrzFiles(n)], NEW middle, NEW w,
         FrzWalkOK(w, t, middle, n), w.at = "read",
         NEW k, k = Len(w.got) + 1, k <= Len(t[w.path].data),
         NEW v, v = [w EXCEPT !.got = Append(@, t[w.path].data[k])]
  PROVE  FrzWalkOK(v, t, middle, n)
<1>1. /\ w \in FrzWalks(n) /\ FrzCounted(w) /\ FrzReading(w, t)
      /\ w.first => FrzFirst(w, t)
      /\ ~w.first => FrzSecond(w, t, middle, n)
  BY DEF FrzWalkOK
<1>2. w.path \in FrzPaths /\ w.got \in Seq(0..n)
  BY <1>1 DEF FrzWalks, FrzReading
<1>3. PICK d, x, g : d = t[w.path].data /\ x = d[k] /\ g = Append(w.got, x)
  OBVIOUS
<1>4. d \in Seq(0..n) /\ Len(w.got) \in Nat
  BY <1>2, <1>3, LenProperties DEF FrzFiles
<1>5. Len(d) \in Nat /\ k \in 1..Len(d)
  BY <1>3, <1>4, LenProperties
<1>6. x \in 0..n
  BY <1>3, <1>4, <1>5, ElementOfSeq
<1>7. /\ g \in Seq(0..n) /\ Len(g) = k /\ g[k] = x
      /\ \A i \in 1..Len(w.got) : g[i] = w.got[i]
  BY <1>2, <1>3, <1>6, AppendProperties
<1>8. /\ v \in FrzWalks(n) /\ v.at = "read" /\ v.first = w.first /\ v.files = w.files
      /\ v.seen = w.seen /\ v.left = w.left /\ v.spent = w.spent /\ v.path = w.path
      /\ v.got = g /\ v.before = w.before
  BY <1>1, <1>3, <1>7 DEF FrzWalks
<1>9. FrzCounted(v) /\ FrzReading(v, t)
  BY <1>1, <1>8 DEF FrzCounted, FrzReading
<1>10. ASSUME w.first PROVE FrzFirst(v, t)
  <2>1. FrzFirst(w, t)  BY <1>1, <1>10
  <2>2. ASSUME NEW i \in 1..Len(g), i <= Len(d) PROVE g[i] <= d[i]
    <3>1. CASE i = k
      <4>1. g[i] = d[i]  BY <1>3, <1>7, <3>1
      <4> QED BY <1>3, <1>6, <3>1, <4>1
    <3>2. CASE i # k
      <4>1. i \in 1..Len(w.got)  BY <1>4, <1>7, <2>2, <3>2
      <4>2. w.got[i] <= d[i]  BY <1>3, <2>1, <2>2, <4>1 DEF FrzFirst
      <4> QED BY <1>7, <4>1, <4>2
    <3> QED BY <3>1, <3>2
  <2> QED BY <1>3, <1>8, <2>1, <2>2 DEF FrzFirst
<1>11. ASSUME ~w.first PROVE FrzSecond(v, t, middle, n)
  <2>1. /\ middle \subseteq FrzCaught(n) /\ FrzFrom(w, middle)
        /\ \A m \in middle : FrzBetween(w, t, m) /\ FrzAgainRead(w, t, m)
    BY <1>1, <1>11 DEF FrzSecond
  <2>2. ASSUME NEW m \in middle PROVE FrzBetween(v, t, m) /\ FrzAgainRead(v, t, m)
    <3>1. FrzBetween(w, t, m) /\ FrzAgainRead(w, t, m)  BY <2>1
    <3>2. FrzBetween(v, t, m)
      BY <1>8, <3>1 DEF FrzBetween
    <3>3. FrzAgainRead(v, t, m)
      <4> SUFFICES ASSUME w.path = m[1]
                   PROVE  /\ \A i \in 1..Len(m[2]) : i <= Len(g) => m[2][i] <= g[i]
                          /\ Len(g) >= 1 /\ m[2][1] = g[1] /\ t[m[1]].stamp = w.before.stamp
                               => Len(m[2]) = w.before.len
        BY <1>8 DEF FrzAgainRead
      <4>1. FrzLater(m[2], d)
        BY <1>3, <3>1 DEF FrzBetween
      <4>2. /\ \A i \in 1..Len(m[2]) : i <= Len(w.got) => m[2][i] <= w.got[i]
            /\ Len(w.got) >= 1 /\ m[2][1] = w.got[1] /\ t[m[1]].stamp = w.before.stamp
                 => Len(m[2]) = w.before.len
        BY <3>1 DEF FrzAgainRead
      <4>3. m[2] \in Seq(0..n) /\ Len(m[2]) >= 1
        BY <2>1 DEF FrzCaught
      <4>4. Len(m[2]) \in Nat
        BY <4>3, LenProperties
      <4>5. ASSUME NEW i \in 1..Len(m[2]), i <= Len(g) PROVE m[2][i] <= g[i]
        <5>1. CASE i = k
          BY <1>3, <1>5, <1>7, <4>1, <4>5, <5>1 DEF FrzLater
        <5>2. CASE i # k
          <6>1. i \in 1..Len(w.got)  BY <1>4, <1>7, <4>4, <4>5, <5>2
          <6> QED BY <1>4, <1>7, <4>2, <4>5, <6>1
        <5> QED BY <5>1, <5>2
      <4>6. ASSUME m[2][1] = g[1], t[m[1]].stamp = w.before.stamp
            PROVE  Len(m[2]) = w.before.len
        <5>1. CASE k = 1
          <6>1. m[2][1] = d[1] /\ Len(d) >= 1
            BY <1>3, <1>5, <1>7, <4>6, <5>1
          <6>2. Len(m[2]) = Len(d)
            BY <4>1, <4>3, <6>1 DEF FrzLater
          <6> QED BY <1>1, <1>3, <4>6, <6>2 DEF FrzReading
        <5>2. CASE k # 1
          <6>1. 1 \in 1..Len(w.got) /\ Len(w.got) >= 1
            BY <1>4, <5>2
          <6> QED BY <1>7, <4>2, <4>6, <6>1
        <5> QED BY <5>1, <5>2
      <4> QED BY <4>5, <4>6
    <3> QED BY <3>2, <3>3
  <2>3. FrzFrom(v, middle)
    BY <1>8, <2>1 DEF FrzFrom
  <2> QED BY <2>1, <2>2, <2>3 DEF FrzSecond
<1> QED BY <1>8, <1>9, <1>10, <1>11 DEF FrzWalkOK

\* The file is captured (read_stable): its length and stamp are the noted ones.
LEMMA FrzCatches ==
  ASSUME NEW n \in Nat, NEW t \in [FrzPaths -> FrzFiles(n)], NEW middle, NEW w,
         FrzWalkOK(w, t, middle, n), w.at = "read",
         Len(w.got) = w.before.len, t[w.path].stamp = w.before.stamp,
         NEW v, v = [w EXCEPT !.at = "next", !.files = @ \union {<<w.path, w.got>>}]
  PROVE  FrzWalkOK(v, t, middle, n)
<1>1. /\ w \in FrzWalks(n) /\ FrzCounted(w) /\ FrzReading(w, t)
      /\ w.first => FrzFirst(w, t)
      /\ ~w.first => FrzSecond(w, t, middle, n)
  BY DEF FrzWalkOK
<1>2. /\ w.path \in FrzPaths \ FrzExcluded /\ w.got \in Seq(0..n) /\ w.before.len >= 1
      /\ w.spent \in Nat /\ w.files \subseteq FrzCaught(n)
      /\ Len(t[w.path].data) = w.before.len
  BY <1>1 DEF FrzWalks, FrzReading
<1>3. PICK f : f = <<w.path, w.got>>
  OBVIOUS
<1>4. f \in FrzCaught(n) /\ f[1] = w.path /\ f[2] = w.got
  BY <1>2, <1>3 DEF FrzCaught
<1>5. /\ v \in FrzWalks(n) /\ v.at = "next" /\ v.first = w.first /\ v.files = w.files \union {f}
      /\ v.seen = w.seen /\ v.left = w.left /\ v.spent = w.spent
  BY <1>1, <1>3, <1>4 DEF FrzWalks
<1>6. FrzCounted(v) /\ FrzReading(v, t)
  <2>1. /\ IsFiniteSet(w.files) /\ Cardinality(w.files) + 1 <= w.spent /\ w.spent <= FrzBudget
    BY <1>1 DEF FrzCounted
  <2>2. /\ IsFiniteSet(w.files \union {f}) /\ Cardinality(w.files) \in Nat
        /\ \/ Cardinality(w.files \union {f}) = Cardinality(w.files)
           \/ Cardinality(w.files \union {f}) = Cardinality(w.files) + 1
    <3>1. IsFiniteSet(w.files)  BY <2>1
    <3>2. Cardinality(w.files) \in Nat  BY <3>1, FS_CardinalityType
    <3> QED BY <3>1, <3>2, FS_AddElement
  <2>3. Cardinality(v.files) <= v.spent
    <3>1. PICK c, k, s : /\ c = Cardinality(w.files) /\ k = Cardinality(w.files \union {f})
                         /\ s = w.spent
      OBVIOUS
    <3>2. c \in Nat /\ s \in Nat /\ c + 1 <= s /\ (k = c \/ k = c + 1)
      BY <1>2, <2>1, <2>2, <3>1
    <3>3. k <= s
      BY <3>2
    <3> QED BY <1>5, <3>1, <3>3
  <2> QED BY <1>5, <2>1, <2>2, <2>3 DEF FrzCounted, FrzReading
<1>7. ASSUME w.first PROVE FrzFirst(v, t)
  <2>1. FrzFirst(w, t)  BY <1>1, <1>7
  <2>2. FrzLater(w.got, t[w.path].data)
    BY <1>2, <2>1 DEF FrzFirst, FrzLater
  <2>3. FrzLater(f[2], t[f[1]].data)
    BY <1>4, <2>2
  <2> QED BY <1>5, <2>1, <2>3 DEF FrzFirst
<1>8. ASSUME ~w.first PROVE FrzSecond(v, t, middle, n)
  <2>1. /\ middle \subseteq FrzCaught(n) /\ FrzFrom(w, middle)
        /\ \A m \in middle : FrzBetween(w, t, m) /\ FrzAgainRead(w, t, m)
    BY <1>1, <1>8 DEF FrzSecond
  <2>2. ASSUME NEW m \in middle PROVE FrzBetween(v, t, m) /\ FrzAgainRead(v, t, m)
    <3>1. FrzBetween(w, t, m) /\ FrzAgainRead(w, t, m)  BY <2>1
    <3>2. ASSUME f[1] = m[1] PROVE FrzLater(m[2], f[2])
      BY <1>4, <3>1, <3>2 DEF FrzAgainRead, FrzLater
    <3>3. FrzBetween(v, t, m)
      BY <1>4, <1>5, <3>1, <3>2 DEF FrzBetween
    <3> QED BY <1>5, <3>3 DEF FrzAgainRead
  <2>3. FrzFrom(v, middle)
    BY <1>4, <1>5, <2>1 DEF FrzFrom
  <2> QED BY <2>1, <2>2, <2>3 DEF FrzSecond
<1> QED BY <1>5, <1>6, <1>7, <1>8 DEF FrzWalkOK

\* A walk begins with the names that are there, with nothing captured and
\* nothing spent (FrzPass).
LEMMA FrzBegins ==
  ASSUME FrzWritten, NEW S \in SUBSET FrzCaught(frzEdits), NEW v,
         v = FrzPass(TRUE, S) \/ v = FrzPass(FALSE, S)
  PROVE  /\ v \in FrzWalks(frzEdits) /\ FrzCounted(v) /\ FrzReading(v, frzTree)
         /\ FrzFirst(v, frzTree)
         /\ v.at = "next" /\ v.files = {} /\ v.seen = S /\ v.left = FrzNamed
<1>1. FrzNamed \in SUBSET FrzPaths
  BY DEF FrzNamed
<1>2. frzEdits \in Nat  BY DEF FrzWritten
<1>3. /\ [len |-> 0, stamp |-> 0] \in [len : Nat, stamp : Nat]
      /\ <<>> \in Seq(0..frzEdits) /\ {} \in SUBSET FrzCaught(frzEdits)
  BY EmptySeq
<1>4. CASE v = FrzPass(TRUE, S)
  <2>1. v \in FrzWalks(frzEdits)
    BY <1>1, <1>3, <1>4 DEF FrzPass, FrzWalks
  <2>2. v.at = "next" /\ v.files = {} /\ v.seen = S /\ v.left = FrzNamed /\ v.spent = 0
    BY <1>4 DEF FrzPass
  <2>3. FrzCounted(v)
    BY <2>2, FrzAssumption, FS_EmptySet DEF FrzCounted
  <2> QED BY <2>1, <2>2, <2>3 DEF FrzReading, FrzFirst
<1>5. CASE v = FrzPass(FALSE, S)
  <2>1. v \in FrzWalks(frzEdits)
    BY <1>1, <1>3, <1>5 DEF FrzPass, FrzWalks
  <2>2. v.at = "next" /\ v.files = {} /\ v.seen = S /\ v.left = FrzNamed /\ v.spent = 0
    BY <1>5 DEF FrzPass
  <2>3. FrzCounted(v)
    BY <2>2, FrzAssumption, FS_EmptySet DEF FrzCounted
  <2> QED BY <2>1, <2>2, <2>3 DEF FrzReading, FrzFirst
<1> QED BY <1>4, <1>5

\* Which walk it is.
LEMMA FrzPassFirst ==
  ASSUME NEW S
  PROVE  FrzPass(TRUE, S).first /\ ~FrzPass(FALSE, S).first
BY DEF FrzPass

\* The second walk begins beside the tree as it then is (FrzFirstDone).
LEMMA FrzTurns ==
  ASSUME FrzWritten, FrzWalkOK(frzWalk, frzTree, frzMiddle, frzEdits),
         frzWalk.at = "next", frzWalk.first, NEW v, v = FrzPass(FALSE, frzWalk.files)
  PROVE  FrzWalkOK(v, frzTree, FrzCapture, frzEdits) /\ v.at = "next"
<1>1. PICK n \in Nat : n = frzEdits
  BY DEF FrzWritten
<1>2. frzWalk \in FrzWalks(n) /\ FrzFirst(frzWalk, frzTree)
  BY <1>1 DEF FrzWalkOK
<1>3. frzWalk.files \in SUBSET FrzCaught(n)
  BY <1>2 DEF FrzWalks
<1>4. /\ v \in FrzWalks(n) /\ FrzCounted(v) /\ FrzReading(v, frzTree)
      /\ v.at = "next" /\ ~v.first /\ v.files = {} /\ v.seen = frzWalk.files
      /\ v.left = FrzNamed
  <2>1. ~v.first  BY FrzPassFirst, Zenon
  <2> QED BY <1>1, <1>3, <2>1, FrzBegins, Zenon
<1>5. ASSUME NEW m \in FrzCapture
      PROVE  /\ m \in FrzCaught(n) /\ m[1] \in FrzNamed /\ m[2] = frzTree[m[1]].data
             /\ FrzLater(m[2], m[2])
  <2>1. PICK p \in FrzNamed : p \notin FrzExcluded /\ m = <<p, frzTree[p].data>>
    BY DEF FrzCapture
  <2>2. p \in FrzPaths /\ frzTree[p].kind # "gone"
    BY DEF FrzNamed
  <2>3. frzTree[p] \in FrzFiles(n) /\ Len(frzTree[p].data) >= 1
    BY <1>1, <2>2 DEF FrzWritten
  <2>4. PICK d \in Seq(0..n) : d = frzTree[p].data
    BY <2>3 DEF FrzFiles
  <2>5. FrzLater(d, d)
    <3>1. \A i \in 1..Len(d) : d[i] \in 0..n  BY ElementOfSeq
    <3>2. \A i \in 1..Len(d) : d[i] <= d[i]  BY <3>1
    <3> QED BY <3>2 DEF FrzLater
  <2>6. m = <<p, d>> /\ m[1] = p /\ m[2] = d
    BY <2>1, <2>4
  <2> QED BY <2>1, <2>2, <2>3, <2>4, <2>5, <2>6 DEF FrzCaught
<1>6. ASSUME NEW m \in FrzCapture
      PROVE  FrzBetween(v, frzTree, m) /\ FrzAgainRead(v, frzTree, m)
  <2>1. /\ m[1] \in FrzNamed /\ m[2] = frzTree[m[1]].data /\ FrzLater(m[2], m[2])
    BY <1>5
  <2>2. \A f \in frzWalk.files : f[1] = m[1] => FrzLater(f[2], m[2])
    BY <1>2, <2>1 DEF FrzFirst
  <2> QED BY <1>4, <2>1, <2>2 DEF FrzBetween, FrzAgainRead
<1>7. FrzFrom(v, FrzCapture)
  <2>1. ASSUME NEW p \in FrzNamed \ FrzExcluded PROVE \E m \in FrzCapture : m[1] = p
    <3>1. <<p, frzTree[p].data>> \in FrzCapture
      BY DEF FrzCapture
    <3>2. <<p, frzTree[p].data>>[1] = p
      OBVIOUS
    <3> QED BY <3>1, <3>2
  <2> QED BY <1>4, <2>1 DEF FrzFrom
<1>8. FrzSecond(v, frzTree, FrzCapture, n)
  BY <1>5, <1>6, <1>7 DEF FrzSecond
<1> QED BY <1>1, <1>4, <1>8 DEF FrzWalkOK

\* Two walks that agree have captured the tree between them (FrzSecondDone).
LEMMA FrzAgreed ==
  ASSUME FrzWritten, FrzWalkOK(frzWalk, frzTree, frzMiddle, frzEdits),
         frzWalk.at = "next", ~frzWalk.first, frzWalk.left = {}, FrzAgree
  PROVE  /\ frzWalk.seen = frzMiddle /\ Cardinality(frzWalk.seen) <= FrzBudget
         /\ FrzClean(frzWalk.seen)
<1>1. PICK n \in Nat : n = frzEdits
  BY DEF FrzWritten
<1>2. /\ frzWalk \in FrzWalks(n) /\ FrzCounted(frzWalk)
      /\ FrzSecond(frzWalk, frzTree, frzMiddle, n)
  BY <1>1 DEF FrzWalkOK
<1>3. PICK S \in SUBSET FrzCaught(n) : S = frzWalk.seen /\ S = frzWalk.files
  BY <1>2 DEF FrzAgree, FrzWalks
<1>4. /\ frzMiddle \subseteq FrzCaught(n)
      /\ \A m \in frzMiddle : FrzBetween(frzWalk, frzTree, m)
      /\ \A f \in S : \E m \in frzMiddle : m[1] = f[1]
  BY <1>2, <1>3 DEF FrzSecond, FrzFrom
<1>5. ASSUME NEW f \in S, NEW m \in frzMiddle, f[1] = m[1] PROVE f = m
  <2>1. FrzLater(f[2], m[2]) /\ FrzLater(m[2], f[2])
    BY <1>3, <1>4, <1>5 DEF FrzBetween
  <2>2. /\ f \in (FrzPaths \ FrzExcluded) \X Seq(0..n) /\ Len(f[2]) >= 1
        /\ m \in (FrzPaths \ FrzExcluded) \X Seq(0..n) /\ Len(m[2]) >= 1
    BY <1>3, <1>4 DEF FrzCaught
  <2>3. PICK d \in Seq(0..n), e \in Seq(0..n) : d = f[2] /\ e = m[2]
    BY <2>2
  <2>4. d = e
    BY <2>1, <2>2, <2>3, FrzSame
  <2>5. f = <<f[1], f[2]>> /\ m = <<m[1], m[2]>>
    BY <2>2
  <2> QED BY <1>5, <2>3, <2>4, <2>5
<1>6. \A f \in S : f \in frzMiddle
  BY <1>4, <1>5
<1>7. \A m \in frzMiddle : m \in S
  <2> SUFFICES ASSUME NEW m \in frzMiddle PROVE m \in S
    OBVIOUS
  <2>1. \E f \in S : f[1] = m[1]
    BY <1>3, <1>4 DEF FrzBetween
  <2> QED BY <1>5, <2>1
<1>8. S = frzMiddle
  BY <1>6, <1>7
<1>9. Cardinality(S) <= FrzBudget
  <2>1. IsFiniteSet(S) /\ Cardinality(S) <= frzWalk.spent /\ frzWalk.spent <= FrzBudget
    BY <1>2, <1>3 DEF FrzCounted
  <2>2. Cardinality(S) \in Nat /\ frzWalk.spent \in Nat
    BY <1>2, <2>1, FS_CardinalityType DEF FrzWalks
  <2> QED BY <2>1, <2>2, FrzAssumption
<1>10. FrzClean(S)
  BY FrzCaughtKept DEF FrzClean
<1> QED BY <1>3, <1>8, <1>9, <1>10

\* A directory is frozen from nothing.
LEMMA FrzInitInv == ASSUME FrzInit PROVE FrzInv
<1>1. frzEdits = 0
  BY DEF FrzInit
<1>2. ASSUME NEW p \in FrzPaths
      PROVE  frzTree[p] \in FrzFiles(0) /\ (frzTree[p].kind = "gone" \/ Len(frzTree[p].data) >= 1)
  <2>1. CASE p \in FrzSource
    <3>1. PICK d : d = <<0, 0>>  OBVIOUS
    <3>2. d \in Seq(0..0) /\ Len(d) = 2  BY <3>1
    <3>3. frzTree[p] = [kind |-> "file", data |-> d, stamp |-> 0, back |-> FALSE]
      BY <2>1, <3>1 DEF FrzInit, FrzEntry
    <3>4. frzTree[p] \in FrzFiles(0)
      BY <3>2, <3>3 DEF FrzFiles
    <3>5. frzTree[p].data = d
      BY <3>3
    <3> QED BY <3>2, <3>4, <3>5
  <2>2. CASE p \notin FrzSource
    <3>1. PICK d : d = <<>> /\ d \in Seq(0..0)  BY EmptySeq
    <3>2. frzTree[p] = [kind |-> "gone", data |-> d, stamp |-> 0, back |-> FALSE]
      BY <2>2, <3>1 DEF FrzInit, FrzEntry
    <3> QED BY <3>1, <3>2 DEF FrzFiles
  <2> QED BY <2>1, <2>2
<1>3. FrzWritten
  <2>1. DOMAIN frzTree = FrzPaths /\ frzTree = [p \in FrzPaths |-> frzTree[p]]
    BY DEF FrzInit
  <2> QED BY <1>1, <1>2, <2>1 DEF FrzWritten
<1>4. frzWalk.at = "none"
  BY DEF FrzInit, FrzNoWalk
<1>5. FrzWalkOK(frzWalk, frzTree, frzMiddle, frzEdits)
  BY <1>4 DEF FrzWalkOK
<1>6. FrzOut
  BY <1>4 DEF FrzOut, FrzInit, FrzNoFile
<1> QED BY <1>3, <1>5, <1>6 DEF FrzInv

\* The writer keeps the invariant.
LEMMA FrzWriterInv == ASSUME FrzInv, FrzWriter PROVE FrzInv'
<1>1. /\ FrzWritten' /\ frzEdits' = frzEdits + 1
      /\ \A p \in FrzPaths : FrzGrown(frzTree[p], frzTree'[p], frzEdits)
      /\ UNCHANGED <<frzWalk, frzMiddle, frzBundle, frzFile, frzTaken>>
  BY FrzWrites DEF FrzInv
<1>2. PICK n, t, u : n \in Nat /\ n = frzEdits /\ t = frzTree /\ u = frzTree'
  BY DEF FrzInv, FrzWritten
<1>3. t \in [FrzPaths -> FrzFiles(n)] /\ u \in [FrzPaths -> FrzFiles(n + 1)]
  BY <1>1, <1>2 DEF FrzInv, FrzWritten
<1>4. FrzWalkOK(frzWalk, t, frzMiddle, n)
  BY <1>2 DEF FrzInv
<1>5. FrzWalkOK(frzWalk, u, frzMiddle, n + 1)
  BY <1>1, <1>2, <1>3, <1>4, FrzWalkStands
<1>6. FrzWalkOK(frzWalk', frzTree', frzMiddle', frzEdits')
  BY <1>1, <1>2, <1>5
<1>7. FrzOut'
  BY <1>1 DEF FrzInv, FrzOut
<1> QED BY <1>1, <1>6, <1>7 DEF FrzInv

\* The steps of a walk keep the invariant.
LEMMA FrzWalkInv ==
  ASSUME FrzInv,
         FrzFreeze \/ (\E p \in FrzPaths : FrzOpen(p)) \/ FrzRead \/ FrzClose \/ FrzFirstDone
           \/ FrzSecondDone
  PROVE  FrzInv'
<1>1. UNCHANGED <<frzTree, frzEdits, frzFile, frzTaken>>
  BY DEF FrzFreeze, FrzOpen, FrzRead, FrzClose, FrzFirstDone, FrzSecondDone, FrzStill
<1>2. FrzWritten'
  BY <1>1 DEF FrzInv, FrzWritten
<1>3. PICK n, t, w, v, middle :
        /\ n \in Nat
        /\ n = frzEdits /\ t = frzTree /\ w = frzWalk /\ v = frzWalk' /\ middle = frzMiddle
  BY DEF FrzInv, FrzWritten
<1> n \in Nat
  BY <1>3
<1>4. /\ t \in [FrzPaths -> FrzFiles(n)] /\ FrzWalkOK(w, t, middle, n)
      /\ \A p \in FrzPaths : t[p].kind = "gone" \/ Len(t[p].data) >= 1
  BY <1>3 DEF FrzInv, FrzWritten
<1>5. ASSUME FrzWalkOK(v, t, middle, n), v.at \in {"next", "read", "none"},
             w.at \in {"next", "read"}, UNCHANGED <<frzMiddle, frzBundle>>
      PROVE  FrzInv'
  <2>1. FrzWalkOK(frzWalk', frzTree', frzMiddle', frzEdits')
    BY <1>1, <1>3, <1>5
  <2>2. FrzOut'
    BY <1>1, <1>3, <1>5 DEF FrzInv, FrzOut
  <2> QED BY <1>2, <2>1, <2>2 DEF FrzInv
<1>6. ASSUME FrzFails, w.at \in {"next", "read"}, UNCHANGED <<frzMiddle, frzBundle>> PROVE FrzInv'
  <2>1. v.at = "none"  BY <1>3, <1>6 DEF FrzFails, FrzNoWalk
  <2>2. FrzWalkOK(v, t, middle, n)  BY <2>1 DEF FrzWalkOK
  <2> QED BY <1>5, <1>6, <2>1, <2>2
<1>7. CASE FrzFreeze
  <2>1. v = FrzPass(TRUE, {}) /\ frzBundle' = FrzNoBundle /\ frzMiddle' = frzMiddle
    BY <1>3, <1>7 DEF FrzFreeze
  <2>2. {} \in SUBSET FrzCaught(frzEdits)
    OBVIOUS
  <2>3. /\ v \in FrzWalks(frzEdits) /\ FrzCounted(v) /\ FrzReading(v, frzTree)
        /\ v.at = "next" /\ v.first /\ FrzFirst(v, frzTree)
    <3>1. v.first /\ FrzWritten  BY <2>1, FrzPassFirst, Zenon DEF FrzInv
    <3> QED BY <2>1, <2>2, <3>1, FrzBegins, Zenon
  <2>4. FrzWalkOK(frzWalk', frzTree', frzMiddle', frzEdits')
    BY <1>1, <1>3, <2>3 DEF FrzWalkOK
  <2>5. FrzOut'
    BY <1>1, <1>3, <2>1, <2>3 DEF FrzInv, FrzOut
  <2> QED BY <1>2, <2>4, <2>5 DEF FrzInv
<1>8. CASE \E p \in FrzPaths : FrzOpen(p)
  <2>1. PICK p \in FrzPaths : FrzOpen(p)  BY <1>8
  <2>2. w.at = "next" /\ p \in w.left /\ UNCHANGED <<frzMiddle, frzBundle>>
    BY <1>3, <2>1 DEF FrzOpen
  <2>3. CASE p \in FrzExcluded
    <3>1. v = [w EXCEPT !.left = @ \ {p}]
      BY <1>3, <2>1, <2>3 DEF FrzOpen
    <3>2. FrzWalkOK(v, t, middle, n)
      BY <1>4, <2>2, <2>3, <3>1, FrzSkips
    <3>3. v.at = "next"
      <4>1. w \in FrzWalks(n)  BY <1>4, <2>2 DEF FrzWalkOK
      <4> QED BY <2>2, <3>1, <4>1 DEF FrzWalks
    <3> QED BY <1>5, <2>2, <3>2, <3>3
  <2>4. CASE p \notin FrzExcluded /\ ~FrzFails
    <3>1. PICK spent : spent = w.spent + Len(t[p].data)
      OBVIOUS
    <3>2. /\ t[p].kind = "file" /\ spent <= FrzBudget
          /\ v = [w EXCEPT !.at = "read", !.left = @ \ {p}, !.spent = spent, !.path = p,
                    !.got = <<>>, !.before = [len |-> Len(t[p].data), stamp |-> t[p].stamp]]
      BY <1>3, <2>1, <2>4, <3>1 DEF FrzOpen
    <3>3. Len(t[p].data) >= 1
      BY <1>4, <3>2
    <3>4. FrzWalkOK(v, t, middle, n)
      BY <1>4, <2>2, <2>4, <3>1, <3>2, <3>3, FrzOpens
    <3>5. v.at = "read"
      <4>1. w \in FrzWalks(n)  BY <1>4, <2>2 DEF FrzWalkOK
      <4> QED BY <3>2, <4>1 DEF FrzWalks
    <3> QED BY <1>5, <2>2, <3>4, <3>5
  <2>5. CASE FrzFails
    BY <1>6, <2>2, <2>5
  <2> QED BY <2>3, <2>4, <2>5
<1>9. CASE FrzRead
  <2>1. PICK k : k = Len(w.got) + 1
    OBVIOUS
  <2>2. /\ w.at = "read" /\ k <= Len(t[w.path].data) /\ UNCHANGED <<frzMiddle, frzBundle>>
        /\ v = [w EXCEPT !.got = Append(@, t[w.path].data[k])]
    BY <1>3, <1>9, <2>1 DEF FrzRead
  <2>3. FrzWalkOK(v, t, middle, n)
    BY <1>4, <2>1, <2>2, FrzReadsOn
  <2>4. v.at = "read"
    <3>1. w \in FrzWalks(n)  BY <1>4, <2>2 DEF FrzWalkOK
    <3> QED BY <2>2, <3>1 DEF FrzWalks
  <2> QED BY <1>5, <2>2, <2>3, <2>4
<1>10. CASE FrzClose
  <2>1. w.at = "read" /\ UNCHANGED <<frzMiddle, frzBundle>>
    BY <1>3, <1>10 DEF FrzClose
  <2>2. CASE FrzStable /\ ~FrzFails
    <3>1. /\ Len(w.got) = w.before.len /\ t[w.path].stamp = w.before.stamp
          /\ v = [w EXCEPT !.at = "next", !.files = @ \union {<<w.path, w.got>>}]
      BY <1>3, <1>10, <2>2 DEF FrzClose, FrzStable
    <3>2. FrzWalkOK(v, t, middle, n)
      BY <1>4, <2>1, <3>1, FrzCatches
    <3>3. v.at = "next"
      <4>1. w \in FrzWalks(n)  BY <1>4, <2>1 DEF FrzWalkOK
      <4> QED BY <3>1, <4>1 DEF FrzWalks
    <3> QED BY <1>5, <2>1, <3>2, <3>3
  <2>3. CASE FrzFails
    BY <1>6, <2>1, <2>3
  <2> QED BY <1>10, <2>2, <2>3 DEF FrzClose
<1>11. CASE FrzFirstDone
  <2>1. /\ frzWalk.at = "next" /\ frzWalk.first /\ frzMiddle' = FrzCapture
        /\ v = FrzPass(FALSE, frzWalk.files) /\ frzBundle' = frzBundle
    BY <1>3, <1>11 DEF FrzFirstDone
  <2>2. FrzWalkOK(v, frzTree, FrzCapture, frzEdits) /\ v.at = "next"
    BY <2>1, FrzTurns DEF FrzInv
  <2>3. FrzWalkOK(frzWalk', frzTree', frzMiddle', frzEdits')
    BY <1>1, <1>3, <2>1, <2>2
  <2>4. frzBundle = FrzNoBundle
    BY <2>1 DEF FrzInv, FrzOut
  <2>5. FrzOut'
    BY <1>1, <1>3, <2>1, <2>2, <2>4 DEF FrzInv, FrzOut
  <2> QED BY <1>2, <2>3, <2>5 DEF FrzInv
<1>12. CASE FrzSecondDone
  <2>1. frzWalk.at = "next" /\ frzWalk.left = {} /\ ~frzWalk.first /\ frzMiddle' = frzMiddle
    BY <1>12 DEF FrzSecondDone
  <2>2. CASE FrzFails /\ UNCHANGED frzBundle
    BY <1>3, <1>6, <2>1, <2>2
  <2>3. CASE FrzAgree /\ frzWalk' = [at |-> "write"] /\ frzBundle' = frzWalk.seen
    <3>1. /\ frzWalk.seen = frzMiddle /\ Cardinality(frzWalk.seen) <= FrzBudget
          /\ FrzClean(frzWalk.seen)
      BY <2>1, <2>3, FrzAgreed DEF FrzInv
    <3>2. frzWalk'.at = "write"
      BY <2>3
    <3>3. FrzWalkOK(frzWalk', frzTree', frzMiddle', frzEdits')
      BY <3>2 DEF FrzWalkOK
    <3>4. FrzOut'
      BY <1>1, <2>1, <2>3, <3>1, <3>2 DEF FrzInv, FrzOut
    <3> QED BY <1>2, <3>3, <3>4 DEF FrzInv
  <2> QED BY <1>12, <2>2, <2>3 DEF FrzSecondDone
<1> QED BY <1>7, <1>8, <1>9, <1>10, <1>11, <1>12

\* Publishing and taking a bundle keep the invariant.
LEMMA FrzOutInv ==
  ASSUME FrzInv, FrzPublish \/ FrzPublished \/ FrzTake(frzBundle)
  PROVE  FrzInv'
<1>1. UNCHANGED <<frzTree, frzEdits, frzMiddle, frzBundle>>
  BY DEF FrzPublish, FrzPublished, FrzTake
<1>2. FrzWritten'
  BY <1>1 DEF FrzInv, FrzWritten
<1>3. ASSUME frzWalk'.at \notin {"next", "read"} \/ frzWalk' = frzWalk
      PROVE  FrzWalkOK(frzWalk', frzTree', frzMiddle', frzEdits')
  BY <1>1, <1>3 DEF FrzInv, FrzWalkOK
<1>4. CASE FrzPublish
  <2>1. frzWalk.at = "write" /\ frzTaken' = frzTaken
    BY <1>4 DEF FrzPublish
  <2>2. CASE frzFile # FrzNoFile
    <3>1. frzWalk'.at = "none" /\ frzFile' = frzFile
      BY <1>4, <2>2 DEF FrzPublish, FrzNoWalk
    <3>2. FrzOut'
      BY <1>1, <2>1, <3>1 DEF FrzInv, FrzOut
    <3> QED BY <1>2, <1>3, <3>1, <3>2 DEF FrzInv
  <2>3. CASE frzFile = FrzNoFile
    <3>1. frzWalk'.at = "sync" /\ frzFile' = [bundle |-> frzBundle, whole |-> FALSE]
      BY <1>4, <2>3 DEF FrzPublish
    <3>2. frzFile'.bundle = frzBundle /\ frzFile'.whole = FALSE
      BY <3>1
    <3>3. frzTaken = {}
      BY <2>3 DEF FrzInv, FrzOut, FrzNoFile
    <3>4. FrzOut'
      BY <1>1, <2>1, <3>1, <3>2, <3>3 DEF FrzInv, FrzOut
    <3> QED BY <1>2, <1>3, <3>1, <3>4 DEF FrzInv
  <2> QED BY <2>2, <2>3
<1>5. CASE FrzPublished
  <2>1. frzWalk.at = "sync" /\ frzWalk'.at = "none" /\ frzTaken' = frzTaken
    BY <1>5 DEF FrzPublished, FrzNoWalk
  <2>2. PICK whole \in BOOLEAN : frzFile' = [frzFile EXCEPT !.whole = whole]
    BY <1>5 DEF FrzPublished
  <2>3. frzTaken = {} /\ FrzClean(frzFile.bundle)
    BY <2>1 DEF FrzInv, FrzOut
  <2>4. frzFile' = [bundle |-> frzFile.bundle, whole |-> whole]
    BY <2>2 DEF FrzInv, FrzOut
  <2>5. frzFile'.bundle = frzFile.bundle /\ frzFile' = [bundle |-> frzFile'.bundle, whole |-> frzFile'.whole]
    BY <2>4
  <2>6. FrzOut'
    BY <1>1, <2>1, <2>3, <2>5 DEF FrzInv, FrzOut
  <2> QED BY <1>2, <1>3, <2>1, <2>6 DEF FrzInv
<1>6. CASE FrzTake(frzBundle)
  <2>1. /\ frzFile # FrzNoFile /\ frzFile.whole /\ frzFile' = frzFile /\ frzWalk' = frzWalk
        /\ frzTaken' = frzTaken \union {frzFile.bundle}
    BY <1>6 DEF FrzTake, FrzDecodes
  <2>2. FrzOut'
    BY <1>1, <2>1 DEF FrzInv, FrzOut
  <2> QED BY <1>2, <1>3, <2>1, <2>2 DEF FrzInv
<1> QED BY <1>4, <1>5, <1>6

\* Every step keeps the invariant.
LEMMA FrzStepInv == ASSUME FrzInv, [FrzNext]_frzVars PROVE FrzInv'
<1>1. CASE FrzNext
  BY <1>1, FrzWriterInv, FrzWalkInv, FrzOutInv DEF FrzNext
<1>2. CASE UNCHANGED frzVars
  BY <1>2 DEF frzVars, FrzInv, FrzWritten, FrzOut
<1> QED BY <1>1, <1>2

\* The invariant is the property and what it rests on.
LEMMA FrzInvSnapshot == ASSUME FrzInv PROVE FrzSnapshot
BY DEF FrzInv, FrzOut, FrzSnapshot, FrzClean

-----------------------------------------------------------------------------
(***************************************************************************)
(* The commands as programs (CliCommands): what every program has in       *)
(* common, and what a command that runs one knows.                         *)
(***************************************************************************)
CmdKinds == {"must", "state", "list", "exec", "probe", "ask", "here", "gate", "absent", "poll",
             "follow", "stream", "instead", "local", "consent"}
CmdRepeats(s) == s.kind \in {"poll", "follow"}

\* A request is one of the router's.
CmdHasRoute(s) == s.kind \notin {"local", "consent"} => <<s.method, s.path>> \in CmdRouted

\* A delete was agreed to, or is of a forwarded port or of the program's own VM.
CmdMayDelete(c, i) ==
  \/ \E j \in 1..(i - 1) : c.steps[j].kind = "consent"
  \/ (Len(c.steps[i].path) = 4 /\ c.steps[i].path[3] = "ports")
  \/ \E j \in 1..(i - 1) : c.steps[j].path = <<"vms">> /\ c.steps[j].kind = "must"

CmdShape(c) ==
  /\ Len(c.steps) \in Nat
  /\ \A i \in 1..Len(c.steps) :
       /\ c.steps[i].kind \in CmdKinds
       /\ c.steps[i].kind = "stream" => i < Len(c.steps) /\ c.steps[i + 1].kind = "instead"
       /\ c.steps[i].kind = "instead" => i > 1 /\ c.steps[i - 1].kind = "stream"
       /\ c.steps[i].kind = "follow" => i = Len(c.steps)
       /\ CmdRepeats(c.steps[i]) => c.steps[i].method = "GET"
       /\ CmdDestroying(c.steps[i]) => CmdMayDelete(c, i)
       /\ CmdHasRoute(c.steps[i])

-----------------------------------------------------------------------------
(* The route table. *)

\* A route of the daemon is one a command may ask for.
LEMMA CmdHas ==
  ASSUME NEW r \in ApRoutes
  PROVE  <<r.method, r.path>> \in CmdRouted
BY DEF CmdRouted

\* The name a command uses is one of the clients' names.
LEMMA CmdVmIsName == CmdVm \in ApNames
BY CmdAssumption DEF CmdVm

\* The routes of a named resource.
LEMMA CmdNamedRoutes ==
  ASSUME NEW plural, ApNamed(plural) \subseteq ApRoutes
  PROVE  /\ <<"GET", <<plural>>>> \in CmdRouted /\ <<"POST", <<plural>>>> \in CmdRouted
         /\ <<"GET", <<plural, CmdVm>>>> \in CmdRouted
         /\ <<"DELETE", <<plural, CmdVm>>>> \in CmdRouted
<1>1. /\ ApGet(<<plural>>) \in ApRoutes /\ ApPost(<<plural>>, "change") \in ApRoutes
      /\ ApGet(<<plural, CmdVm>>) \in ApRoutes /\ ApDelete(<<plural, CmdVm>>) \in ApRoutes
  BY CmdVmIsName DEF ApNamed
<1>2. ASSUME NEW path
      PROVE  /\ ApGet(path).method = "GET" /\ ApGet(path).path = path
             /\ ApPost(path, "change").method = "POST" /\ ApPost(path, "change").path = path
             /\ ApDelete(path).method = "DELETE" /\ ApDelete(path).path = path
  BY DEF ApGet, ApPost, ApDelete, ApRoute
<1> QED BY <1>1, <1>2, CmdHas

\* The routes of an operation on a named resource.
LEMMA CmdActRoute ==
  ASSUME NEW plural, NEW verb, NEW does, ApActs(plural, verb, does) \subseteq ApRoutes
  PROVE  <<"POST", <<plural, CmdVm, verb>>>> \in CmdRouted
<1>1. ApPost(<<plural, CmdVm, verb>>, does) \in ApRoutes
  BY CmdVmIsName DEF ApActs
<1>2. /\ ApPost(<<plural, CmdVm, verb>>, does).method = "POST"
      /\ ApPost(<<plural, CmdVm, verb>>, does).path = <<plural, CmdVm, verb>>
  BY DEF ApPost, ApRoute
<1> QED BY <1>1, <1>2, CmdHas

\* The routes that show a part of a named resource.
LEMMA CmdViewRoute ==
  ASSUME NEW plural, NEW verb, ApViews(plural, verb) \subseteq ApRoutes
  PROVE  <<"GET", <<plural, CmdVm, verb>>>> \in CmdRouted
<1>1. ApGet(<<plural, CmdVm, verb>>) \in ApRoutes
  BY CmdVmIsName DEF ApViews
<1>2. /\ ApGet(<<plural, CmdVm, verb>>).method = "GET"
      /\ ApGet(<<plural, CmdVm, verb>>).path = <<plural, CmdVm, verb>>
  BY DEF ApGet, ApRoute
<1> QED BY <1>1, <1>2, CmdHas

\* Every group of routes is served (router).
LEMMA CmdServed ==
  ASSUME NEW S \in {ApHealthRoutes, ApDaemonRoutes, ApMetricsRoutes, ApGroupRoutes,
                    ApServiceRoutes, ApImageRoutes, ApImageCopies, ApVolumeRoutes, ApSecretRoutes,
                    ApSnapshotRoutes, ApPoolRoutes, ApVmRoutes, ApVmActs, ApPortRoutes,
                    ApExecRoutes, ApFileRoutes, ApShellRoutes, ApProbeRoutes, ApLogRoutes,
                    ApSessionRoutes, ApTunnelRoutes, ApFactoryRoutes}
  PROVE  S \subseteq ApRoutes
BY DEF ApRoutes

\* The routes of the resources that are created, listed, shown and deleted.
LEMMA CmdResourceRoutes ==
  ASSUME NEW plural \in {"host-groups", "pools", "services", "snapshots", "images", "volumes",
                         "secrets", "vms"}
  PROVE  /\ <<"GET", <<plural>>>> \in CmdRouted /\ <<"POST", <<plural>>>> \in CmdRouted
         /\ <<"GET", <<plural, CmdVm>>>> \in CmdRouted
         /\ <<"DELETE", <<plural, CmdVm>>>> \in CmdRouted
<1>1. /\ ApNamed("host-groups") \subseteq ApGroupRoutes /\ ApNamed("pools") \subseteq ApPoolRoutes
      /\ ApNamed("services") \subseteq ApServiceRoutes
      /\ ApNamed("snapshots") \subseteq ApSnapshotRoutes
      /\ ApNamed("images") \subseteq ApImageRoutes /\ ApNamed("volumes") \subseteq ApVolumeRoutes
      /\ ApNamed("secrets") \subseteq ApSecretRoutes
  BY DEF ApGroupRoutes, ApPoolRoutes, ApServiceRoutes, ApSnapshotRoutes, ApImageRoutes,
     ApVolumeRoutes, ApSecretRoutes
<1>2. /\ ApGroupRoutes \subseteq ApRoutes /\ ApPoolRoutes \subseteq ApRoutes
      /\ ApServiceRoutes \subseteq ApRoutes /\ ApSnapshotRoutes \subseteq ApRoutes
      /\ ApImageRoutes \subseteq ApRoutes /\ ApVolumeRoutes \subseteq ApRoutes
      /\ ApSecretRoutes \subseteq ApRoutes /\ ApVmRoutes \subseteq ApRoutes
  BY CmdServed
<1>3. CASE plural # "vms"
  <2>1. ApNamed(plural) \subseteq ApRoutes
    BY <1>1, <1>2, <1>3
  <2> QED BY <2>1, CmdNamedRoutes
<1>4. CASE plural = "vms"
  <2> DEFINE Fixed(r) == IF r.method = "POST" THEN [r EXCEPT !.does = "create vm"] ELSE r
  <2>1. ASSUME NEW r \in ApNamed("vms"), r.method # "POST" PROVE r \in ApRoutes
    <3>1. Fixed(r) \in ApVmRoutes  BY DEF ApVmRoutes
    <3> QED BY <1>2, <2>1, <3>1
  <2>2. /\ ApGet(<<"vms">>) \in ApNamed("vms") /\ ApPost(<<"vms">>, "change") \in ApNamed("vms")
        /\ ApGet(<<"vms", CmdVm>>) \in ApNamed("vms")
        /\ ApDelete(<<"vms", CmdVm>>) \in ApNamed("vms")
    BY CmdVmIsName DEF ApNamed
  <2>3. ASSUME NEW path
        PROVE  /\ ApGet(path).method = "GET" /\ ApGet(path).path = path
               /\ ApDelete(path).method = "DELETE" /\ ApDelete(path).path = path
    BY DEF ApGet, ApDelete, ApRoute
  <2>4. PICK r : r = ApPost(<<"vms">>, "change")
    OBVIOUS
  <2>5. r.method = "POST" /\ r.path = <<"vms">> /\ r = [method |-> "POST", path |-> <<"vms">>, does |-> "change"]
    BY <2>4 DEF ApPost, ApRoute
  <2>6. PICK q : q = [r EXCEPT !.does = "create vm"]
    OBVIOUS
  <2>7. q.method = "POST" /\ q.path = <<"vms">>
    BY <2>5, <2>6
  <2>8. q \in ApRoutes
    <3>1. Fixed(r) = q  BY <2>5, <2>6
    <3>2. Fixed(r) \in ApVmRoutes  BY <2>2, <2>4 DEF ApVmRoutes
    <3> QED BY <1>2, <3>1, <3>2
  <2>9. <<"POST", <<"vms">>>> \in CmdRouted
    BY <2>7, <2>8, CmdHas
  <2>10. /\ ApGet(<<"vms">>) \in ApRoutes /\ ApGet(<<"vms", CmdVm>>) \in ApRoutes
         /\ ApDelete(<<"vms", CmdVm>>) \in ApRoutes
    BY <2>1, <2>2, <2>3
  <2>11. /\ <<"GET", <<"vms">>>> \in CmdRouted /\ <<"GET", <<"vms", CmdVm>>>> \in CmdRouted
         /\ <<"DELETE", <<"vms", CmdVm>>>> \in CmdRouted
    BY <2>3, <2>10, CmdHas
  <2> QED BY <1>4, <2>9, <2>11
<1> QED BY <1>3, <1>4

\* The other requests commands make of a named resource.
LEMMA CmdVerbRoutes ==
  /\ \A verb \in {"stop", "pause", "resume", "suspend", "fork", "exec", "ports", "sessions",
                  "commit-image"} : <<"POST", <<"vms", CmdVm, verb>>>> \in CmdRouted
  /\ <<"POST", <<"pools", CmdVm, "checkout">>>> \in CmdRouted
  /\ <<"POST", <<"services", CmdVm, "scale">>>> \in CmdRouted
  /\ <<"POST", <<"snapshots", CmdVm, "restore">>>> \in CmdRouted
  /\ <<"POST", <<"images", CmdVm, "export">>>> \in CmdRouted
  /\ <<"POST", <<"secrets", CmdVm, "rotate">>>> \in CmdRouted
  /\ \A verb \in {"ready", "guest-info", "logs", "shell", "ports", "sessions"} :
       <<"GET", <<"vms", CmdVm, verb>>>> \in CmdRouted
  /\ <<"GET", <<"secrets", CmdVm, "reveal">>>> \in CmdRouted
<1>1. /\ ApServiceRoutes \subseteq ApRoutes /\ ApImageCopies \subseteq ApRoutes
      /\ ApSecretRoutes \subseteq ApRoutes /\ ApSnapshotRoutes \subseteq ApRoutes
      /\ ApPoolRoutes \subseteq ApRoutes /\ ApVmActs \subseteq ApRoutes
      /\ ApPortRoutes \subseteq ApRoutes /\ ApExecRoutes \subseteq ApRoutes
      /\ ApShellRoutes \subseteq ApRoutes /\ ApProbeRoutes \subseteq ApRoutes
      /\ ApLogRoutes \subseteq ApRoutes /\ ApSessionRoutes \subseteq ApRoutes
  BY CmdServed
<1>2. ASSUME NEW verb \in {"stop", "pause", "resume", "suspend", "fork"}
      PROVE  ApActs("vms", verb, "change") \subseteq ApRoutes
  <2>1. ApActs("vms", verb, "change") \subseteq ApVmActs
    BY DEF ApVmActs
  <2> QED BY <1>1, <2>1
<1>3. /\ ApActs("vms", "exec", "guest") \subseteq ApRoutes
      /\ ApActs("vms", "ports", "change") \subseteq ApRoutes
      /\ ApActs("vms", "sessions", "guest") \subseteq ApRoutes
      /\ ApActs("vms", "commit-image", "change") \subseteq ApRoutes
  BY <1>1 DEF ApExecRoutes, ApPortRoutes, ApSessionRoutes, ApImageCopies
<1>4. /\ ApActs("pools", "checkout", "change") \subseteq ApRoutes
      /\ ApActs("services", "scale", "change") \subseteq ApRoutes
      /\ ApActs("snapshots", "restore", "change") \subseteq ApRoutes
      /\ ApActs("images", "export", "change") \subseteq ApRoutes
      /\ ApActs("secrets", "rotate", "change") \subseteq ApRoutes
  BY <1>1 DEF ApPoolRoutes, ApServiceRoutes, ApSnapshotRoutes, ApImageCopies, ApSecretRoutes
<1>5. /\ ApViews("vms", "ready") \subseteq ApRoutes /\ ApViews("vms", "guest-info") \subseteq ApRoutes
      /\ ApViews("vms", "logs") \subseteq ApRoutes /\ ApViews("vms", "ports") \subseteq ApRoutes
      /\ ApViews("vms", "sessions") \subseteq ApRoutes
      /\ ApViews("secrets", "reveal") \subseteq ApRoutes
  BY <1>1 DEF ApProbeRoutes, ApLogRoutes, ApPortRoutes, ApSessionRoutes, ApSecretRoutes
<1>6. <<"GET", <<"vms", CmdVm, "shell">>>> \in CmdRouted
  <2>1. ApRoute("GET", <<"vms", CmdVm, "shell">>, "guest") \in ApRoutes
    BY <1>1, CmdVmIsName DEF ApShellRoutes
  <2>2. /\ ApRoute("GET", <<"vms", CmdVm, "shell">>, "guest").method = "GET"
        /\ ApRoute("GET", <<"vms", CmdVm, "shell">>, "guest").path = <<"vms", CmdVm, "shell">>
    BY DEF ApRoute
  <2> QED BY <2>1, <2>2, CmdHas
<1>7. \A verb \in {"stop", "pause", "resume", "suspend", "fork"} :
        <<"POST", <<"vms", CmdVm, verb>>>> \in CmdRouted
  BY <1>2, CmdActRoute
<1>8. \A verb \in {"exec", "ports", "sessions", "commit-image"} :
        <<"POST", <<"vms", CmdVm, verb>>>> \in CmdRouted
  BY <1>3, CmdActRoute
<1>9. \A verb \in {"ready", "guest-info", "logs", "ports", "sessions"} :
        <<"GET", <<"vms", CmdVm, verb>>>> \in CmdRouted
  BY <1>5, CmdViewRoute
<1>10. <<"GET", <<"secrets", CmdVm, "reveal">>>> \in CmdRouted
  BY <1>5, CmdViewRoute
<1>11. /\ <<"POST", <<"pools", CmdVm, "checkout">>>> \in CmdRouted
       /\ <<"POST", <<"services", CmdVm, "scale">>>> \in CmdRouted
       /\ <<"POST", <<"snapshots", CmdVm, "restore">>>> \in CmdRouted
       /\ <<"POST", <<"images", CmdVm, "export">>>> \in CmdRouted
       /\ <<"POST", <<"secrets", CmdVm, "rotate">>>> \in CmdRouted
  BY <1>4, CmdActRoute
<1> QED BY <1>6, <1>7, <1>8, <1>9, <1>10, <1>11

\* The requests with a path of their own.
LEMMA CmdOtherRoutes ==
  /\ <<"GET", <<"profiles">>>> \in CmdRouted /\ <<"GET", <<"health">>>> \in CmdRouted
  /\ <<"GET", <<"diagnostics">>>> \in CmdRouted
  /\ <<"PUT", <<"vms", CmdVm, "balloon">>>> \in CmdRouted
  /\ <<"POST", <<"images", "import-oci">>>> \in CmdRouted
  /\ <<"GET", <<"vms", CmdVm, "exec", "stream">>>> \in CmdRouted
  /\ <<"POST", <<"vms", CmdVm, "files", "read">>>> \in CmdRouted
  /\ <<"POST", <<"vms", CmdVm, "files", "write">>>> \in CmdRouted
  /\ <<"DELETE", <<"vms", CmdVm, "ports", "8080">>>> \in CmdRouted
  /\ <<"GET", <<"vms", CmdVm, "sessions", "id">>>> \in CmdRouted
  /\ <<"DELETE", <<"vms", CmdVm, "sessions", "id">>>> \in CmdRouted
  /\ <<"POST", <<"vms", CmdVm, "sessions", "id", "cancel">>>> \in CmdRouted
  /\ <<"GET", <<"vms", CmdVm, "sessions", "id", "events">>>> \in CmdRouted
  /\ <<"GET", <<"vms", CmdVm, "tunnel", "80">>>> \in CmdRouted
<1>1. /\ ApDaemonRoutes \subseteq ApRoutes /\ ApHealthRoutes \subseteq ApRoutes
      /\ ApVmActs \subseteq ApRoutes /\ ApImageRoutes \subseteq ApRoutes
      /\ ApExecRoutes \subseteq ApRoutes /\ ApFileRoutes \subseteq ApRoutes
      /\ ApPortRoutes \subseteq ApRoutes /\ ApSessionRoutes \subseteq ApRoutes
      /\ ApTunnelRoutes \subseteq ApRoutes
  BY CmdServed
<1>2. ASSUME NEW method, NEW path, NEW does, ApRoute(method, path, does) \in ApRoutes
      PROVE  <<method, path>> \in CmdRouted
  <2>1. /\ ApRoute(method, path, does).method = method
        /\ ApRoute(method, path, does).path = path
    BY DEF ApRoute
  <2> QED BY <1>2, <2>1, CmdHas
<1>3. /\ ApRoute("GET", <<"profiles">>, "read") \in ApRoutes
      /\ ApRoute("GET", <<"diagnostics">>, "read") \in ApRoutes
  BY <1>1 DEF ApDaemonRoutes, ApGet
<1>4. ApRoute("GET", <<"health">>, "read") \in ApRoutes
  BY <1>1 DEF ApHealthRoutes, ApGet
<1>5. ApRoute("PUT", <<"vms", CmdVm, "balloon">>, "change") \in ApRoutes
  BY <1>1, CmdVmIsName DEF ApVmActs
<1>6. ApRoute("POST", <<"images", "import-oci">>, "change") \in ApRoutes
  BY <1>1 DEF ApImageRoutes, ApPost
<1>7. ApRoute("GET", <<"vms", CmdVm, "exec", "stream">>, "guest") \in ApRoutes
  BY <1>1, CmdVmIsName DEF ApExecRoutes
<1>8. /\ ApRoute("POST", <<"vms", CmdVm, "files", "read">>, "read") \in ApRoutes
      /\ ApRoute("POST", <<"vms", CmdVm, "files", "write">>, "guest") \in ApRoutes
  BY <1>1, CmdVmIsName DEF ApFileRoutes, ApPost
<1>9. ApRoute("DELETE", <<"vms", CmdVm, "ports", "8080">>, "change") \in ApRoutes
  BY <1>1, CmdVmIsName DEF ApPortRoutes, ApDelete
<1>10. /\ ApRoute("GET", <<"vms", CmdVm, "sessions", "id">>, "read") \in ApRoutes
       /\ ApRoute("DELETE", <<"vms", CmdVm, "sessions", "id">>, "guest") \in ApRoutes
       /\ ApRoute("POST", <<"vms", CmdVm, "sessions", "id", "cancel">>, "guest") \in ApRoutes
       /\ ApRoute("GET", <<"vms", CmdVm, "sessions", "id", "events">>, "read") \in ApRoutes
  <2>1. /\ {ApGet(<<"vms", n, "sessions", "id">>) : n \in ApNames} \subseteq ApRoutes
        /\ {ApGet(<<"vms", n, "sessions", "id", "events">>) : n \in ApNames} \subseteq ApRoutes
        /\ {ApPost(<<"vms", n, "sessions", "id", "cancel">>, "guest") : n \in ApNames}
             \subseteq ApRoutes
        /\ {ApRoute("DELETE", <<"vms", n, "sessions", "id">>, "guest") : n \in ApNames}
             \subseteq ApRoutes
    BY <1>1 DEF ApSessionRoutes
  <2> QED BY <2>1, CmdVmIsName DEF ApGet, ApPost
<1>11. ApRoute("GET", <<"vms", CmdVm, "tunnel", "80">>, "guest") \in ApRoutes
  BY <1>1, CmdVmIsName DEF ApTunnelRoutes
<1> QED BY <1>2, <1>3, <1>4, <1>5, <1>6, <1>7, <1>8, <1>9, <1>10, <1>11

-----------------------------------------------------------------------------
(* The programs. *)

\* A request like most: neither half of a streamed exec, nor the last one of a
\* follower, nor a delete.
CmdSimple ==
  {s \in [kind : CmdKinds \ {"stream", "instead", "follow"},
          method : {"GET", "PUT", "POST", "HERE"}, path : {r.path : r \in ApRoutes} \cup {<<>>}] :
     /\ CmdHasRoute(s)
     /\ s.kind = "poll" => s.method = "GET"}

\* Such a request.
LEMMA CmdSimpleStep ==
  ASSUME NEW kind \in CmdKinds \ {"stream", "instead", "follow"},
         NEW method \in {"GET", "PUT", "POST"}, NEW path, <<method, path>> \in CmdRouted,
         kind = "poll" => method = "GET"
  PROVE  CmdStep(kind, method, path) \in CmdSimple
<1>1. path \in {r.path : r \in ApRoutes}
  BY DEF CmdRouted
<1>2. PICK s : s = [kind |-> kind, method |-> method, path |-> path]
  OBVIOUS
<1>3. /\ s \in [kind : CmdKinds \ {"stream", "instead", "follow"},
                method : {"GET", "PUT", "POST", "HERE"}, path : {r.path : r \in ApRoutes} \cup {<<>>}]
      /\ s.kind = kind /\ s.method = method /\ s.path = path
  BY <1>1, <1>2
<1>4. s \in CmdSimple
  BY <1>3 DEF CmdSimple, CmdHasRoute
<1> QED BY <1>2, <1>4 DEF CmdStep

\* Work on this machine that overwrites nothing, and asking.
LEMMA CmdHereSteps == CmdLocal("HERE") \in CmdSimple /\ CmdConsented \in CmdSimple
<1>1. ASSUME NEW kind \in {"local", "consent"} PROVE CmdStep(kind, "HERE", <<>>) \in CmdSimple
  <2>1. PICK s : s = [kind |-> kind, method |-> "HERE", path |-> <<>>]
    OBVIOUS
  <2>2. kind \in CmdKinds \ {"stream", "instead", "follow"}
    BY DEF CmdKinds
  <2>3. /\ s \in [kind : CmdKinds \ {"stream", "instead", "follow"},
                  method : {"GET", "PUT", "POST", "HERE"},
                  path : {r.path : r \in ApRoutes} \cup {<<>>}]
        /\ s.kind = kind
    BY <2>1, <2>2
  <2>4. s \in CmdSimple
    BY <2>3 DEF CmdSimple, CmdHasRoute
  <2> QED BY <2>1, <2>4 DEF CmdStep
<1> QED BY <1>1 DEF CmdLocal, CmdConsented

\* A request the command cannot do without.
LEMMA CmdMustStep ==
  ASSUME NEW method \in {"GET", "PUT", "POST"}, NEW path, <<method, path>> \in CmdRouted
  PROVE  CmdMust(method, path) \in CmdSimple
<1>1. "must" \in CmdKinds \ {"stream", "instead", "follow"}
  BY DEF CmdKinds
<1> QED BY <1>1, CmdSimpleStep DEF CmdMust

\* A program of such requests.
LEMMA CmdSimpleShape ==
  ASSUME NEW c, c.steps \in Seq(CmdSimple)
  PROVE  CmdShape(c)
<1>1. PICK steps \in Seq(CmdSimple) : steps = c.steps
  OBVIOUS
<1>2. Len(steps) \in Nat
  BY LenProperties
<1>3. ASSUME NEW i \in 1..Len(steps)
      PROVE  /\ steps[i].kind \in CmdKinds \ {"stream", "instead", "follow"}
             /\ steps[i].method \in {"GET", "PUT", "POST", "HERE"}
             /\ CmdHasRoute(steps[i])
             /\ steps[i].kind = "poll" => steps[i].method = "GET"
  <2>1. steps[i] \in CmdSimple
    BY ElementOfSeq
  <2> QED BY <2>1 DEF CmdSimple
<1>4. ASSUME NEW i \in 1..Len(steps)
      PROVE  /\ steps[i].kind \in CmdKinds
             /\ steps[i].kind \notin {"stream", "instead", "follow"}
             /\ CmdRepeats(steps[i]) => steps[i].method = "GET"
             /\ ~CmdDestroying(steps[i])
             /\ CmdHasRoute(steps[i])
  BY <1>3 DEF CmdRepeats, CmdDestroying
<1> QED BY <1>1, <1>2, <1>4 DEF CmdShape

\* What the ways to build a command say of it.
LEMMA CmdBuilt ==
  \A steps, text, here, tty : /\ CmdGated(steps, text, here, tty).steps = steps
                             /\ CmdPlain(steps).steps = steps /\ CmdText(steps).steps = steps
BY DEF CmdPlain, CmdText, CmdGated

\* A command that deletes and asks first.
LEMMA CmdConfirmedShape ==
  ASSUME NEW path, <<"DELETE", path>> \in CmdRouted
  PROVE  CmdShape(CmdConfirmed(path))
<1>1. PICK c : c = CmdConfirmed(path)
  OBVIOUS
<1>2. PICK a, s : a = CmdConsented /\ s = CmdMust("DELETE", path)
  OBVIOUS
<1>3. c.steps = <<a, s>>
  BY <1>1, <1>2, CmdBuilt DEF CmdConfirmed
<1>4. /\ s.kind = "must" /\ s.method = "DELETE" /\ s.path = path
      /\ a.kind = "consent" /\ a.method = "HERE"
  BY <1>2 DEF CmdMust, CmdStep, CmdConsented
<1>5. Len(c.steps) = 2 /\ c.steps[1] = a /\ c.steps[2] = s
  BY <1>3
<1>6. ASSUME NEW i \in 1..2
      PROVE  /\ c.steps[i].kind \in CmdKinds
             /\ c.steps[i].kind \notin {"stream", "instead", "follow"}
             /\ ~CmdRepeats(c.steps[i])
             /\ CmdDestroying(c.steps[i]) => CmdMayDelete(c, i)
             /\ CmdHasRoute(c.steps[i])
  <2>1. CASE i = 1
    BY <2>1, <1>4, <1>5 DEF CmdKinds, CmdRepeats, CmdDestroying, CmdHasRoute
  <2>2. CASE i = 2
    <3>1. 1 \in 1..(i - 1) /\ c.steps[1].kind = "consent"
      BY <2>2, <1>4, <1>5
    <3> QED BY <2>2, <3>1, <1>4, <1>5 DEF CmdKinds, CmdRepeats, CmdMayDelete, CmdHasRoute
  <2> QED BY <2>1, <2>2
<1>7. CmdShape(c)
  BY <1>5, <1>6 DEF CmdShape
<1> QED BY <1>1, <1>7

\* setup storage asks before it overwrites.
LEMMA CmdSetupShape ==
  ASSUME NEW c, c.steps = <<CmdLocal("HERE"), CmdLocal("HERE"), CmdConsented, CmdLocal("REPLACE"),
                            CmdLocal("REPLACE")>>
  PROVE  CmdShape(c)
<1>1. PICK a, s, w : a = CmdLocal("HERE") /\ s = CmdConsented /\ w = CmdLocal("REPLACE")
  OBVIOUS
<1>2. /\ a.kind = "local" /\ a.method = "HERE" /\ s.kind = "consent" /\ s.method = "HERE"
      /\ w.kind = "local"
  BY <1>1 DEF CmdLocal, CmdConsented, CmdStep
<1>3. Len(c.steps) = 5 /\ c.steps[1] = a /\ c.steps[2] = a /\ c.steps[3] = s /\ c.steps[4] = w
      /\ c.steps[5] = w
  BY <1>1
<1>4. ASSUME NEW i \in 1..5
      PROVE  /\ c.steps[i].kind \in {"local", "consent"}
             /\ CmdDestroying(c.steps[i]) => i \in {4, 5}
  BY <1>2, <1>3 DEF CmdDestroying
<1>5. ASSUME NEW i \in {4, 5} PROVE CmdMayDelete(c, i)
  <2>1. 3 \in 1..(i - 1) /\ c.steps[3].kind = "consent"
    BY <1>2, <1>3
  <2> QED BY <2>1 DEF CmdMayDelete
<1>6. ASSUME NEW i \in 1..5
      PROVE  /\ c.steps[i].kind \in CmdKinds
             /\ c.steps[i].kind \notin {"stream", "instead", "follow"}
             /\ ~CmdRepeats(c.steps[i])
             /\ CmdDestroying(c.steps[i]) => CmdMayDelete(c, i)
             /\ CmdHasRoute(c.steps[i])
  <2>1. CmdDestroying(c.steps[i]) => CmdMayDelete(c, i)
    BY <1>4, <1>5
  <2> QED BY <2>1, <1>4 DEF CmdKinds, CmdRepeats, CmdHasRoute
<1> QED BY <1>3, <1>6 DEF CmdShape

\* create, list, show and delete.
LEMMA CmdNamedShape ==
  ASSUME NEW plural \in {"host-groups", "pools", "services", "snapshots", "images", "volumes",
                         "secrets", "vms"},
         NEW c \in CmdNamed(plural)
  PROVE  CmdShape(c)
<1>1. /\ CmdMust("POST", <<plural>>) \in CmdSimple /\ CmdMust("GET", <<plural>>) \in CmdSimple
      /\ CmdMust("GET", <<plural, CmdVm>>) \in CmdSimple
  BY CmdResourceRoutes, CmdMustStep
<1>2. CASE c = CmdConfirmed(<<plural, CmdVm>>)
  BY <1>2, CmdResourceRoutes, CmdConfirmedShape
<1>3. CASE c # CmdConfirmed(<<plural, CmdVm>>)
  <2>1. PICK s \in CmdSimple : c = CmdPlain(<<s>>)
    BY <1>1, <1>3 DEF CmdNamed
  <2>2. c.steps = <<s>>
    BY <2>1, CmdBuilt
  <2>3. <<s>> \in Seq(CmdSimple)
    OBVIOUS
  <2> QED BY <2>2, <2>3, CmdSimpleShape
<1> QED BY <1>2, <1>3

\* A command of such requests, however it is built.
LEMMA CmdPlainShape ==
  ASSUME NEW steps \in Seq(CmdSimple)
  PROVE  CmdShape(CmdPlain(steps)) /\ CmdShape(CmdText(steps))
<1>1. PICK a, b : a = CmdPlain(steps) /\ b = CmdText(steps)
  OBVIOUS
<1>2. a.steps = steps /\ b.steps = steps
  BY <1>1, CmdBuilt
<1>3. CmdShape(a) /\ CmdShape(b)
  BY <1>2, CmdSimpleShape
<1> QED BY <1>1, <1>3

\* A command of one to four of them.
LEMMA CmdShortShape ==
  ASSUME NEW r \in CmdSimple, NEW s \in CmdSimple, NEW t \in CmdSimple, NEW u \in CmdSimple
  PROVE  /\ CmdShape(CmdPlain(<<r>>)) /\ CmdShape(CmdText(<<r>>))
         /\ CmdShape(CmdPlain(<<r, s>>)) /\ CmdShape(CmdText(<<r, s>>))
         /\ CmdShape(CmdPlain(<<r, s, t>>)) /\ CmdShape(CmdPlain(<<r, s, t, u>>))
<1>1. /\ <<r>> \in Seq(CmdSimple) /\ <<r, s>> \in Seq(CmdSimple) /\ <<r, s, t>> \in Seq(CmdSimple)
      /\ <<r, s, t, u>> \in Seq(CmdSimple)
  OBVIOUS
<1> QED BY <1>1, CmdPlainShape

\* The requests that are not simply must ones.
LEMMA CmdOtherSteps ==
  /\ CmdReady \in CmdSimple /\ CmdPreflight \in CmdSimple /\ CmdScript \in CmdSimple
  /\ CmdStep("ask", "GET", <<"profiles">>) \in CmdSimple
  /\ CmdStep("exec", "POST", <<"vms", CmdVm, "exec">>) \in CmdSimple
  /\ CmdStep("probe", "GET", <<"health">>) \in CmdSimple
  /\ CmdStep("probe", "POST", <<"vms", CmdVm, "files", "read">>) \in CmdSimple
  /\ CmdStep("here", "GET", <<"diagnostics">>) \in CmdSimple
  /\ CmdStep("absent", "GET", <<"images", CmdVm>>) \in CmdSimple
  /\ CmdStep("list", "GET", <<"vms">>) \in CmdSimple
  /\ CmdStep("state", "GET", <<"vms", CmdVm>>) \in CmdSimple
<1>1. {"poll", "gate", "exec", "ask", "probe", "here", "absent", "list", "state"}
        \subseteq CmdKinds \ {"stream", "instead", "follow"}
  BY DEF CmdKinds
<1>2. /\ <<"GET", <<"vms", CmdVm, "ready">>>> \in CmdRouted
      /\ <<"POST", <<"vms", CmdVm, "exec">>>> \in CmdRouted
  BY CmdVerbRoutes
<1>3. /\ <<"GET", <<"health">>>> \in CmdRouted /\ <<"GET", <<"profiles">>>> \in CmdRouted
      /\ <<"GET", <<"diagnostics">>>> \in CmdRouted
      /\ <<"POST", <<"vms", CmdVm, "files", "read">>>> \in CmdRouted
  BY CmdOtherRoutes
<1>4. /\ <<"GET", <<"images", CmdVm>>>> \in CmdRouted /\ <<"GET", <<"vms">>>> \in CmdRouted
      /\ <<"GET", <<"vms", CmdVm>>>> \in CmdRouted
  BY CmdResourceRoutes
<1>5. CmdReady \in CmdSimple
  BY <1>1, <1>2, CmdSimpleStep DEF CmdReady, CmdOn
<1>6. CmdPreflight \in CmdSimple
  BY <1>1, <1>3, CmdSimpleStep DEF CmdPreflight
<1>7. CmdStep("exec", "POST", <<"vms", CmdVm, "exec">>) \in CmdSimple
  BY <1>1, <1>2, CmdSimpleStep
<1>8. CmdScript \in CmdSimple
  BY <1>7 DEF CmdScript, CmdOn
<1>9. /\ CmdStep("ask", "GET", <<"profiles">>) \in CmdSimple
      /\ CmdStep("probe", "GET", <<"health">>) \in CmdSimple
      /\ CmdStep("here", "GET", <<"diagnostics">>) \in CmdSimple
  BY <1>1, <1>3, CmdSimpleStep
<1>10. CmdStep("probe", "POST", <<"vms", CmdVm, "files", "read">>) \in CmdSimple
  BY <1>1, <1>3, CmdSimpleStep
<1>11. /\ CmdStep("absent", "GET", <<"images", CmdVm>>) \in CmdSimple
       /\ CmdStep("list", "GET", <<"vms">>) \in CmdSimple
       /\ CmdStep("state", "GET", <<"vms", CmdVm>>) \in CmdSimple
  BY <1>1, <1>4, CmdSimpleStep
<1> QED BY <1>5, <1>6, <1>7, <1>8, <1>9, <1>10, <1>11

\* The programs that other programs contain.
LEMMA CmdParts ==
  /\ CmdCheckout \in Seq(CmdSimple) /\ CmdCreate \in Seq(CmdSimple) /\ CmdHosts \in Seq(CmdSimple)
  /\ Len(CmdCreate) = 2 /\ CmdCreate[2] = CmdMust("POST", <<"vms">>)
<1>1. CmdMust("POST", <<"pools", CmdVm, "checkout">>) \in CmdSimple
  BY CmdVerbRoutes, CmdMustStep
<1>2. CmdMust("POST", <<"vms">>) \in CmdSimple
  BY CmdResourceRoutes, CmdMustStep
<1>3. CmdMust("POST", <<"vms", CmdVm, "files", "write">>) \in CmdSimple
  BY CmdOtherRoutes, CmdMustStep
<1>4. CmdCheckout \in Seq(CmdSimple)
  BY <1>1 DEF CmdCheckout, CmdOn
<1>5. PICK a, b : a = CmdStep("ask", "GET", <<"profiles">>) /\ b = CmdMust("POST", <<"vms">>)
  OBVIOUS
<1>6. a \in CmdSimple /\ b \in CmdSimple /\ CmdCreate = <<a, b>>
  BY <1>2, <1>5, CmdOtherSteps DEF CmdCreate
<1>7. PICK w, r : /\ w = CmdMust("POST", <<"vms", CmdVm, "files", "write">>)
                  /\ r = CmdStep("probe", "POST", <<"vms", CmdVm, "files", "read">>)
  OBVIOUS
<1>8. w \in CmdSimple /\ r \in CmdSimple
  BY <1>3, <1>7, CmdOtherSteps
<1>9. CmdHosts = <<w, r, w>>
  BY <1>7 DEF CmdHosts
<1>10. <<w, r, w>> \in Seq(CmdSimple) /\ <<a, b>> \in Seq(CmdSimple)
  BY <1>6, <1>8
<1>11. Len(CmdCreate) = 2 /\ CmdCreate[2] = b
  BY <1>6
<1> QED BY <1>4, <1>5, <1>6, <1>9, <1>10, <1>11

\* A forwarded port is deleted without asking.
LEMMA CmdPortDelete ==
  CmdShape(CmdPlain(<<CmdMust("DELETE", <<"vms", CmdVm, "ports", "8080">>)>>))
<1>1. PICK path : path = <<"vms", CmdVm, "ports", "8080">>
  OBVIOUS
<1>2. PICK s : s = CmdMust("DELETE", path)
  OBVIOUS
<1>3. PICK c : c = CmdPlain(<<s>>)
  OBVIOUS
<1>4. s.kind = "must" /\ s.method = "DELETE" /\ s.path = path
  BY <1>2 DEF CmdMust, CmdStep
<1>5. Len(path) = 4 /\ path[3] = "ports"
  BY <1>1
<1>6. c.steps = <<s>>
  BY <1>3, CmdBuilt
<1>7. Len(c.steps) = 1 /\ c.steps[1] = s
  BY <1>6
<1>8. <<"DELETE", path>> \in CmdRouted
  BY <1>1, CmdOtherRoutes
<1>9. CmdShape(c)
  BY <1>4, <1>5, <1>7, <1>8 DEF CmdShape, CmdKinds, CmdRepeats, CmdMayDelete, CmdHasRoute
<1> QED BY <1>1, <1>2, <1>3, <1>9

\* A streamed exec and the buffered one that may take its place.
LEMMA CmdStreamShape ==
  CmdShape(CmdPlain(<<CmdStep("stream", "GET", <<"vms", CmdVm, "exec", "stream">>),
                      CmdStep("instead", "POST", CmdOn("vms", "exec"))>>))
<1>1. PICK p, q : p = <<"vms", CmdVm, "exec", "stream">> /\ q = <<"vms", CmdVm, "exec">>
  OBVIOUS
<1>2. PICK s, t : s = CmdStep("stream", "GET", p) /\ t = CmdStep("instead", "POST", q)
  OBVIOUS
<1>3. PICK c : c = CmdPlain(<<s, t>>)
  OBVIOUS
<1>4. /\ s.kind = "stream" /\ s.method = "GET" /\ s.path = p
      /\ t.kind = "instead" /\ t.method = "POST" /\ t.path = q
  BY <1>2 DEF CmdStep
<1>5. c.steps = <<s, t>>
  BY <1>3, CmdBuilt
<1>6. Len(c.steps) = 2 /\ c.steps[1] = s /\ c.steps[2] = t
  BY <1>5
<1>7. <<"GET", p>> \in CmdRouted /\ <<"POST", q>> \in CmdRouted
  BY <1>1, CmdOtherRoutes, CmdVerbRoutes
<1>8. ASSUME NEW i \in 1..2
      PROVE  /\ c.steps[i].kind \in CmdKinds
             /\ c.steps[i].kind = "stream" => i < 2 /\ c.steps[i + 1].kind = "instead"
             /\ c.steps[i].kind = "instead" => i > 1 /\ c.steps[i - 1].kind = "stream"
             /\ c.steps[i].kind = "follow" => i = 2
             /\ CmdRepeats(c.steps[i]) => c.steps[i].method = "GET"
             /\ CmdDestroying(c.steps[i]) => CmdMayDelete(c, i)
             /\ CmdHasRoute(c.steps[i])
  <2>1. CASE i = 1  BY <2>1, <1>4, <1>6, <1>7 DEF CmdKinds, CmdRepeats, CmdDestroying, CmdHasRoute
  <2>2. CASE i = 2  BY <2>2, <1>4, <1>6, <1>7 DEF CmdKinds, CmdRepeats, CmdDestroying, CmdHasRoute
  <2> QED BY <2>1, <2>2
<1>9. CmdShape(c)
  BY <1>6, <1>8 DEF CmdShape
<1> QED BY <1>1, <1>2, <1>3, <1>9 DEF CmdOn

\* Pages of events until the session has ended.
LEMMA CmdFollowShape ==
  CmdShape(CmdText(<<CmdStep("follow", "GET", <<"vms", CmdVm, "sessions", "id", "events">>)>>))
<1>1. PICK p : p = <<"vms", CmdVm, "sessions", "id", "events">>
  OBVIOUS
<1>2. PICK s : s = CmdStep("follow", "GET", p)
  OBVIOUS
<1>3. PICK c : c = CmdText(<<s>>)
  OBVIOUS
<1>4. s.kind = "follow" /\ s.method = "GET" /\ s.path = p
  BY <1>2 DEF CmdStep
<1>5. c.steps = <<s>>
  BY <1>3, CmdBuilt
<1>6. Len(c.steps) = 1 /\ c.steps[1] = s
  BY <1>5
<1>7. <<"GET", p>> \in CmdRouted
  BY <1>1, CmdOtherRoutes
<1>8. CmdShape(c)
  BY <1>4, <1>6, <1>7 DEF CmdShape, CmdKinds, CmdRepeats, CmdDestroying, CmdHasRoute
<1> QED BY <1>1, <1>2, <1>3, <1>8

\* A program followed by another.
LEMMA CmdConcat ==
  ASSUME NEW S, NEW p \in Seq(S), NEW q \in Seq(S)
  PROVE  /\ p \o q \in Seq(S) /\ Len(p \o q) = Len(p) + Len(q)
         /\ \A i \in 1..Len(p) : (p \o q)[i] = p[i]
         /\ \A i \in 1..Len(q) : (p \o q)[Len(p) + i] = q[i]
<1>1. PICK w : w = p \o q
  OBVIOUS
<1>2. w \in Seq(S) /\ Len(w) = Len(p) + Len(q)
  BY <1>1, ConcatProperties
<1>3. Len(p) \in Nat /\ Len(q) \in Nat
  BY LenProperties
<1>4. \A i \in 1..(Len(p) + Len(q)) : w[i] = IF i <= Len(p) THEN p[i] ELSE q[i - Len(p)]
  BY <1>1, ConcatProperties
<1>5. ASSUME NEW i \in 1..Len(p) PROVE w[i] = p[i]
  BY <1>3, <1>4
<1>6. ASSUME NEW i \in 1..Len(q) PROVE w[Len(p) + i] = q[i]
  <2>1. PICK k : k = Len(p) + i
    OBVIOUS
  <2>2. k \in 1..(Len(p) + Len(q)) /\ ~(k <= Len(p)) /\ k - Len(p) = i
    BY <1>3, <2>1
  <2> QED BY <1>4, <2>1, <2>2
<1> QED BY <1>1, <1>2, <1>5, <1>6

\* dev prepare deletes the VM it has created itself.
LEMMA CmdPrepareShape ==
  CmdShape(CmdPlain(<<CmdStep("absent", "GET", <<"images", CmdVm>>)>> \o CmdCreate
            \o <<CmdScript, CmdScript, CmdScript, CmdScript, CmdMust("POST", CmdOn("vms", "stop")),
                 CmdMust("POST", CmdOn("vms", "commit-image")),
                 CmdMust("DELETE", <<"vms", CmdVm>>)>>))
<1>1. PICK a, s, x, y, d :
        /\ a = CmdStep("absent", "GET", <<"images", CmdVm>>) /\ s = CmdScript
        /\ x = CmdMust("POST", <<"vms", CmdVm, "stop">>)
        /\ y = CmdMust("POST", <<"vms", CmdVm, "commit-image">>)
        /\ d = CmdMust("DELETE", <<"vms", CmdVm>>)
  OBVIOUS
<1>2. a \in CmdSimple /\ s \in CmdSimple
  BY <1>1, CmdOtherSteps
<1>3. x \in CmdSimple /\ y \in CmdSimple
  BY <1>1, CmdVerbRoutes, CmdMustStep
<1>4. /\ d.kind = "must" /\ d.method = "DELETE"
      /\ CmdHasRoute(d)
  <2>1. d.kind = "must" /\ d.method = "DELETE" /\ d.path = <<"vms", CmdVm>>
    BY <1>1 DEF CmdMust, CmdStep
  <2> QED BY <2>1, CmdResourceRoutes DEF CmdHasRoute
<1>5. PICK m : m = CmdMust("POST", <<"vms">>)
  OBVIOUS
<1>6. m.kind = "must" /\ m.path = <<"vms">>
  BY <1>5 DEF CmdMust, CmdStep
<1>7. PICK u, p : u = <<a>> /\ p = u \o CmdCreate
  OBVIOUS
<1>8. p \in Seq(CmdSimple) /\ Len(p) = 3 /\ p[3] = m
  <2>1. u \in Seq(CmdSimple) /\ Len(u) = 1
    BY <1>2, <1>7
  <2>2. CmdCreate \in Seq(CmdSimple) /\ Len(CmdCreate) = 2 /\ CmdCreate[2] = m
    BY <1>5, CmdParts
  <2>3. p \in Seq(CmdSimple) /\ Len(p) = 1 + 2 /\ \A i \in 1..2 : p[1 + i] = CmdCreate[i]
    <3>1. /\ p \in Seq(CmdSimple) /\ Len(p) = Len(u) + Len(CmdCreate)
          /\ \A i \in 1..Len(CmdCreate) : p[Len(u) + i] = CmdCreate[i]
      BY <1>7, <2>1, <2>2, CmdConcat
    <3> QED BY <3>1, <2>1, <2>2
  <2>4. p[1 + 2] = CmdCreate[2]
    BY <2>3
  <2> QED BY <2>2, <2>3, <2>4
<1>9. PICK T : T = CmdSimple \cup {d}
  OBVIOUS
<1>10. PICK q : q = <<s, s, s, s, x, y, d>>
  OBVIOUS
<1>11. q \in Seq(T) /\ Len(q) = 7 /\ q[7] = d /\ \A i \in 1..6 : q[i] \in CmdSimple
  BY <1>2, <1>3, <1>9, <1>10
<1>12. p \in Seq(T) /\ \A i \in 1..3 : p[i] \in CmdSimple
  <2>1. \A i \in 1..3 : p[i] \in CmdSimple
    BY <1>8, ElementOfSeq
  <2> QED BY <1>8, <1>9, <2>1
<1>13. PICK w : w = p \o q
  OBVIOUS
<1>14. Len(w) = 10 /\ w[3] = m /\ w[10] = d /\ \A i \in 1..9 : w[i] \in CmdSimple
  <2>1. /\ Len(w) = 3 + 7 /\ \A i \in 1..3 : w[i] = p[i]
        /\ \A i \in 1..7 : w[3 + i] = q[i]
    <3>1. /\ Len(w) = Len(p) + Len(q) /\ \A i \in 1..Len(p) : w[i] = p[i]
          /\ \A i \in 1..Len(q) : w[Len(p) + i] = q[i]
      <4>1. p \in Seq(T) /\ q \in Seq(T)
        BY <1>11, <1>12
      <4>2. /\ Len(p \o q) = Len(p) + Len(q) /\ \A i \in 1..Len(p) : (p \o q)[i] = p[i]
            /\ \A i \in 1..Len(q) : (p \o q)[Len(p) + i] = q[i]
        BY <4>1, CmdConcat
      <4> QED BY <4>2, <1>13
    <3> QED BY <3>1, <1>8, <1>11
  <2>2. ASSUME NEW i \in 1..9 PROVE w[i] \in CmdSimple
    <3>1. CASE i <= 3  BY <2>1, <3>1, <1>12
    <3>2. CASE i > 3
      <4>1. PICK k \in 1..6 : i = 3 + k  BY <3>2
      <4> QED BY <4>1, <2>1, <1>11
    <3> QED BY <3>1, <3>2
  <2>3. w[3] = m /\ w[3 + 7] = d
    BY <2>1, <1>8, <1>11
  <2> QED BY <2>1, <2>2, <2>3
<1>15. PICK c : c = CmdPlain(w)
  OBVIOUS
<1>16. c.steps = w
  BY <1>15, CmdBuilt
<1>17. ASSUME NEW i \in 1..10
       PROVE  /\ w[i].kind \in CmdKinds /\ w[i].kind \notin {"stream", "instead", "follow"}
              /\ CmdRepeats(w[i]) => w[i].method = "GET"
              /\ CmdDestroying(w[i]) => i = 10
              /\ CmdHasRoute(w[i])
  <2>1. CASE i = 10  BY <2>1, <1>4, <1>14 DEF CmdKinds, CmdRepeats
  <2>2. CASE i # 10
    <3>1. w[i] \in CmdSimple  BY <2>2, <1>14
    <3> QED BY <3>1, <2>2 DEF CmdSimple, CmdRepeats, CmdDestroying
  <2> QED BY <2>1, <2>2
<1>18. CmdMayDelete(c, 10)
  <2>1. 3 \in 1..(10 - 1) /\ c.steps[3].path = <<"vms">> /\ c.steps[3].kind = "must"
    BY <1>6, <1>14, <1>16
  <2> QED BY <2>1 DEF CmdMayDelete
<1>19. Len(c.steps) = 10 /\ \A i \in 1..10 : c.steps[i] = w[i]
  BY <1>14, <1>16
<1>20. CmdShape(c)
  BY <1>17, <1>18, <1>19 DEF CmdShape
<1> QED BY <1>1, <1>7, <1>10, <1>13, <1>15, <1>20 DEF CmdOn

\* The commands about VMs (run, list, info, the state changes, balloon, cp, logs,
\* wait, shell).
LEMMA CmdVmShapes ==
  ASSUME NEW c \in UNION {CmdRuns, CmdLists, CmdInfos, CmdStates, CmdForks, CmdDestroys,
                          CmdBalloons, CmdExecs, CmdCopies, CmdLogs, CmdWaits, CmdShells}
  PROVE  CmdShape(c)
<1>1. \A verb \in {"stop", "pause", "resume", "suspend", "fork"} :
        CmdMust("POST", <<"vms", CmdVm, verb>>) \in CmdSimple
  BY CmdVerbRoutes, CmdMustStep
<1>2. \A verb \in {"logs", "shell", "guest-info"} :
        CmdMust("GET", <<"vms", CmdVm, verb>>) \in CmdSimple
  BY CmdVerbRoutes, CmdMustStep
<1>3. CmdMust("GET", <<"vms">>) \in CmdSimple /\ CmdMust("GET", <<"vms", CmdVm>>) \in CmdSimple
  BY CmdResourceRoutes, CmdMustStep
<1>4. /\ CmdMust("PUT", <<"vms", CmdVm, "balloon">>) \in CmdSimple
      /\ CmdMust("POST", <<"vms", CmdVm, "files", "write">>) \in CmdSimple
      /\ CmdMust("POST", <<"vms", CmdVm, "files", "read">>) \in CmdSimple
  BY CmdOtherRoutes, CmdMustStep
<1>5. CASE c \in CmdRuns
  <2>1. /\ CmdCreate \o <<CmdReady>> \in Seq(CmdSimple)
        /\ CmdCreate \o <<CmdReady>> \o CmdHosts \in Seq(CmdSimple)
    <3>1. <<CmdReady>> \in Seq(CmdSimple)  BY CmdOtherSteps
    <3>2. CmdCreate \o <<CmdReady>> \in Seq(CmdSimple)  BY <3>1, CmdParts, CmdConcat
    <3> QED BY <3>2, CmdParts, CmdConcat
  <2> QED BY <1>5, <2>1, CmdParts, CmdPlainShape DEF CmdRuns
<1>6. CASE c \in CmdLists \cup CmdInfos
  BY <1>3, <1>6, CmdOtherSteps, CmdShortShape DEF CmdLists, CmdInfos
<1>7. CASE c \in CmdStates
  BY <1>1, <1>7, CmdShortShape DEF CmdStates, CmdOn
<1>8. CASE c \in CmdForks
  <2>1. CmdPreflight \in CmdSimple  BY CmdOtherSteps
  <2> QED BY <1>1, <1>8, <2>1, CmdShortShape DEF CmdForks, CmdOn
<1>9. CASE c \in CmdDestroys
  <2>1. <<"DELETE", <<"vms", CmdVm>>>> \in CmdRouted  BY CmdResourceRoutes
  <2> QED BY <1>9, <2>1, CmdConfirmedShape DEF CmdDestroys
<1>10. CASE c \in CmdBalloons
  BY <1>4, <1>10, CmdShortShape DEF CmdBalloons, CmdOn
<1>11. CASE c \in CmdExecs
  <2>1. CmdStep("exec", "POST", CmdOn("vms", "exec")) \in CmdSimple  BY CmdOtherSteps DEF CmdOn
  <2> QED BY <1>11, <2>1, CmdStreamShape, CmdShortShape DEF CmdExecs
<1>12. CASE c \in CmdCopies
  <2>1. PICK h, g, w, r : /\ h = CmdLocal("HERE") /\ g = CmdMust("GET", <<"vms", CmdVm, "guest-info">>)
                       /\ w = CmdMust("POST", <<"vms", CmdVm, "files", "write">>)
                       /\ r = CmdMust("POST", <<"vms", CmdVm, "files", "read">>)
    OBVIOUS
  <2>2. h \in CmdSimple /\ g \in CmdSimple /\ w \in CmdSimple /\ r \in CmdSimple
    BY <1>2, <1>4, <2>1, CmdHereSteps
  <2>3. c \in {CmdPlain(<<h, w>>), CmdPlain(<<h, g, w, w>>), CmdPlain(<<r, h>>)}
    BY <1>12, <2>1 DEF CmdCopies, CmdOn
  <2> QED BY <2>2, <2>3, CmdShortShape
<1>13. CASE c \in CmdLogs
  BY <1>2, <1>13, CmdShortShape DEF CmdLogs, CmdOn
<1>14. CASE c \in CmdWaits
  <2>1. CmdReady \in CmdSimple  BY CmdOtherSteps
  <2> QED BY <1>3, <1>14, <2>1, CmdShortShape DEF CmdWaits
<1>15. CASE c \in CmdShells
  <2>1. PICK a, b : a = CmdStep("state", "GET", <<"vms", CmdVm>>)
                    /\ b = CmdMust("GET", <<"vms", CmdVm, "shell">>)
    OBVIOUS
  <2>2. <<a, b>> \in Seq(CmdSimple)
    BY <1>2, <2>1, CmdOtherSteps
  <2>3. c.steps = <<a, b>>
    BY <1>15, <2>1 DEF CmdShells, CmdOn, CmdGated
  <2> QED BY <2>2, <2>3, CmdSimpleShape
<1> QED BY <1>5, <1>6, <1>7, <1>8, <1>9, <1>10, <1>11, <1>12, <1>13, <1>14, <1>15

\* The commands about the daemon and its other resources.
LEMMA CmdResourceShapes ==
  ASSUME NEW c \in UNION {CmdVersions, CmdProfiles, CmdDoctors, CmdSetups, CmdGroups, CmdPools,
                          CmdServices, CmdSnapshots, CmdImages, CmdOciImports, CmdPulls,
                          CmdVolumes, CmdSecrets}
  PROVE  CmdShape(c)
<1>1. /\ CmdMust("POST", <<"services", CmdVm, "scale">>) \in CmdSimple
      /\ CmdMust("POST", <<"snapshots", CmdVm, "restore">>) \in CmdSimple
      /\ CmdMust("POST", <<"images", CmdVm, "export">>) \in CmdSimple
      /\ CmdMust("POST", <<"secrets", CmdVm, "rotate">>) \in CmdSimple
      /\ CmdMust("GET", <<"secrets", CmdVm, "reveal">>) \in CmdSimple
  BY CmdVerbRoutes, CmdMustStep
<1>2. CmdMust("POST", <<"images", "import-oci">>) \in CmdSimple
  BY CmdOtherRoutes, CmdMustStep
<1>3. CASE c \in CmdVersions \cup CmdProfiles \cup CmdDoctors
  BY <1>3, CmdOtherSteps, CmdShortShape DEF CmdVersions, CmdProfiles, CmdDoctors
<1>4. CASE c \in CmdSetups \cup CmdPulls
  <2>1. PICK h : h = CmdLocal("HERE")
    OBVIOUS
  <2>2. h \in CmdSimple
    BY <2>1, CmdHereSteps
  <2>3. <<h>> \in Seq(CmdSimple) /\ <<h, h, h, h>> \in Seq(CmdSimple)
    BY <2>2
  <2>4. c.steps \in {<<h>>, <<h, h, h, h>>}
          \cup {<<h, h, CmdConsented, CmdLocal("REPLACE"), CmdLocal("REPLACE")>>}
    BY <1>4, <2>1 DEF CmdSetups, CmdPulls, CmdGated
  <2> QED BY <2>1, <2>3, <2>4, CmdSimpleShape, CmdSetupShape
<1>5. CASE c \in CmdNamed("host-groups") \cup CmdNamed("pools") \cup CmdNamed("services")
                 \cup CmdNamed("snapshots") \cup CmdNamed("images") \cup CmdNamed("volumes")
                 \cup CmdNamed("secrets")
  BY <1>5, CmdNamedShape
<1>6. CASE c = CmdPlain(CmdCheckout)
  BY <1>6, CmdParts, CmdPlainShape
<1>7. CASE c \in CmdScales
  BY <1>1, <1>7, CmdShortShape DEF CmdScales, CmdOn
<1>8. CASE c = CmdPlain(<<CmdMust("POST", CmdOn("snapshots", "restore"))>>)
  BY <1>1, <1>8, CmdShortShape DEF CmdOn
<1>9. CASE c = CmdPlain(<<CmdMust("POST", CmdOn("images", "export"))>>)
  BY <1>1, <1>9, CmdShortShape DEF CmdOn
<1>10. CASE c \in {CmdPlain(<<CmdMust("GET", CmdOn("secrets", "reveal"))>>),
                   CmdPlain(<<CmdMust("POST", CmdOn("secrets", "rotate"))>>)}
  BY <1>1, <1>10, CmdShortShape DEF CmdOn
<1>11. CASE c \in CmdOciImports
  <2>1. CmdPreflight \in CmdSimple  BY CmdOtherSteps
  <2> QED BY <1>2, <1>11, <2>1, CmdShortShape DEF CmdOciImports
<1> QED BY <1>3, <1>4, <1>5, <1>6, <1>7, <1>8, <1>9, <1>10, <1>11
    DEF CmdGroups, CmdPools, CmdServices, CmdSnapshots, CmdImages, CmdVolumes, CmdSecrets

\* The commands about ports, sessions, development VMs and previews.
LEMMA CmdGuestShapes ==
  ASSUME NEW c \in UNION {CmdPorts, CmdSessions, CmdEvents, CmdDevs, CmdPreviews}
  PROVE  CmdShape(c)
<1>1. \A verb \in {"ports", "sessions"} :
        /\ CmdMust("POST", <<"vms", CmdVm, verb>>) \in CmdSimple
        /\ CmdMust("GET", <<"vms", CmdVm, verb>>) \in CmdSimple
  BY CmdVerbRoutes, CmdMustStep
<1>2. /\ CmdMust("GET", <<"vms", CmdVm, "sessions", "id">>) \in CmdSimple
      /\ CmdMust("POST", <<"vms", CmdVm, "sessions", "id", "cancel">>) \in CmdSimple
      /\ CmdMust("GET", <<"vms", CmdVm, "sessions", "id", "events">>) \in CmdSimple
      /\ CmdMust("GET", <<"vms", CmdVm, "tunnel", "80">>) \in CmdSimple
  BY CmdOtherRoutes, CmdMustStep
<1>3. CASE c \in CmdPorts
  BY <1>1, <1>3, CmdPortDelete, CmdShortShape DEF CmdPorts, CmdOn
<1>4. CASE c \in CmdSessions
  <2>1. CmdShape(CmdConfirmed(<<"vms", CmdVm, "sessions", "id">>))
    BY CmdOtherRoutes, CmdConfirmedShape
  <2> QED BY <1>1, <1>2, <1>4, <2>1, CmdShortShape DEF CmdSessions, CmdOn
<1>5. CASE c \in CmdEvents
  BY <1>2, <1>5, CmdFollowShape, CmdShortShape DEF CmdEvents
<1>6. CASE c \in CmdDevs
  <2>1. CmdScript \in CmdSimple  BY CmdOtherSteps
  <2>2. <<CmdScript, CmdScript>> \in Seq(CmdSimple)  BY <2>1
  <2>3. CmdCreate \o <<CmdScript, CmdScript>> \in Seq(CmdSimple)  BY <2>2, CmdParts, CmdConcat
  <2>4. CmdShape(CmdPlain(CmdCreate \o <<CmdScript, CmdScript>>))  BY <2>3, CmdPlainShape
  <2>5. CmdShape(CmdPlain(<<CmdScript>>))  BY <2>1, CmdShortShape
  <2> QED BY <1>6, <2>4, <2>5, CmdPrepareShape DEF CmdDevs
<1>7. CASE c \in CmdPreviews
  BY <1>2, <1>7, CmdHereSteps, CmdShortShape DEF CmdPreviews
<1> QED BY <1>3, <1>4, <1>5, <1>6, <1>7

\* Every command has the shape.
LEMMA CmdAllShape ==
  ASSUME NEW c \in CmdAll
  PROVE  CmdShape(c)
<1>1. \/ c \in UNION {CmdRuns, CmdLists, CmdInfos, CmdStates, CmdForks, CmdDestroys,
                      CmdBalloons, CmdExecs, CmdCopies, CmdLogs, CmdWaits, CmdShells}
      \/ c \in UNION {CmdVersions, CmdProfiles, CmdDoctors, CmdSetups, CmdGroups, CmdPools,
                      CmdServices, CmdSnapshots, CmdImages, CmdOciImports, CmdPulls,
                      CmdVolumes, CmdSecrets}
      \/ c \in UNION {CmdPorts, CmdSessions, CmdEvents, CmdDevs, CmdPreviews}
  BY DEF CmdAll
<1> QED BY <1>1, CmdVmShapes, CmdResourceShapes, CmdGuestShapes

-----------------------------------------------------------------------------
(* Running one. *)

\* The steps a command cannot do without.
CmdNeeded == {"must", "state", "exec", "poll", "local", "follow", "consent"}
CmdSays == CmdAnswers \cup {"none"}

\* What is known of a request the command has left behind.
CmdDone(c, did, said, i) ==
  /\ c.steps[i].kind \in CmdNeeded => said[i] = "ok"
  /\ c.steps[i].kind = "must" => did[i] = 1
  /\ c.steps[i].kind = "instead" => said[i - 1] = "ok" \/ said[i] = "ok"
  /\ c.steps[i].kind = "absent" => said[i] = "missing"
  /\ c.steps[i].kind = "list" => said[i] \in {"ok", "lost"}

\* What is known of each request of a command that is at request `at`.
CmdKnown(c, at, did, said, exit, i) ==
  /\ i > at => did[i] = 0
  /\ i = at /\ exit = "none" => did[i] = 0 \/ CmdRepeats(c.steps[i])
  /\ i < at => CmdDone(c, did, said, i)
  /\ did[i] > 1 => CmdRepeats(c.steps[i])
  /\ c.steps[i].kind = "stream" => did[i] + did[i + 1] <= 1
  /\ c.steps[i].kind = "instead" /\ i = at /\ exit = "none" => did[i - 1] = 0

CmdHist(c, at, did, said, exit) ==
  /\ at \in Nat /\ did \in [1..Len(c.steps) -> Nat] /\ said \in [1..Len(c.steps) -> CmdSays]
  /\ exit \in {"none", "zero", "nonzero"}
  /\ \A i \in 1..Len(c.steps) : CmdKnown(c, at, did, said, exit, i)
  /\ exit = "zero" => \/ at > Len(c.steps)
                      \/ /\ at \in 1..Len(c.steps) /\ c.steps[at].kind = "follow"
                         /\ said[at] = "denied"

\* What was agreed to, and where.
CmdAsked(c, said, agreed, consent) ==
  /\ agreed => consent
  /\ \A i \in 1..Len(c.steps) : c.steps[i].kind = "consent" /\ said[i] = "ok" => agreed

\* A poll that goes on was last told to.
CmdPolled(at, polls, said, exit) ==
  /\ polls \in Nat /\ (at = 0 => polls = 0)
  /\ polls > 0 /\ exit = "none" => said[at] = "denied"

CmdInv ==
  /\ CmdShape(cmdRun)
  /\ CmdHist(cmdRun, cmdAt, cmdDid, cmdSaid, cmdExit)
  /\ CmdAsked(cmdRun, cmdSaid, cmdAgreed, cmdConsent)
  /\ CmdPolled(cmdAt, cmdPolls, cmdSaid, cmdExit)
  /\ cmdRun.here /\ cmdRemote => cmdExit = "nonzero" /\ cmdAt = 0

\* The shape of one request.
LEMMA CmdPaired ==
  ASSUME NEW c, CmdShape(c), NEW n, n = Len(c.steps), NEW i \in 1..n
  PROVE  /\ n \in Nat /\ c.steps[i].kind \in CmdKinds
         /\ c.steps[i].kind = "stream" => i + 1 \in 1..n /\ c.steps[i + 1].kind = "instead"
         /\ c.steps[i].kind = "instead" => i - 1 \in 1..n /\ c.steps[i - 1].kind = "stream"
         /\ c.steps[i].kind = "follow" => i = n
         /\ CmdRepeats(c.steps[i]) => c.steps[i].method = "GET"
         /\ CmdDestroying(c.steps[i]) => CmdMayDelete(c, i)
         /\ CmdHasRoute(c.steps[i])
<1>1. n \in Nat
  BY DEF CmdShape
<1>2. /\ c.steps[i].kind \in CmdKinds
      /\ c.steps[i].kind = "stream" => i < n /\ c.steps[i + 1].kind = "instead"
      /\ c.steps[i].kind = "instead" => i > 1 /\ c.steps[i - 1].kind = "stream"
      /\ c.steps[i].kind = "follow" => i = n
      /\ CmdRepeats(c.steps[i]) => c.steps[i].method = "GET"
      /\ CmdDestroying(c.steps[i]) => CmdMayDelete(c, i)
      /\ CmdHasRoute(c.steps[i])
  BY Zenon DEF CmdShape
<1>3. i < n => i + 1 \in 1..n
  BY <1>1
<1>4. i > 1 => i - 1 \in 1..n
  BY <1>1
<1> QED BY <1>1, <1>2, <1>3, <1>4, Zenon

\* The two forms of an exec stand next to each other.
CmdPairs(c) ==
  \A i \in 1..Len(c.steps) :
    /\ c.steps[i].kind \in CmdKinds
    /\ c.steps[i].kind = "stream" => i + 1 \in 1..Len(c.steps) /\ c.steps[i + 1].kind = "instead"
    /\ c.steps[i].kind = "instead" => i - 1 \in 1..Len(c.steps) /\ c.steps[i - 1].kind = "stream"

\* So they do in every command.
LEMMA CmdShapePairs ==
  ASSUME NEW c, CmdShape(c)
  PROVE  CmdPairs(c) /\ Len(c.steps) \in Nat
<1>1. Len(c.steps) \in Nat
  BY DEF CmdShape
<1>2. PICK n : n = Len(c.steps)
  OBVIOUS
<1>3. ASSUME NEW i \in 1..n
      PROVE  /\ c.steps[i].kind \in CmdKinds
             /\ c.steps[i].kind = "stream" => i + 1 \in 1..n /\ c.steps[i + 1].kind = "instead"
             /\ c.steps[i].kind = "instead" => i - 1 \in 1..n /\ c.steps[i - 1].kind = "stream"
  <2>1. c.steps[i].kind \in CmdKinds
    BY <1>2, CmdPaired, Zenon
  <2>2. /\ c.steps[i].kind = "stream" => i < n /\ c.steps[i + 1].kind = "instead"
        /\ c.steps[i].kind = "instead" => i > 1 /\ c.steps[i - 1].kind = "stream"
    BY <1>2, Zenon DEF CmdShape
  <2>3. (i < n => i + 1 \in 1..n) /\ (i > 1 => i - 1 \in 1..n)
    BY <1>1, <1>2
  <2> QED BY <2>1, <2>2, <2>3, Zenon
<1> QED BY <1>1, <1>2, <1>3 DEF CmdPairs

\* A command that has not sent anything.
LEMMA CmdFresh ==
  ASSUME NEW c, CmdShape(c), NEW at \in {0, 1}, NEW exit \in {"none", "zero", "nonzero"},
         exit = "zero" => at > Len(c.steps)
  PROVE  CmdHist(c, at, [i \in 1..Len(c.steps) |-> 0], [i \in 1..Len(c.steps) |-> "none"], exit)
<1>1. PICK n \in Nat : n = Len(c.steps)
  BY DEF CmdShape
<1>2. PICK did, said : did = [i \in 1..n |-> 0] /\ said = [i \in 1..n |-> "none"]
  OBVIOUS
<1>3. did \in [1..n -> Nat] /\ said \in [1..n -> CmdSays] /\ \A i \in 1..n : did[i] = 0
  BY <1>2 DEF CmdSays
<1>4. ASSUME NEW i \in 1..n PROVE CmdKnown(c, at, did, said, exit, i)
  <2>1. c.steps[i].kind = "stream" => i + 1 \in 1..n
    BY <1>1, CmdPaired, Zenon
  <2>2. c.steps[i].kind = "instead" => i - 1 \in 1..n
    BY <1>1, CmdPaired, Zenon
  <2>3. ~(i < at)
    OBVIOUS
  <2> QED BY <1>3, <2>1, <2>2, <2>3 DEF CmdKnown
<1>5. CmdHist(c, at, did, said, exit)
  BY <1>1, <1>3, <1>4 DEF CmdHist
<1> QED BY <1>1, <1>2, <1>5

\* Init.
LEMMA CmdInitInv ==
  ASSUME CmdInit
  PROVE  CmdInv
<1>1. <<>> \in Seq(CmdSimple)
  OBVIOUS
<1>2. PICK c : c = CmdPlain(<<>>)
  OBVIOUS
<1>3. c.steps = <<>>
  BY <1>2, CmdBuilt
<1>4. CmdShape(c)
  BY <1>1, <1>2, CmdPlainShape
<1>5. Len(c.steps) = 0
  BY <1>3
<1>6. CmdHist(c, 0, [i \in 1..Len(c.steps) |-> 0], [i \in 1..Len(c.steps) |-> "none"], "none")
  BY <1>4, CmdFresh
<1>7. [i \in 1..Len(c.steps) |-> 0] = <<>> /\ [i \in 1..Len(c.steps) |-> "none"] = <<>>
  BY <1>5
<1>8. /\ cmdRun = c /\ cmdAt = 0 /\ cmdDid = <<>> /\ cmdSaid = <<>> /\ cmdExit = "none"
      /\ cmdRemote = FALSE /\ cmdAgreed = FALSE /\ cmdPolls = 0
  BY <1>2 DEF CmdInit
<1>9. CmdHist(cmdRun, cmdAt, cmdDid, cmdSaid, cmdExit)
  BY <1>6, <1>7, <1>8
<1>10. CmdAsked(cmdRun, cmdSaid, cmdAgreed, cmdConsent)
  BY <1>5, <1>8 DEF CmdAsked
<1>11. CmdPolled(cmdAt, cmdPolls, cmdSaid, cmdExit)
  BY <1>8 DEF CmdPolled
<1> QED BY <1>4, <1>8, <1>9, <1>10, <1>11 DEF CmdInv

\* Starting: the operator agreed to what has to be agreed to, and a command of
\* this machine is refused for a remote daemon.
LEMMA CmdStartInv ==
  ASSUME CmdInv, NEW c \in CmdAll, NEW a \in CmdAsks, NEW answer \in BOOLEAN, NEW up \in BOOLEAN,
         CmdStart(c, a, answer, up)
  PROVE  CmdInv'
<1>1. CmdShape(c)
  BY CmdAllShape
<1>2. Len(c.steps) \in Nat
  BY <1>1 DEF CmdShape
<1>3. /\ cmdRun' = c /\ (cmdRemote' <=> a.remote) /\ (cmdAgreed' => cmdConsent')
      /\ cmdDid' = [i \in 1..Len(c.steps) |-> 0] /\ cmdSaid' = [i \in 1..Len(c.steps) |-> "none"]
      /\ cmdPolls' = 0
  <2>1. cmdPolls = 0
    BY DEF CmdStart, CmdInv, CmdPolled
  <2> QED BY <2>1 DEF CmdStart, CmdAgrees
<1>4. PICK at \in {0, 1}, exit \in {"none", "nonzero"} :
        /\ cmdAt' = at /\ cmdExit' = exit
        /\ CmdRefused(c, a) => at = 0 /\ exit = "nonzero"
  BY DEF CmdStart
<1>5. CmdHist(c, at, [i \in 1..Len(c.steps) |-> 0], [i \in 1..Len(c.steps) |-> "none"], exit)
  BY <1>1, CmdFresh
<1>6. CmdHist(cmdRun', cmdAt', cmdDid', cmdSaid', cmdExit')
  BY <1>3, <1>4, <1>5
<1>7. CmdAsked(cmdRun', cmdSaid', cmdAgreed', cmdConsent')
  <2>1. PICK said : said = [i \in 1..Len(c.steps) |-> "none"]
    OBVIOUS
  <2>2. \A i \in 1..Len(c.steps) : said[i] # "ok"
    BY <2>1
  <2>3. cmdSaid' = said
    BY <1>3, <2>1
  <2> QED BY <1>3, <2>2, <2>3 DEF CmdAsked
<1>8. CmdPolled(cmdAt', cmdPolls', cmdSaid', cmdExit')
  BY <1>3 DEF CmdPolled
<1>9. c.here /\ cmdRemote' => cmdExit' = "nonzero" /\ cmdAt' = 0
  BY <1>3, <1>4 DEF CmdRefused
<1> QED BY <1>1, <1>3, <1>6, <1>7, <1>8, <1>9 DEF CmdInv

\* What the verdict on an outcome says of the request and its outcome.
LEMMA CmdVerdictMeans ==
  ASSUME NEW kind \in CmdKinds, NEW o, NEW v, v = CmdVerdict(kind, o)
  PROVE  /\ v \in {"next", "skip", "again", "fail"}
         /\ v = "next" /\ kind \in CmdNeeded \cup {"instead"} => o = "ok"
         /\ v = "next" /\ kind = "absent" => o = "missing"
         /\ v = "next" /\ kind = "list" => o \in {"ok", "lost"}
         /\ v = "next" /\ kind = "stream" => o = "missing"
         /\ v = "skip" => kind = "stream" /\ o = "ok"
         /\ v = "again" => kind \in {"poll", "follow"} /\ o = "denied"
<1>1. CASE kind \in {"must", "exec", "instead", "state", "local", "consent"}
  BY <1>1 DEF CmdVerdict
<1>2. CASE kind \in {"probe", "ask", "here", "gate"}
  BY <1>2 DEF CmdVerdict, CmdNeeded
<1>3. CASE kind \in {"absent", "poll", "follow"}
  BY <1>3 DEF CmdVerdict, CmdNeeded
<1>4. CASE kind \in {"stream", "list"}
  BY <1>4 DEF CmdVerdict, CmdNeeded
<1> QED BY <1>1, <1>2, <1>3, <1>4 DEF CmdKinds

\* The outcome o of request `at`, with verdict v, as it is recorded.
CmdRecord(c, n, at, did, said, v, o, more, did2, said2, at2, exit) ==
  LET k == c.steps[at].kind IN
  /\ CmdPairs(c) /\ n \in Nat /\ n = Len(c.steps) /\ at \in 1..n
  /\ CmdHist(c, at, did, said, "none")
  /\ v \in {"next", "skip", "again", "fail"}
  /\ v = "next" /\ k \in CmdNeeded \cup {"instead"} => o = "ok"
  /\ v = "next" /\ k = "absent" => o = "missing"
  /\ v = "next" /\ k = "list" => o \in {"ok", "lost"}
  /\ v = "next" /\ k = "stream" => o = "missing"
  /\ v = "skip" => k = "stream" /\ o = "ok"
  /\ v = "again" => k \in {"poll", "follow"} /\ o = "denied"
  /\ more \in {0, 1} /\ (o = "ok" => more = 1) /\ (o = "missing" => more = 0)
  /\ did2 \in [1..n -> Nat] /\ did2[at] = did[at] + more
  /\ \A i \in 1..n : i # at => did2[i] = did[i]
  /\ said2 \in [1..n -> CmdSays] /\ said2[at] = o
  /\ \A i \in 1..n : i # at => said2[i] = said[i]
  /\ at2 = IF v = "next" THEN at + 1 ELSE IF v = "skip" THEN at + 2 ELSE at
  /\ exit = IF v = "fail" THEN "nonzero" ELSE IF at2 > n THEN "zero" ELSE "none"

\* One answer, whatever the command does then: the requests it has left behind,
\* the one it was at and the one after keep what is known of them.
LEMMA CmdRecorded ==
  ASSUME NEW c, NEW n, NEW at, NEW did, NEW said, NEW v, NEW o, NEW more, NEW did2, NEW said2,
         NEW at2, NEW exit, CmdRecord(c, n, at, did, said, v, o, more, did2, said2, at2, exit)
  PROVE  CmdHist(c, at2, did2, said2, exit)
<1> PICK k : k = c.steps[at].kind
  OBVIOUS
<1> /\ CmdPairs(c) /\ n \in Nat /\ n = Len(c.steps) /\ at \in 1..n
    /\ CmdHist(c, at, did, said, "none")
    /\ v \in {"next", "skip", "again", "fail"}
    /\ v = "next" /\ k \in CmdNeeded \cup {"instead"} => o = "ok"
    /\ v = "next" /\ k = "absent" => o = "missing"
    /\ v = "next" /\ k = "list" => o \in {"ok", "lost"}
    /\ v = "next" /\ k = "stream" => o = "missing"
    /\ v = "skip" => k = "stream" /\ o = "ok"
    /\ v = "again" => k \in {"poll", "follow"} /\ o = "denied"
    /\ more \in {0, 1} /\ (o = "ok" => more = 1) /\ (o = "missing" => more = 0)
    /\ did2 \in [1..n -> Nat] /\ did2[at] = did[at] + more
    /\ \A i \in 1..n : i # at => did2[i] = did[i]
    /\ said2 \in [1..n -> CmdSays] /\ said2[at] = o
    /\ \A i \in 1..n : i # at => said2[i] = said[i]
    /\ at2 = IF v = "next" THEN at + 1 ELSE IF v = "skip" THEN at + 2 ELSE at
    /\ exit = IF v = "fail" THEN "nonzero" ELSE IF at2 > n THEN "zero" ELSE "none"
  BY DEF CmdRecord
<1>1. n \in Nat /\ at \in Nat /\ k \in CmdKinds
  <2>1. k \in CmdKinds
    BY DEF CmdPairs
  <2> QED BY <2>1
<1>2. /\ did \in [1..n -> Nat] /\ said \in [1..n -> CmdSays]
      /\ \A i \in 1..n : CmdKnown(c, at, did, said, "none", i)
  BY DEF CmdHist
<1>3. k = "stream" => c.steps[at + 1].kind = "instead"
  BY DEF CmdPairs
<1>7. did[at] = 0 \/ k \in {"poll", "follow"}
  BY <1>2 DEF CmdKnown, CmdRepeats
<1>4. at2 \in Nat /\ at2 >= at /\ exit \in {"none", "zero", "nonzero"}
  BY <1>1
<1>5. exit = "zero" => at2 > n
  <2>1. CASE v = "fail"  BY <2>1
  <2>2. CASE v # "fail"  BY <2>2
  <2> QED BY <2>1, <2>2
<1>6. ASSUME NEW i \in 1..n PROVE CmdKnown(c, at2, did2, said2, exit, i)
  <2>1. PICK ki : ki = c.steps[i].kind
    OBVIOUS
  <2>2. /\ ki = "stream" => i + 1 \in 1..n /\ c.steps[i + 1].kind = "instead"
        /\ ki = "instead" => i - 1 \in 1..n /\ c.steps[i - 1].kind = "stream"
    BY <2>1 DEF CmdPairs
  <2>3. CmdKnown(c, at, did, said, "none", i)
    BY <1>2
  <2>4. i \in Nat /\ did[i] \in Nat /\ did2[i] \in Nat /\ did[at] \in Nat
    <3>1. did[i] \in Nat /\ did2[i] \in Nat /\ did[at] \in Nat
      BY <1>2
    <3> QED BY <1>1, <3>1
  <2>5. i > at2 => did2[i] = 0
    BY <1>1, <1>4, <2>3, <2>4 DEF CmdKnown
  <2>6. i = at2 /\ exit = "none" => did2[i] = 0 \/ CmdRepeats(c.steps[i])
    <3>1. CASE at2 = at
      BY <1>1, <3>1 DEF CmdRepeats
    <3>2. CASE at2 # at
      BY <1>1, <1>4, <2>3, <2>4, <3>2 DEF CmdKnown
    <3> QED BY <3>1, <3>2
  <2>7. ASSUME i < at2 PROVE CmdDone(c, did2, said2, i)
    <3>1. CASE i < at
      <4>1. CmdDone(c, did, said, i)
        BY <2>3, <3>1 DEF CmdKnown
      <4>2. did2[i] = did[i] /\ said2[i] = said[i]
        BY <1>1, <2>4, <3>1, SMTT(30)
      <4>3. ki = "instead" => said2[i - 1] = said[i - 1]
        BY <1>1, <2>2, <2>4, <3>1
      <4> QED BY <2>1, <4>1, <4>2, <4>3 DEF CmdDone
    <3>2. CASE i = at /\ v = "next"
      <4>1. k \in CmdNeeded \cup {"instead"} => said2[i] = "ok"
        BY <3>2
      <4>2. (k = "absent" => said2[i] = "missing") /\ (k = "list" => said2[i] \in {"ok", "lost"})
        BY <3>2
      <4>3. k = "must" => did2[i] = 1
        BY <1>7, <3>2 DEF CmdNeeded
      <4> QED BY <3>2, <4>1, <4>2, <4>3 DEF CmdDone
    <3>3. CASE i = at /\ v = "skip"
      BY <3>3 DEF CmdDone, CmdNeeded
    <3>4. CASE i = at + 1 /\ v = "skip"
      <4>1. c.steps[at + 1].kind = "instead"
        BY <1>3, <3>4
      <4>2. said2[at] = "ok" /\ i - 1 = at
        BY <1>1, <3>4
      <4> QED BY <3>4, <4>1, <4>2 DEF CmdDone, CmdNeeded
    <3> QED BY <1>1, <2>4, <2>7, <3>1, <3>2, <3>3, <3>4
  <2>8. did2[i] > 1 => CmdRepeats(c.steps[i])
    <3>1. CASE i = at
      BY <1>1, <1>7, <2>4, <3>1 DEF CmdRepeats
    <3>2. CASE i # at
      BY <2>3, <3>2 DEF CmdKnown
    <3> QED BY <3>1, <3>2
  <2>9. ASSUME ki = "stream" PROVE did2[i] + did2[i + 1] <= 1
    <3>1. i + 1 \in 1..n /\ did[i + 1] \in Nat /\ did[i] + did[i + 1] <= 1
      BY <1>2, <2>1, <2>2, <2>3, <2>9 DEF CmdKnown
    <3>2. CASE i = at
      <4>1. CmdKnown(c, at, did, said, "none", i + 1)
        BY <1>2, <3>1
      <4>2. did[i + 1] = 0 /\ did2[i + 1] = did[i + 1]
        BY <1>1, <2>4, <3>1, <3>2, <4>1 DEF CmdKnown
      <4>3. did[at] = 0
        BY <1>7, <2>1, <2>9, <3>2
      <4> QED BY <3>2, <4>2, <4>3
    <3>3. CASE i + 1 = at
      <4>1. k = "instead"
        BY <2>2, <2>9, <3>3
      <4>2. CmdKnown(c, at, did, said, "none", at)
        BY <1>2
      <4>3. did[at - 1] = 0 /\ at - 1 = i
        BY <1>1, <2>4, <3>3, <4>1, <4>2 DEF CmdKnown
      <4>4. did[at] = 0
        BY <1>7, <4>1
      <4> QED BY <1>1, <2>4, <3>3, <4>3, <4>4
    <3>4. CASE i # at /\ i + 1 # at
      BY <3>1, <3>4
    <3> QED BY <3>2, <3>3, <3>4
  <2>10. ASSUME ki = "instead", i = at2, exit = "none" PROVE did2[i - 1] = 0
    <3>1. c.steps[i - 1].kind = "stream" /\ i - 1 \in 1..n
      BY <2>2, <2>10
    <3>2. CASE v = "next"
      <4>1. i - 1 = at /\ k = "stream"
        BY <1>1, <2>10, <3>1, <3>2
      <4> QED BY <1>7, <3>2, <4>1
    <3>3. CASE v = "skip"
      <4>1. c.steps[at + 1].kind = "instead"
        BY <1>3, <3>3
      <4>2. i - 1 = at + 1
        BY <1>1, <2>10, <3>3
      <4> QED BY <3>1, <4>1, <4>2
    <3>4. CASE v = "again"
      BY <2>1, <2>10, <3>4
    <3>5. v # "fail"
      BY <2>10
    <3> QED BY <3>2, <3>3, <3>4, <3>5
  <2> QED BY <2>1, <2>5, <2>6, <2>7, <2>8, <2>9, <2>10 DEF CmdKnown
<1> QED BY <1>4, <1>5, <1>6 DEF CmdHist

\* What a request did, and what the command does with its outcome.
LEMMA CmdAnswerInv ==
  ASSUME CmdInv, NEW o \in CmdAnswers, CmdAnswer(o)
  PROVE  CmdInv'
<1>1. PICK c, at, did, said : cmdRun = c /\ cmdAt = at /\ cmdDid = did /\ cmdSaid = said
  OBVIOUS
<1>2. CmdShape(c) /\ CmdHist(c, at, did, said, "none") /\ cmdExit = "none"
  BY <1>1 DEF CmdInv, CmdAnswer
<1>3. PICK n \in Nat : n = Len(c.steps)
  BY <1>2 DEF CmdShape
<1>4. at \in 1..n
  BY <1>1, <1>3 DEF CmdAnswer, CmdLen
<1>5. PICK k : k = c.steps[at].kind
  OBVIOUS
<1>6. PICK v : v = CmdVerdict(k, o)
  OBVIOUS
<1>7. CmdPairs(c)
  BY <1>2, CmdShapePairs
<1>8. k \in CmdKinds
  BY <1>3, <1>4, <1>5, <1>7 DEF CmdPairs
<1>9. /\ v \in {"next", "skip", "again", "fail"}
      /\ v = "next" /\ k \in CmdNeeded \cup {"instead"} => o = "ok"
      /\ v = "next" /\ k = "absent" => o = "missing"
      /\ v = "next" /\ k = "list" => o \in {"ok", "lost"}
      /\ v = "next" /\ k = "stream" => o = "missing"
      /\ v = "skip" => k = "stream" /\ o = "ok"
      /\ v = "again" => k \in {"poll", "follow"} /\ o = "denied"
  BY <1>6, <1>8, CmdVerdictMeans
<1>10. PICK more \in {0, 1} : more = IF CmdEffect(o) THEN 1 ELSE 0
  OBVIOUS
<1>11. (o = "ok" => more = 1) /\ (o = "missing" => more = 0)
  BY <1>10 DEF CmdEffect
<1>12. did \in [1..n -> Nat] /\ said \in [1..n -> CmdSays]
  BY <1>2, <1>3 DEF CmdHist
<1>13. /\ cmdDid' = [did EXCEPT ![at] = IF CmdEffect(o) THEN did[at] + 1 ELSE did[at]]
       /\ cmdSaid' = [said EXCEPT ![at] = o]
  BY <1>1 DEF CmdAnswer
<1>14. PICK did2 : did2 = [did EXCEPT ![at] = IF CmdEffect(o) THEN did[at] + 1 ELSE did[at]]
  OBVIOUS
<1>15. /\ did2 \in [1..n -> Nat] /\ did2[at] = did[at] + more
       /\ \A i \in 1..n : i # at => did2[i] = did[i]
  <2>1. did[at] \in Nat
    BY <1>4, <1>12
  <2>2. did[at] + more = IF CmdEffect(o) THEN did[at] + 1 ELSE did[at]
    BY <1>10, <2>1
  <2>3. did2 = [did EXCEPT ![at] = did[at] + more]
    BY <1>14, <2>2
  <2> QED BY <1>4, <1>12, <2>1, <2>3
<1>16. PICK said2 : said2 = [said EXCEPT ![at] = o]
  OBVIOUS
<1>17. /\ said2 \in [1..n -> CmdSays] /\ said2[at] = o
       /\ \A i \in 1..n : i # at => said2[i] = said[i]
  BY <1>4, <1>12, <1>16 DEF CmdSays
<1>18. PICK at2, exit :
         /\ at2 = IF v = "next" THEN at + 1 ELSE IF v = "skip" THEN at + 2 ELSE at
         /\ exit = IF v = "fail" THEN "nonzero" ELSE IF at2 > n THEN "zero" ELSE "none"
  OBVIOUS
<1>19. cmdAt' = at2 /\ cmdExit' = exit
  <2>1. CmdVerdict(CmdNow.kind, o) = v /\ CmdLen = n
    BY <1>1, <1>3, <1>5, <1>6 DEF CmdNow, CmdLen
  <2>2. CASE v = "next"
    <3>1. CmdAdvance(1)
      BY <2>1, <2>2 DEF CmdAnswer
    <3> QED BY <1>1, <1>2, <1>18, <2>1, <2>2, <3>1 DEF CmdAdvance
  <2>3. CASE v = "skip"
    <3>1. CmdAdvance(2)
      BY <2>1, <2>3 DEF CmdAnswer
    <3> QED BY <1>1, <1>2, <1>18, <2>1, <2>3, <3>1 DEF CmdAdvance
  <2>4. CASE v = "again"
    <3>1. UNCHANGED <<cmdAt, cmdTry, cmdExit>>
      BY <2>1, <2>4 DEF CmdAnswer
    <3> QED BY <1>1, <1>2, <1>4, <1>18, <2>4, <3>1
  <2>5. CASE v = "fail"
    <3>1. cmdExit' = "nonzero" /\ cmdAt' = cmdAt
      BY <2>1, <2>5 DEF CmdAnswer
    <3> QED BY <1>1, <1>18, <2>5, <3>1
  <2> QED BY <1>9, <2>2, <2>3, <2>4, <2>5
<1>20. CmdHist(c, at2, did2, said2, exit)
  <2>1. CmdRecord(c, n, at, did, said, v, o, more, did2, said2, at2, exit)
    BY <1>2, <1>3, <1>4, <1>5, <1>7, <1>9, <1>11, <1>15, <1>17, <1>18 DEF CmdRecord
  <2> QED BY <2>1, CmdRecorded
<1>21. /\ cmdRun' = c /\ cmdRun' = cmdRun /\ cmdRemote' = cmdRemote /\ cmdConsent' = cmdConsent
       /\ cmdAgreed' = cmdAgreed
  BY <1>1 DEF CmdAnswer, cmdTold
<1>22. cmdDid' = did2 /\ cmdSaid' = said2
  BY <1>13, <1>14, <1>16
<1>23. CmdHist(cmdRun', cmdAt', cmdDid', cmdSaid', cmdExit')
  BY <1>19, <1>20, <1>21, <1>22
<1>24. ~(cmdRun.here /\ cmdRemote)
  BY <1>1, <1>2, <1>4 DEF CmdInv
<1>25. CmdAsked(cmdRun', cmdSaid', cmdAgreed', cmdConsent')
  <2>1. CmdAsked(c, said, cmdAgreed, cmdConsent)
    BY <1>1 DEF CmdInv
  <2>2. k = "consent" /\ o = "ok" => cmdAgreed
    <3>1. o \in CmdOutcomes(k)
      BY <1>1, <1>5 DEF CmdAnswer, CmdNow
    <3> QED BY <3>1, Zenon DEF CmdOutcomes
  <2>3. ASSUME NEW i \in 1..n, c.steps[i].kind = "consent", said2[i] = "ok" PROVE cmdAgreed
    <3>1. CASE i = at  BY <1>5, <1>17, <2>2, <2>3, <3>1
    <3>2. CASE i # at  BY <1>3, <1>17, <2>1, <2>3, <3>2 DEF CmdAsked
    <3> QED BY <3>1, <3>2
  <2>4. CmdAsked(c, said2, cmdAgreed, cmdConsent)
    BY <1>3, <2>1, <2>3 DEF CmdAsked
  <2> QED BY <1>21, <1>22, <2>4
<1>26. CmdPolled(cmdAt', cmdPolls', cmdSaid', cmdExit')
  <2>1. CmdVerdict(CmdNow.kind, o) = v
    BY <1>1, <1>5, <1>6 DEF CmdNow
  <2>2. at # 0 /\ at2 # 0
    BY <1>4, <1>18
  <2>3. cmdPolls \in Nat
    BY DEF CmdInv, CmdPolled
  <2>4. CASE v \in {"next", "skip"}
    <3>1. cmdPolls' = 0
      BY <2>1, <2>4 DEF CmdAnswer, CmdAdvance
    <3> QED BY <3>1 DEF CmdPolled
  <2>5. CASE v = "again"
    <3>1. cmdPolls' \in Nat
      BY <2>1, <2>3, <2>5 DEF CmdAnswer
    <3>2. cmdSaid'[cmdAt'] = "denied"
      BY <1>9, <1>17, <1>18, <1>19, <1>22, <2>5
    <3> QED BY <1>19, <2>2, <3>1, <3>2 DEF CmdPolled
  <2>6. CASE v = "fail"
    <3>1. cmdPolls' = cmdPolls /\ cmdExit' = "nonzero"
      BY <2>1, <2>6 DEF CmdAnswer
    <3> QED BY <1>19, <2>2, <2>3, <3>1 DEF CmdPolled
  <2> QED BY <1>9, <2>4, <2>5, <2>6
<1> QED BY <1>2, <1>21, <1>23, <1>24, <1>25, <1>26 DEF CmdInv

\* Giving up, leaving, and being told to come back later.
LEMMA CmdStopInv ==
  ASSUME CmdInv, CmdDeadline \/ CmdLeave \/ CmdLimited
  PROVE  CmdInv'
<1>1. PICK c, at, did, said : cmdRun = c /\ cmdAt = at /\ cmdDid = did /\ cmdSaid = said
  OBVIOUS
<1>2. /\ CmdShape(c) /\ CmdHist(c, at, did, said, "none") /\ cmdExit = "none"
      /\ at \in 1..Len(c.steps) /\ ~(cmdRun.here /\ cmdRemote)
  <2>1. cmdExit = "none" /\ at \in 1..Len(c.steps)
    BY <1>1 DEF CmdDeadline, CmdLeave, CmdLimited, CmdLen
  <2> QED BY <1>1, <2>1 DEF CmdInv
<1>3. /\ cmdRun' = c /\ cmdAt' = at /\ cmdDid' = did /\ cmdSaid' = said
      /\ cmdRun' = cmdRun /\ cmdRemote' = cmdRemote /\ cmdConsent' = cmdConsent /\ cmdAt' = cmdAt
      /\ cmdAgreed' = cmdAgreed /\ cmdPolls' = cmdPolls
      /\ cmdExit' \in {"none", "zero", "nonzero"}
      /\ cmdExit' = "zero" => c.steps[at].kind = "follow" /\ cmdPolls > 0
  BY <1>1, <1>2 DEF CmdDeadline, CmdLeave, CmdLimited, CmdNow, cmdTold
<1>4. PICK exit \in {"none", "zero", "nonzero"} : exit = cmdExit'
  BY <1>3
<1>5. CmdHist(c, at, did, said, exit)
  <2>1. \A i \in 1..Len(c.steps) : CmdKnown(c, at, did, said, exit, i)
    BY <1>2 DEF CmdHist, CmdKnown
  <2>2. cmdPolls > 0 => said[at] = "denied"
    BY <1>1, <1>2 DEF CmdInv, CmdPolled
  <2> QED BY <1>2, <1>3, <1>4, <2>1, <2>2 DEF CmdHist
<1>6. CmdHist(cmdRun', cmdAt', cmdDid', cmdSaid', cmdExit')
  BY <1>3, <1>4, <1>5
<1>7. CmdAsked(cmdRun', cmdSaid', cmdAgreed', cmdConsent')
  BY <1>1, <1>3 DEF CmdInv
<1>8. CmdPolled(cmdAt', cmdPolls', cmdSaid', cmdExit')
  BY <1>1, <1>2, <1>3 DEF CmdInv, CmdPolled
<1> QED BY <1>2, <1>3, <1>6, <1>7, <1>8 DEF CmdInv

\* Every step of a command preserves the invariant.
LEMMA CmdStepInv ==
  ASSUME CmdInv, [CmdNext]_cmdVars
  PROVE  CmdInv'
<1>1. CASE UNCHANGED cmdVars
  BY <1>1 DEF cmdVars, CmdInv
<1>2. CASE CmdNext
  BY <1>2, CmdStartInv, CmdAnswerInv, CmdStopInv DEF CmdNext
<1> QED BY <1>1, <1>2

\* A command keeps to what it was told and says what it did.
LEMMA CmdInvFaithful ==
  ASSUME CmdInv
  PROVE  CmdFaithful
<1>1. PICK c, at, did, said, exit :
        cmdRun = c /\ cmdAt = at /\ cmdDid = did /\ cmdSaid = said /\ cmdExit = exit
  OBVIOUS
<1>2. CmdShape(c) /\ CmdHist(c, at, did, said, exit)
  BY <1>1 DEF CmdInv
<1>3. PICK n \in Nat : n = Len(c.steps)
  BY <1>2 DEF CmdShape
<1>4. /\ at \in Nat /\ did \in [1..n -> Nat] /\ DOMAIN did = 1..n
      /\ \A i \in 1..n : CmdKnown(c, at, did, said, exit, i)
      /\ exit = "zero" => \/ at > n
                          \/ at \in 1..n /\ c.steps[at].kind = "follow" /\ said[at] = "denied"
  BY <1>2, <1>3 DEF CmdHist
<1>5. CmdPairs(c)
  BY <1>2, CmdShapePairs
<1>6. ASSUME NEW i \in 1..n
      PROVE  /\ c.steps[i].kind = "follow" => i = n
             /\ CmdRepeats(c.steps[i]) => c.steps[i].method = "GET"
             /\ CmdDestroying(c.steps[i]) => CmdMayDelete(c, i)
             /\ CmdHasRoute(c.steps[i])
  BY <1>2, <1>3, CmdPaired
<1>7. \A i \in 1..n : did[i] > 1 => CmdReads(c.steps[i])
  BY <1>4, <1>6 DEF CmdKnown, CmdReads, CmdRepeats
<1>8. \A i \in 1..n : c.steps[i].kind = "stream" => did[i] + did[i + 1] <= 1
  BY <1>4 DEF CmdKnown
<1>9. ASSUME exit = "zero", NEW i \in 1..n
      PROVE  /\ c.steps[i].kind \in {"must", "state", "exec", "poll", "local"} => said[i] = "ok"
             /\ c.steps[i].kind = "stream" => said[i] = "ok" \/ said[i + 1] = "ok"
             /\ c.steps[i].kind = "follow" => said[i] \in {"ok", "denied"}
             /\ c.steps[i].kind = "absent" => said[i] = "missing"
             /\ c.steps[i].kind = "list" => said[i] \in {"ok", "lost"}
  <2>1. ASSUME NEW j \in 1..n, c.steps[j].kind # "follow" PROVE CmdDone(c, did, said, j)
    <3>1. j < at
      <4>1. CASE at > n  BY <1>4, <4>1
      <4>2. CASE at \in 1..n /\ c.steps[at].kind = "follow"
        <5>1. at = n /\ j # at  BY <1>6, <2>1, <4>2
        <5> QED BY <5>1
      <4> QED BY <1>4, <1>9, <4>1, <4>2
    <3>2. CmdKnown(c, at, did, said, exit, j)
      BY <1>4
    <3> QED BY <3>1, <3>2 DEF CmdKnown
  <2>2. ASSUME c.steps[i].kind # "follow"
        PROVE  /\ c.steps[i].kind \in {"must", "state", "exec", "poll", "local"} => said[i] = "ok"
               /\ c.steps[i].kind = "absent" => said[i] = "missing"
               /\ c.steps[i].kind = "list" => said[i] \in {"ok", "lost"}
    <3>1. CmdDone(c, did, said, i)  BY <2>1, <2>2
    <3> QED BY <3>1 DEF CmdDone, CmdNeeded
  <2>4. ASSUME c.steps[i].kind = "follow" PROVE said[i] \in {"ok", "denied"}
    <3>1. CASE at > n
      <4>1. CmdKnown(c, at, did, said, exit, i) /\ i < at  BY <1>4, <3>1
      <4> QED BY <2>4, <4>1 DEF CmdKnown, CmdDone, CmdNeeded
    <3>2. CASE at \in 1..n /\ c.steps[at].kind = "follow" /\ said[at] = "denied"
      <4>1. i = at  BY <1>6, <2>4, <3>2
      <4> QED BY <3>2, <4>1
    <3> QED BY <1>4, <1>9, <3>1, <3>2
  <2>3. ASSUME c.steps[i].kind = "stream" PROVE said[i] = "ok" \/ said[i + 1] = "ok"
    <3>1. PICK j : j = i + 1
      OBVIOUS
    <3>2. j \in 1..n /\ c.steps[j].kind = "instead" /\ j - 1 = i
      <4>1. i + 1 \in 1..n /\ c.steps[i + 1].kind = "instead"
        BY <1>3, <1>5, <2>3 DEF CmdPairs
      <4> QED BY <3>1, <4>1
    <3>3. CmdDone(c, did, said, j)
      BY <2>1, <3>2
    <3>4. said[j - 1] = "ok" \/ said[j] = "ok"
      BY <3>2, <3>3 DEF CmdDone
    <3> QED BY <3>1, <3>2, <3>4
  <2> QED BY <2>2, <2>3, <2>4
<1>10. ASSUME NEW i \in 1..n, CmdDestroying(c.steps[i]), did[i] > 0
       PROVE  \/ cmdConsent \/ (Len(c.steps[i].path) = 4 /\ c.steps[i].path[3] = "ports")
              \/ \E j \in 1..(i - 1) : c.steps[j].path = <<"vms">> /\ did[j] = 1
  <2>1. i <= at
    <3>1. CmdKnown(c, at, did, said, exit, i)  BY <1>4
    <3> QED BY <1>4, <1>10, <3>1 DEF CmdKnown
  <2>2. ASSUME NEW j \in 1..(i - 1), c.steps[j].kind = "consent" PROVE cmdConsent
    <3>1. j \in 1..n /\ CmdKnown(c, at, did, said, exit, j) /\ j < at
      BY <1>4, <2>1
    <3>2. said[j] = "ok"
      BY <2>2, <3>1 DEF CmdKnown, CmdDone, CmdNeeded
    <3>3. CmdAsked(c, said, cmdAgreed, cmdConsent)
      BY <1>1 DEF CmdInv
    <3> QED BY <1>3, <2>2, <3>1, <3>2, <3>3 DEF CmdAsked
  <2>3. ASSUME NEW j \in 1..(i - 1), c.steps[j].kind = "must" PROVE did[j] = 1
    <3>1. CmdKnown(c, at, did, said, exit, j) /\ j < at
      BY <1>4, <2>1
    <3> QED BY <2>3, <3>1 DEF CmdKnown, CmdDone
  <2>4. CmdMayDelete(c, i)
    BY <1>6, <1>10
  <2> QED BY <2>2, <2>3, <2>4 DEF CmdMayDelete
<1>11. cmdRun.here /\ cmdRemote => exit # "zero" /\ \A i \in 1..n : did[i] = 0
  <2>1. cmdRun.here /\ cmdRemote => exit = "nonzero" /\ at = 0
    BY <1>1 DEF CmdInv
  <2>2. at = 0 => \A i \in 1..n : did[i] = 0
    BY <1>4 DEF CmdKnown
  <2> QED BY <2>1, <2>2
<1>12. \A i \in 1..n : c.steps[i].kind \notin {"local", "consent"} =>
                        <<c.steps[i].method, c.steps[i].path>> \in CmdRouted
  BY <1>6 DEF CmdHasRoute
<1> QED BY <1>1, <1>4, <1>7, <1>8, <1>9, <1>10, <1>11, <1>12 DEF CmdFaithful
=============================================================================
