------------------------------- MODULE GuestJob -------------------------------
(***************************************************************************)
(* The factory runner inside a disposable guest (husker-agent/src/         *)
(* job_runner.rs, job_process.rs) and the evidence it may publish          *)
(* (husker-agent-proto/src/job_result.rs).                                 *)
(*                                                                         *)
(* prepare stages an identity receipt, run checks the staged inputs,       *)
(* extracts the frozen trees, runs each command in a cgroup of its own,    *)
(* terminates that cgroup, inventories the source, collects the declared   *)
(* artifacts and writes one result.  The runner may be killed at any step  *)
(* and started again; processes it started may outlive it, and while any   *)
(* of them lives it may still change what is under /workspace.             *)
(***************************************************************************)
EXTENDS Integers, Sequences

CONSTANTS
    JobCommands,     \* number of commands of the specification
    JobArtifacts,    \* number of declared artifacts
    JobMaxRuns       \* bound: starts of the runner

\* JobSpec::validate refuses a specification without commands.
ASSUME JobAssumption == JobCommands \in Nat \ {0} /\ JobArtifacts \in Nat

VARIABLES
    jobStage,    \* /run/husker-job: "none", "partial" (no receipt), "staged"
    jobPc,       \* where the runner is
    jobTrees,    \* /workspace and /acceptance were created in this guest
    jobGroups,   \* command index -> its cgroup: "none", "empty", "populated"
    jobDirty,    \* a process changed the frozen source
    jobExpired,  \* the hard deadline of the specification has passed
    jobRuns,     \* starts of the runner so far
    jobSpawned,  \* command index -> times its program was spawned
    jobManifest, \* the manifest the runner is building
    jobResult    \* result.json, or NoResult

jobVars == <<jobStage, jobPc, jobTrees, jobGroups, jobDirty, jobExpired, jobRuns, jobSpawned,
             jobManifest, jobResult>>

JobIndexes == 1..JobCommands
JobNoResult == [outcome |-> "none"]
JobFresh == [commands |-> <<>>, artifacts |-> <<>>, changed |-> "unknown",
             verified |-> TRUE, collection |-> "complete", outcome |-> "completed",
             size |-> "fits"]
JobLive == {i \in JobIndexes : jobGroups[i] = "populated"}

JobInit ==
    /\ jobStage = "none" /\ jobPc = "idle" /\ jobTrees = FALSE
    /\ jobGroups = [i \in JobIndexes |-> "none"]
    /\ jobDirty = FALSE /\ jobExpired = FALSE /\ jobRuns = 0
    /\ jobSpawned = [i \in JobIndexes |-> 0]
    /\ jobManifest = JobFresh /\ jobResult = JobNoResult

-----------------------------------------------------------------------------
(* prepare: a fresh directory gets a synced receipt of the job's identity; *)
(* an existing one is accepted only with that receipt, so a directory left *)
(* by an interrupted preparation is refused.                               *)
JobPrepare ==
    /\ jobPc = "idle"
    /\ \/ jobStage = "none" /\ jobStage' \in {"partial", "staged"}
       \/ jobStage = "staged" /\ UNCHANGED jobStage
    /\ UNCHANGED <<jobPc, jobTrees, jobGroups, jobDirty, jobExpired, jobRuns, jobSpawned,
                   jobManifest, jobResult>>

(* build_job_process: the cgroup of a command must not exist yet. *)
JobGroupFree(i) == jobGroups[i] = "none" /\ ~jobExpired

(* run, up to the extraction: receipt, specification, deadline and bundles *)
(* are checked, the kernel policy is probed with the first command's       *)
(* cgroup (which the probe removes again), and the trees must be new.      *)
JobRunnable == jobStage = "staged" /\ ~jobExpired /\ JobGroupFree(1) /\ ~jobTrees
JobRun ==
    /\ jobPc = "idle" /\ jobRuns < JobMaxRuns
    /\ jobRuns' = jobRuns + 1
    /\ IF JobRunnable
       THEN jobPc' = "spawn" /\ jobTrees' = TRUE /\ jobManifest' = JobFresh
       ELSE UNCHANGED <<jobPc, jobTrees, jobManifest>>
    /\ UNCHANGED <<jobStage, jobGroups, jobDirty, jobExpired, jobSpawned, jobResult>>

JobNextIndex == Len(jobManifest.commands) + 1

(* Add the result of a command and decide whether the next one runs: an    *)
(* unconfirmed termination, a timeout or an infrastructure failure ends    *)
(* the sequence, a failing command does not.                               *)
JobRecord(c) ==
    /\ jobManifest' = [jobManifest EXCEPT !.commands = Append(@, c),
                       !.outcome = IF c.outcome # "completed" THEN c.outcome ELSE @]
    /\ jobPc' = IF \/ ~c.confirmed \/ c.outcome \in {"timed-out", "infrastructure"}
                   \/ Len(jobManifest'.commands) = JobCommands
                THEN "inventory" ELSE "spawn"

JobFailedStart == [exit |-> "none", outcome |-> "infrastructure", confirmed |-> FALSE, cut |-> TRUE]

(* execute: the program is spawned into its cgroup as the unprivileged     *)
(* user, or cannot be.                                                     *)
JobSpawn ==
    /\ jobPc = "spawn"
    /\ LET i == JobNextIndex IN
       \/ /\ JobGroupFree(i)
          /\ jobGroups' = [jobGroups EXCEPT ![i] = "populated"]
          /\ jobSpawned' = [jobSpawned EXCEPT ![i] = @ + 1]
          /\ jobPc' = "wait"
          /\ UNCHANGED jobManifest
       \/ JobRecord(JobFailedStart) /\ UNCHANGED <<jobGroups, jobSpawned>>
    /\ UNCHANGED <<jobStage, jobTrees, jobDirty, jobExpired, jobRuns, jobResult>>

JobTerminateUnseen(i, ok) ==
    /\ UNCHANGED jobGroups

(* terminate_and_confirm: cgroup.kill, then the group must report that it  *)
(* is empty before the two seconds are over.  The group is removed when    *)
(* the command's process handle is dropped; a populated one stays.         *)
JobTerminate(i, ok) ==
    jobGroups' = [jobGroups EXCEPT ![i] = IF ok THEN "none" ELSE "populated"]

(* The command exits or its timeout passes, its group is terminated and    *)
(* the pipes are drained; reading or forwarding output may also fail.      *)
JobWait ==
    /\ jobPc = "wait"
    /\ \E exit \in {"zero", "nonzero", "none"}, ok \in BOOLEAN, cut \in BOOLEAN :
          /\ JobTerminate(JobNextIndex, ok)
          /\ \/ JobRecord([exit |-> exit, confirmed |-> ok, cut |-> cut,
                           outcome |-> IF ~ok THEN "infrastructure"
                                       ELSE CASE exit = "zero"    -> "completed"
                                              [] exit = "nonzero" -> "failed"
                                              [] exit = "none"    -> "timed-out"])
             \/ JobRecord(JobFailedStart)
    /\ UNCHANGED <<jobStage, jobTrees, jobDirty, jobExpired, jobRuns, jobSpawned, jobResult>>

-----------------------------------------------------------------------------
JobAllTerminated == \A k \in 1..Len(jobManifest.commands) : jobManifest.commands[k].confirmed
JobCut == \E k \in 1..Len(jobManifest.commands) : jobManifest.commands[k].cut

(* The source is inventoried only when every group was seen empty; a       *)
(* change, and an inventory that cannot be taken, fail the job.            *)
JobInventory ==
    /\ jobPc = "inventory"
    /\ jobPc' = "collect"
    /\ LET m == IF JobCut THEN [jobManifest EXCEPT !.collection = "truncated"] ELSE jobManifest
       IN  \/ /\ JobAllTerminated
              /\ jobManifest' = [m EXCEPT !.changed = IF jobDirty THEN "yes" ELSE "no",
                                          !.outcome = IF jobDirty THEN "infrastructure" ELSE @]
           \/ jobManifest' = [m EXCEPT !.verified = FALSE, !.outcome = "infrastructure",
                                       !.collection = "failed"]
    /\ UNCHANGED <<jobStage, jobTrees, jobGroups, jobDirty, jobExpired, jobRuns, jobSpawned, jobResult>>

(* One declared artifact: stored and hashed, or listed with its error. *)
JobCollect ==
    /\ jobPc = "collect" /\ Len(jobManifest.artifacts) < JobArtifacts
    /\ \/ /\ ~jobExpired /\ JobAllTerminated
          /\ jobManifest' = [jobManifest EXCEPT !.artifacts = Append(@, "stored")]
       \/ jobManifest' = [jobManifest EXCEPT !.artifacts = Append(@, "error"),
                             !.collection = "failed", !.outcome = "infrastructure"]
    /\ UNCHANGED <<jobStage, jobPc, jobTrees, jobGroups, jobDirty, jobExpired, jobRuns, jobSpawned,
                   jobResult>>

(* The deadline is read once more before the manifest is encoded; what it  *)
(* holds decides whether the encoding stays within MAX_JOB_MANIFEST_BYTES. *)
JobSeal ==
    /\ jobPc = "collect" /\ Len(jobManifest.artifacts) = JobArtifacts
    /\ \E z \in {"fits", "large"} :
          jobManifest' = [jobManifest EXCEPT !.outcome = IF jobExpired THEN "timed-out" ELSE @,
                                             !.size = z]
    /\ jobPc' = "write"
    /\ UNCHANGED <<jobStage, jobTrees, jobGroups, jobDirty, jobExpired, jobRuns, jobSpawned, jobResult>>

(* decode_for: what a host accepts as evidence. *)
JobCommandConsistent(c) ==
    /\ c.outcome = "completed" => c.exit = "zero" /\ c.confirmed
    /\ c.outcome = "failed" => c.exit = "nonzero" /\ c.confirmed
JobDecodes(m) ==
    /\ m.size = "fits"
    /\ Len(m.commands) \in 1..JobCommands
    /\ \A k \in 1..Len(m.commands) : JobCommandConsistent(m.commands[k])
    /\ Len(m.artifacts) = JobArtifacts
    /\ m.outcome = "completed" =>
          /\ Len(m.commands) = JobCommands
          /\ \A k \in 1..JobCommands : m.commands[k].outcome = "completed"
          /\ m.changed = "no" /\ m.verified /\ m.collection # "failed"
          /\ \A k \in 1..JobArtifacts : m.artifacts[k] # "error"

(* The manifest is validated by its own decoder, which refuses one that is *)
(* too large and leaves the job without a result; then result.json is      *)
(* created (it must not exist) and synced.                                 *)
JobWrite ==
    /\ jobPc = "write"
    /\ jobPc' = "idle"
    /\ jobResult' = IF JobDecodes(jobManifest) /\ jobResult = JobNoResult
                    THEN jobManifest ELSE jobResult
    /\ UNCHANGED <<jobStage, jobTrees, jobGroups, jobDirty, jobExpired, jobRuns, jobSpawned, jobManifest>>

-----------------------------------------------------------------------------
(* The runner is killed (its session is cancelled or times out, the agent  *)
(* dies); what it started stays in its cgroup.                             *)
JobRunnerKilled ==
    /\ jobPc # "idle"
    /\ jobPc' = "idle"
    /\ UNCHANGED <<jobStage, jobTrees, jobGroups, jobDirty, jobExpired, jobRuns, jobSpawned,
                   jobManifest, jobResult>>

(* The world around the runner: a living process defeats the ownership of  *)
(* the frozen tree, orphans exit, the deadline passes.                     *)
JobTamper ==
    /\ JobLive # {} /\ jobTrees /\ ~jobDirty
    /\ jobDirty' = TRUE
    /\ UNCHANGED <<jobStage, jobPc, jobTrees, jobGroups, jobExpired, jobRuns, jobSpawned,
                   jobManifest, jobResult>>

JobDrain(i) ==
    /\ jobPc = "idle" /\ jobGroups[i] = "populated"
    /\ jobGroups' = [jobGroups EXCEPT ![i] = "empty"]
    /\ UNCHANGED <<jobStage, jobPc, jobTrees, jobDirty, jobExpired, jobRuns, jobSpawned,
                   jobManifest, jobResult>>

JobExpire ==
    /\ ~jobExpired
    /\ jobExpired' = TRUE
    /\ UNCHANGED <<jobStage, jobPc, jobTrees, jobGroups, jobDirty, jobRuns, jobSpawned, jobManifest,
                   jobResult>>

JobNext ==
    \/ JobPrepare \/ JobRun \/ JobSpawn \/ JobWait \/ JobInventory
    \/ JobCollect \/ JobSeal \/ JobWrite
    \/ JobRunnerKilled \/ JobTamper \/ JobExpire
    \/ \E i \in JobIndexes : JobDrain(i)

-----------------------------------------------------------------------------
(* The evidence of a job can be believed.  A result that says completed was *)
(* written when no process of the job was alive that could still change    *)
(* the source, and the source is the frozen one; no command was spawned    *)
(* twice, whatever was killed and started again; and a manifest that       *)
(* reaches the end is refused by its own decoder, which leaves an executed *)
(* job without evidence, for its size alone (run, terminate_and_confirm,   *)
(* decode_for).                                                            *)
JobEvidenceSound ==
    /\ jobResult.outcome = "completed" => JobLive = {} /\ ~jobDirty
    /\ \A i \in JobIndexes : jobSpawned[i] <= 1
    /\ jobPc = "write" => JobDecodes([jobManifest EXCEPT !.size = "fits"])
=============================================================================
