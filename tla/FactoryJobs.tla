---------------------------- MODULE FactoryJobs -----------------------------
(***************************************************************************)
(* Factory execution: the workers, locks, cleanup ticks and restart        *)
(* recovery of crates/husker-core (job_worker.rs, job_boot.rs,             *)
(* job_launch.rs, job_collection.rs, vm_lifecycle.rs, host_resources.rs)   *)
(* around the journal of JobJournal and a VMM backend that keeps owners in *)
(* memory and recovery receipts on disk (crates/husker-vmm).               *)
(*                                                                         *)
(* Every step commits at most one journal transaction.  Between two steps  *)
(* of one task any other task may run, the daemon may crash, the host may  *)
(* reboot, the client may cancel and the deadline may pass.  The job's VM  *)
(* name is the job; its lifecycle lock and name lock are job_lifecycle_lock*)
(* and vm_name_lock.                                                       *)
(***************************************************************************)
EXTENDS JobJournal

CONSTANTS
    MaxFaults,    \* bound: failing calls, panics and timed-out cleanup attempts
    MaxCrashes,   \* bound: daemon exits
    WorkerSlots,  \* factory_worker_slots
    OtherWorkers  \* bound: slots that workers of jobs outside Jobs may hold

ASSUME FactoryAssumption ==
    {MaxFaults, MaxCrashes, WorkerSlots, OtherWorkers} \subseteq Nat

VARIABLES
    daemon,      \* "down", "recovering", "up" or "draining"
    worker,      \* where the job's registered worker is
    lifecycle,   \* holder of the job's lifecycle lock
    name_lock,   \* holder of the VM-name lock
    cleaner,     \* cleanup_job_vm waiting for the name lock, and what it read
    teardown,    \* progress of the name lock's holder in destroying the VM
    retained,    \* factory_destroyed_allocations: proofs not yet journaled
    tried,       \* leases visited by recover_host_resource_leases
    proc,        \* VMM processes that may be alive
    owner,       \* the backend's in-memory registry
    receipt,     \* durable <vm>.recovery.json
    disk,        \* VM directories
    sessions,    \* session starts that reached the guest
    faults,      \* bound
    crashes      \* bound

vmmVars  == <<proc, owner, receipt, disk>>
lockVars == <<lifecycle, name_lock, cleaner, teardown>>
coreVars == <<retained, tried, sessions>>
boundVars == <<faults, crashes>>
factoryVars == <<journalVars, daemon, worker, lockVars, coreVars, vmmVars,
                 boundVars>>

\* create_reserved_job_vm, in the order it runs; it holds the lifecycle lock
\* from "claimed" on and the name lock in NameLocked.
NameLocked == {"adopted", "entered", "spawned", "created", "unadopt", "rollback"}
Creating == {"claimed", "bound", "staged", "unplan", "committed", "failed"}
              \cup NameLocked
\* launch_prepared_job holds both locks in Launching.
Launching == {"staging", "marked"}
Executing == {"launch", "connect", "observe", "collect", "publish"} \cup Launching
WorkerPcs == {"none", "noslot", "start", "seal", "unresolved", "cleanup", "finished"}
               \cup Creating \cup Executing
Holders == {"free", "worker", "tick", "cleaner", "destroyer", "recovery"}
TeardownPcs == {"none", "kill", "killed", "leased", "proven", "swept", "files",
                "unlease"}

CoreTypeOK ==
    /\ daemon \in {"down", "recovering", "up", "draining"}
    /\ worker \in [Jobs -> WorkerPcs]
    /\ lifecycle \in [Jobs -> Holders]
    /\ name_lock \in [Jobs -> Holders]
    /\ cleaner \in [Jobs -> {"none", "unsure", "sure"}]
    /\ teardown \in [Jobs -> TeardownPcs]
    /\ retained \subseteq Vms /\ tried \subseteq Vms
    /\ proc \subseteq Vms /\ owner \subseteq Vms /\ receipt \subseteq Vms
    /\ disk \subseteq Jobs
    /\ sessions \in [Jobs -> Nat]
    /\ faults \in Nat /\ crashes \in Nat

\* Who holds which lock of a job follows from where its tasks are.
LockHolders(j) ==
    /\ name_lock[j] = "worker" <=> worker[j] \in NameLocked \cup Launching
    /\ worker[j] \in Creating \cup Launching \cup {"connect"} => lifecycle[j] = "worker"
    /\ ((lifecycle[j] = "worker" /\ worker[j] = "cleanup") \/ lifecycle[j] = "tick")
         <=> (cleaner[j] # "none" \/ name_lock[j] = "cleaner")
    /\ teardown[j] # "none" =>
          name_lock[j] # "free" /\ (name_lock[j] = "worker" => worker[j] = "rollback")

FactoryTypeOK == CoreTypeOK /\ \A j \in Jobs : LockHolders(j)

FactoryInit ==
    /\ JournalInit
    /\ daemon = "up"
    /\ worker = [j \in Jobs |-> "none"]
    /\ lifecycle = [j \in Jobs |-> "free"]
    /\ name_lock = [j \in Jobs |-> "free"]
    /\ cleaner = [j \in Jobs |-> "none"]
    /\ teardown = [j \in Jobs |-> "none"]
    /\ retained = {} /\ tried = {}
    /\ proc = {} /\ owner = {} /\ receipt = {} /\ disk = {}
    /\ sessions = [j \in Jobs |-> 0]
    /\ faults = 0 /\ crashes = 0

Running == daemon \in {"up", "draining"}
Goto(j, pc) == worker' = [worker EXCEPT ![j] = pc]
Lock(lock, j, who) == lock[j] = "free" /\ lock' = [lock EXCEPT ![j] = who]
Unlock(lock, j) == lock' = [lock EXCEPT ![j] = "free"]
Fault == faults < MaxFaults /\ faults' = faults + 1 /\ UNCHANGED crashes
NoFault == UNCHANGED boundVars
HostFailure(j) == IF Expired(j) THEN "timed_out" ELSE "infrastructure_failed"

\* Seal the job unless it has been decided; the first decision wins.
SealAs(j, outcome) ==
    \/ FinishJobFailure(j, outcome)
    \/ ~Undecided(j) /\ UNCHANGED journalVars

-----------------------------------------------------------------------------
(* Clients and the daemon's timers.                                        *)

\* submit_factory_job: acceptance and registration under the admission lock.
Submit(j, s) ==
    /\ daemon = "up"
    /\ AcceptJob(j, s)
    /\ \E others \in 0..OtherWorkers :
          LET held == {i \in Jobs : worker[i] \notin {"none", "noslot", "finished"}} IN
          Goto(j, IF Cardinality(held) + others < WorkerSlots THEN "start" ELSE "noslot")
    /\ UNCHANGED <<daemon, lockVars, coreVars, vmmVars, boundVars>>

\* Without a slot the accepted identity is sealed at once; the seal may fail.
SealUnslotted(j) ==
    /\ worker[j] = "noslot"
    /\ \/ SealAs(j, "infrastructure_failed") /\ NoFault
       \/ Fault /\ UNCHANGED journalVars
    /\ Goto(j, "none")
    /\ UNCHANGED <<daemon, lockVars, coreVars, vmmVars>>

Cancel(j) ==
    /\ Running /\ FinishJobFailure(j, "cancelled")
    /\ UNCHANGED <<daemon, worker, lockVars, coreVars, vmmVars, boundVars>>

\* monitor_stop, polled by the worker beside its allocation or execution.
DeadlineStop(j) ==
    /\ worker[j] \in {"start"} \cup Creating \cup Executing
    /\ Expired(j)
    /\ FinishJobFailure(j, "timed_out")
    /\ UNCHANGED <<daemon, worker, lockVars, coreVars, vmmVars, boundVars>>

Forget(j) ==
    /\ Running /\ DeleteJobEvidence(j)
    /\ UNCHANGED <<daemon, worker, lockVars, coreVars, vmmVars, boundVars>>

TimePasses ==
    /\ Tick
    /\ UNCHANGED <<daemon, worker, lockVars, coreVars, vmmVars, boundVars>>

-----------------------------------------------------------------------------
(* Allocation: create_reserved_job_vm.  An interruption is joined, so only *)
(* a panic leaves it before its last step.                                 *)

ClaimVm(j) ==
    /\ worker[j] = "start" /\ lifecycle[j] = "free"
    /\ \/ ClaimJobVm(j) /\ Lock(lifecycle, j, "worker") /\ Goto(j, "claimed") /\ NoFault
       \/ /\ state[j] # "accepted" \/ Expired(j)
          /\ Goto(j, "seal") /\ NoFault
          /\ UNCHANGED <<journalVars, lifecycle>>
       \/ Fault /\ Goto(j, "seal") /\ UNCHANGED <<journalVars, lifecycle>>
    /\ UNCHANGED <<daemon, name_lock, cleaner, teardown, coreVars, vmmVars>>

PlanVm(j) ==
    /\ worker[j] = "claimed"
    /\ \/ /\ \E v \in Vms : BindJobVmWithLease(j, v)
          /\ Goto(j, "bound") /\ NoFault /\ UNCHANGED lifecycle
       \/ Fault /\ Goto(j, "seal") /\ Unlock(lifecycle, j) /\ UNCHANGED journalVars
    /\ UNCHANGED <<daemon, name_lock, cleaner, teardown, coreVars, vmmVars>>

\* Boot inputs are copied and authenticated before the lease is adopted.
StageInputs(j) ==
    /\ worker[j] = "bound"
    /\ \/ ~Expired(j) /\ Goto(j, "staged") /\ NoFault
       \/ Expired(j) /\ Goto(j, "unplan") /\ NoFault
       \/ Fault /\ Goto(j, "unplan")
    /\ UNCHANGED <<journalVars, daemon, lockVars, coreVars, vmmVars>>

AbortPlan(j) ==
    /\ worker[j] = "unplan"
    /\ \/ /\ RecordJobLeasedPrebackendAbort(j, vm_id[j])
          /\ Goto(j, "failed") /\ NoFault /\ UNCHANGED lifecycle
       \/ Fault /\ Goto(j, "seal") /\ Unlock(lifecycle, j) /\ UNCHANGED journalVars
    /\ UNCHANGED <<daemon, name_lock, cleaner, teardown, coreVars, vmmVars>>

AdoptLease(j) ==
    /\ worker[j] = "staged"
    /\ \/ /\ Lock(name_lock, j, "worker") /\ Goto(j, "adopted") /\ NoFault
          /\ disk' = disk \cup {j}
       \/ Fault /\ Goto(j, "unplan") /\ UNCHANGED <<name_lock, disk>>
    /\ UNCHANGED <<journalVars, daemon, lifecycle, cleaner, teardown, coreVars,
                   proc, owner, receipt>>

\* create_leased_vm journals the entry before the backend is called.
EnterVmm(j) ==
    /\ worker[j] = "adopted"
    /\ \/ EnterBackend(vm_id[j]) /\ UNCHANGED jobVars /\ Goto(j, "entered") /\ NoFault
       \/ Fault /\ Goto(j, "unadopt") /\ UNCHANGED journalVars
    /\ UNCHANGED <<daemon, lockVars, coreVars, vmmVars>>

\* Before the entry the rollback fences the lease and then releases it.
AbortAdopted(j) ==
    /\ worker[j] = "unadopt"
    /\ \/ /\ RecordJobLeasedPrebackendAbort(j, vm_id[j])
          /\ Goto(j, "rollback") /\ NoFault
          /\ teardown' = [teardown EXCEPT ![j] = "proven"] /\ UNCHANGED name_lock
       \/ Fault /\ Goto(j, "failed") /\ Unlock(name_lock, j) /\ UNCHANGED <<journalVars, teardown>>
    /\ UNCHANGED <<daemon, lifecycle, cleaner, coreVars, vmmVars>>

\* A failed creation is rolled back by abort_create.
Rollback(j) ==
    /\ worker[j] \in {"entered", "spawned", "created"}
    /\ Fault /\ Goto(j, "rollback")
    /\ teardown' = [teardown EXCEPT ![j] = "kill"]
    /\ UNCHANGED <<journalVars, daemon, lifecycle, name_lock, cleaner, coreVars, vmmVars>>

\* spawn_and_configure publishes the owner together with the process.
Spawn(v) == proc' = proc \cup {v} /\ owner' = owner \cup {v}

SpawnVmm(j) ==
    /\ worker[j] = "entered"
    /\ Spawn(vm_id[j]) /\ Goto(j, "spawned")
    /\ UNCHANGED <<journalVars, daemon, lockVars, coreVars, receipt, disk, boundVars>>

PersistReceipt(j) ==
    /\ worker[j] = "spawned"
    /\ receipt' = receipt \cup {vm_id[j]} /\ Goto(j, "created")
    /\ UNCHANGED <<journalVars, daemon, lockVars, coreVars, proc, owner, disk, boundVars>>

CommitRow(j) ==
    /\ worker[j] = "created"
    /\ CommitVm(vm_id[j]) /\ UNCHANGED jobVars
    /\ Unlock(name_lock, j) /\ Goto(j, "committed")
    /\ UNCHANGED <<daemon, lifecycle, cleaner, teardown, coreVars, vmmVars, boundVars>>

\* A job stopped during its allocation is not launched.
AdmitVm(j) ==
    /\ worker[j] = "committed"
    /\ IF state[j] = "preparing" /\ ~Expired(j)
       THEN Goto(j, "launch") /\ Unlock(lifecycle, j)
       ELSE Goto(j, "failed") /\ UNCHANGED lifecycle
    /\ UNCHANGED <<journalVars, daemon, name_lock, cleaner, teardown, coreVars,
                   vmmVars, boundVars>>

\* Mutant: the failed allocation returns with its lifecycle lock held.
RecordFailureLocked(j) ==
    /\ worker[j] = "failed"
    /\ SealAs(j, HostFailure(j)) /\ Goto(j, "cleanup") /\ NoFault
    /\ UNCHANGED <<daemon, lockVars, coreVars, vmmVars>>

RecordFailure(j) ==
    /\ worker[j] = "failed"
    /\ \/ SealAs(j, HostFailure(j)) /\ Goto(j, "cleanup") /\ NoFault
       \/ Fault /\ Goto(j, "seal") /\ UNCHANGED journalVars
    /\ Unlock(lifecycle, j)
    /\ UNCHANGED <<daemon, name_lock, cleaner, teardown, coreVars, vmmVars>>

\* The worker's own last word; a failed publication is left to reconciliation.
Seal(j) ==
    /\ \/ worker[j] = "seal" /\ SealAs(j, "infrastructure_failed") /\ NoFault
       \/ worker[j] = "unresolved" /\ SealAs(j, "unknown") /\ NoFault
       \/ worker[j] \in {"seal", "unresolved"} /\ Fault /\ UNCHANGED journalVars
    /\ Goto(j, "cleanup")
    /\ UNCHANGED <<daemon, lockVars, coreVars, vmmVars>>

-----------------------------------------------------------------------------
(* Execution: launch, output observation and collection.  These futures    *)
(* are dropped as soon as the job is decided elsewhere.                    *)

ReachesGuest(j) == vm_id[j] \in vms \cap proc

\* launch_prepared_job takes the lifecycle lock, then the name lock.
TakeLaunch(j) ==
    /\ worker[j] = "launch"
    /\ Lock(lifecycle, j, "worker") /\ Goto(j, "connect")
    /\ UNCHANGED <<journalVars, daemon, name_lock, cleaner, teardown, coreVars,
                   vmmVars, boundVars>>

Connect(j) ==
    /\ worker[j] = "connect" /\ name_lock[j] = "free"
    /\ IF vm_id[j] \in vms /\ ~Expired(j)
       THEN Lock(name_lock, j, "worker") /\ Goto(j, "staging") /\ UNCHANGED lifecycle
       ELSE Unlock(lifecycle, j) /\ Goto(j, "observe") /\ UNCHANGED name_lock
    /\ UNCHANGED <<journalVars, daemon, cleaner, teardown, coreVars, vmmVars, boundVars>>

\* stage_and_launch_job: the running state is durable before the start is sent.
MarkRunning(j) ==
    /\ worker[j] = "staging" /\ ReachesGuest(j)
    /\ MarkJobRunning(j) /\ Goto(j, "marked")
    /\ UNCHANGED <<daemon, lockVars, coreVars, vmmVars, boundVars>>

\* A failed upload, a guest that is gone or a refused transition; an error after
\* the connection is also sealed.
LaunchFails(j) ==
    /\ worker[j] = "staging"
    /\ \/ Fault
       \/ ~(ReachesGuest(j) /\ RunAllowed(j)) /\ NoFault
    /\ \/ state[j] = "preparing" /\ FinishJobFailure(j, HostFailure(j))
       \/ UNCHANGED journalVars
    /\ Unlock(lifecycle, j) /\ Unlock(name_lock, j) /\ Goto(j, "observe")
    /\ UNCHANGED <<daemon, cleaner, teardown, coreVars, vmmVars>>

\* Mutant: a lost acknowledgement is answered by another start.
StartSessionRetry(j) ==
    /\ worker[j] = "marked"
    /\ \/ /\ ReachesGuest(j) /\ sessions' = [sessions EXCEPT ![j] = @ + 1] /\ NoFault
          /\ Unlock(lifecycle, j) /\ Unlock(name_lock, j) /\ Goto(j, "observe")
       \/ /\ ReachesGuest(j) /\ sessions' = [sessions EXCEPT ![j] = @ + 1] /\ Fault
          /\ UNCHANGED <<lifecycle, name_lock, worker>>
    /\ UNCHANGED <<journalVars, daemon, cleaner, teardown, retained, tried, vmmVars>>

\* The start reaches the guest, or it is lost.  Nothing is ever sent again.
StartSession(j) ==
    /\ worker[j] = "marked"
    /\ \/ ReachesGuest(j) /\ sessions' = [sessions EXCEPT ![j] = @ + 1] /\ NoFault
       \/ ~ReachesGuest(j) /\ UNCHANGED sessions /\ NoFault
       \/ Fault /\ UNCHANGED sessions
    /\ Unlock(lifecycle, j) /\ Unlock(name_lock, j) /\ Goto(j, "observe")
    /\ UNCHANGED <<journalVars, daemon, cleaner, teardown, retained, tried, vmmVars>>

Observable(j) ==
    /\ worker[j] = "observe" /\ state[j] = "running" /\ name_lock[j] = "free"
    /\ ReachesGuest(j) /\ sessions[j] > 0 /\ j \notin vm_destroyed /\ ~Expired(j)

\* Output is read while the command runs, and once more before its result.
CaptureOutput(j) ==
    /\ Observable(j) \/ (worker[j] = "collect" /\ ReachesGuest(j) /\ ~Expired(j))
    /\ AppendJobEvents(j)
    /\ UNCHANGED <<daemon, worker, lockVars, coreVars, vmmVars, boundVars>>

SessionEnds(j) ==
    /\ Observable(j) /\ Goto(j, "collect")
    /\ UNCHANGED <<journalVars, daemon, lockVars, coreVars, vmmVars, boundVars>>

\* A launch that ended without a running receipt.
NeverRan(j) ==
    /\ worker[j] = "observe" /\ state[j] \in {"accepted", "preparing"}
    /\ Goto(j, "seal")
    /\ UNCHANGED <<journalVars, daemon, lockVars, coreVars, vmmVars, boundVars>>

\* collect_inner, without any lock: stage the result, then publish it.
StageResult(j) ==
    /\ worker[j] = "collect" /\ ReachesGuest(j) /\ ~Expired(j)
    /\ \E m \in Receipts : StageJobManifest(j, m)
    /\ Goto(j, "publish")
    /\ UNCHANGED <<daemon, lockVars, coreVars, vmmVars, boundVars>>

PublishResult(j) ==
    /\ worker[j] = "publish" /\ ~Expired(j)
    /\ \E o \in Outcomes, c \in {"complete", "truncated", "failed"} :
          FinishJob(j, o, IF c = "complete" /\ j \in output_truncated
                          THEN "truncated" ELSE c, manifest[j])
    /\ Goto(j, "cleanup")
    /\ UNCHANGED <<daemon, lockVars, coreVars, vmmVars, boundVars>>

\* The guest runner failed, is gone, or its evidence does not validate.
CollectionFails(j) ==
    /\ worker[j] \in {"collect", "publish"}
    /\ \/ \E o \in {HostFailure(j), "unknown"} : SealAs(j, o) /\ NoFault
       \/ Fault /\ UNCHANGED journalVars
    /\ Goto(j, "unresolved")
    /\ UNCHANGED <<daemon, lockVars, coreVars, vmmVars>>

\* The execution's future is dropped with its locks; a start that was being sent
\* may still arrive.
DropExecution(j) ==
    /\ worker[j] \in Executing /\ Goto(j, "cleanup")
    /\ lifecycle' = [lifecycle EXCEPT ![j] = IF @ = "worker" THEN "free" ELSE @]
    /\ name_lock' = [name_lock EXCEPT ![j] = IF @ = "worker" THEN "free" ELSE @]
    /\ \/ UNCHANGED sessions
       \/ /\ worker[j] = "marked" /\ ReachesGuest(j)
          /\ sessions' = [sessions EXCEPT ![j] = @ + 1]
    /\ UNCHANGED <<journalVars, daemon, cleaner, teardown, retained, tried, vmmVars>>

\* monitor_stop sees that the job was decided elsewhere.
Interrupt(j) == ~Undecided(j) /\ DropExecution(j) /\ NoFault

\* monitor_stop also returns when the journal cannot be read, and when its own
\* seal fails at the deadline.
StopUnsealed(j) == Undecided(j) /\ DropExecution(j) /\ Fault

\* catch_unwind: the locks of a panicking worker are dropped.
Panic(j) ==
    /\ worker[j] \in Creating \cup Executing
    /\ Fault /\ Goto(j, "unresolved")
    /\ lifecycle' = [lifecycle EXCEPT ![j] = IF @ = "worker" THEN "free" ELSE @]
    /\ name_lock' = [name_lock EXCEPT ![j] = IF @ = "worker" THEN "free" ELSE @]
    /\ teardown' = [teardown EXCEPT ![j] = IF name_lock[j] = "worker" THEN "none" ELSE @]
    /\ UNCHANGED <<journalVars, daemon, cleaner, coreVars, vmmVars>>

-----------------------------------------------------------------------------
(* Teardown: the steps of the holder of the name lock.                     *)

Advance(j, pc) == teardown' = [teardown EXCEPT ![j] = pc]

\* The holder returns and every lock it holds is dropped.
EndTeardown(j) ==
    /\ Advance(j, "none") /\ Unlock(name_lock, j)
    /\ CASE name_lock[j] = "worker" ->
                Goto(j, "failed") /\ UNCHANGED <<lifecycle, tried>>
         [] name_lock[j] = "cleaner" ->
                /\ Unlock(lifecycle, j) /\ UNCHANGED tried
                /\ IF lifecycle[j] = "worker" THEN Goto(j, "finished") ELSE UNCHANGED worker
         [] name_lock[j] = "recovery" ->
                tried' = tried \cup {vm_id[j]} /\ UNCHANGED <<worker, lifecycle>>
         [] OTHER -> UNCHANGED <<worker, lifecycle, tried>>

\* Mutant: a missing owner counts as a proof.
DestroyableAbsent(j) == TRUE

\* What proves, in destroy_factory_allocation, that nothing is alive: destroying
\* a registered owner, a recovery receipt of an earlier daemon, or, for the
\* attempt this process itself ran, the absence of an owner.
Destroyable(j) ==
    \/ vm_id[j] \in owner \cup receipt
    \/ name_lock[j] = "worker"

\* Mutant: the kill is sent and its effect is not awaited.
KilledUnconfirmed(v) == proc

\* A live process is only found through its owner or its receipt.
Killed(v) == IF v \in owner \cup receipt THEN proc \ {v} ELSE proc

\* An earlier proof is retained, or the lease already carries the receipt.
KillVmm(j) ==
    /\ teardown[j] = "kill"
    /\ IF vm_id[j] \in retained \cup lease_destroyed
       THEN UNCHANGED <<retained, proc, owner>>
       ELSE /\ Destroyable(j)
            /\ proc' = Killed(vm_id[j]) /\ owner' = owner \ {vm_id[j]}
            /\ retained' = retained \cup {vm_id[j]}
    /\ Advance(j, "killed")
    /\ UNCHANGED <<journalVars, daemon, worker, lifecycle, name_lock, cleaner, tried,
                   sessions, receipt, disk, boundVars>>

\* "VM not found" is never a receipt: the attempt ends and ownership stays.
KillRefused(j) ==
    /\ teardown[j] = "kill"
    /\ vm_id[j] \notin retained \cup lease_destroyed /\ ~Destroyable(j)
    /\ EndTeardown(j)
    /\ UNCHANGED <<journalVars, daemon, cleaner, retained, sessions, vmmVars, boundVars>>

JournalLeaseDeath(j) ==
    /\ teardown[j] = "killed" /\ vm_id[j] \in leases
    /\ RecordLeaseDestruction(vm_id[j]) /\ UNCHANGED jobVars
    /\ Advance(j, "leased")
    /\ UNCHANGED <<daemon, worker, lifecycle, name_lock, cleaner, coreVars, vmmVars, boundVars>>

\* Mutant: a lease of an earlier daemon is given up without journaling the death.
JournalJobDeathUnjournaled(j) ==
    /\ teardown[j] = "leased" \/ (teardown[j] = "killed" /\ vm_id[j] \notin leases)
    /\ retained' = retained \ {vm_id[j]}
    /\ Advance(j, "proven")
    /\ UNCHANGED <<journalVars, daemon, worker, lifecycle, name_lock, cleaner, tried,
                   sessions, vmmVars, boundVars>>

JournalJobDeath(j) ==
    /\ teardown[j] = "leased" \/ (teardown[j] = "killed" /\ vm_id[j] \notin leases)
    /\ RecordJobVmDestruction(vm_id[j])
    /\ retained' = retained \ {vm_id[j]}
    /\ Advance(j, IF name_lock[j] = "cleaner" /\ vm_id[j] \notin vms THEN "files" ELSE "proven")
    /\ UNCHANGED <<daemon, worker, lifecycle, name_lock, cleaner, tried, sessions,
                   vmmVars, boundVars>>

SweepDirectory(j) ==
    /\ teardown[j] = "proven"
    /\ disk' = disk \ {j} /\ Advance(j, "swept")
    /\ UNCHANGED <<journalVars, daemon, worker, lifecycle, name_lock, cleaner, coreVars,
                   proc, owner, receipt, boundVars>>

\* The row, or the lease that never became one, gives its CID back last.
ReleaseIdentity(j) ==
    /\ teardown[j] = "swept"
    /\ RetireVm(vm_id[j]) \/ ReleaseLease(vm_id[j])
    /\ UNCHANGED jobVars
    /\ IF name_lock[j] = "cleaner"
       THEN Advance(j, "files") /\ UNCHANGED <<worker, lifecycle, name_lock, tried>>
       ELSE EndTeardown(j)
    /\ UNCHANGED <<daemon, cleaner, retained, sessions, vmmVars, boundVars>>

\* A step fails or the attempt is dropped (the cleanup tick gives up after 15
\* seconds); a backend call may have killed the process without confirming it.
Abandon(j) ==
    /\ Fault
    /\ \/ teardown[j] # "none" /\ EndTeardown(j) /\ UNCHANGED cleaner
       \/ /\ cleaner[j] # "none" /\ lifecycle[j] = "tick"
          /\ cleaner' = [cleaner EXCEPT ![j] = "none"] /\ Unlock(lifecycle, j)
          /\ UNCHANGED <<worker, name_lock, teardown, tried>>
    /\ \/ UNCHANGED proc
       \/ teardown[j] = "kill" /\ proc' = Killed(vm_id[j])
    /\ UNCHANGED <<journalVars, daemon, retained, sessions, owner, receipt, disk>>

-----------------------------------------------------------------------------
(* cleanup_job_vm, run by the finished worker and by the cleanup tick, and *)
(* the generic destruction of a VM by its name.                            *)

CleanupDue(j) == state[j] \in Terminal /\ j \in cleanup_pending

\* The record is read under the lifecycle lock, before the name lock is taken.
ReadForCleanup(j, who) ==
    /\ CleanupDue(j) /\ Lock(lifecycle, j, who)
    /\ cleaner' = [cleaner EXCEPT ![j] = IF CleanupProven(j) THEN "sure" ELSE "unsure"]

StartWorkerCleanup(j) ==
    /\ worker[j] = "cleanup" /\ lifecycle[j] = "free"
    /\ \/ ReadForCleanup(j, "worker") /\ UNCHANGED worker
       \/ ~CleanupDue(j) /\ Goto(j, "finished") /\ UNCHANGED <<lifecycle, cleaner>>
    /\ UNCHANGED <<journalVars, daemon, name_lock, teardown, coreVars, vmmVars, boundVars>>

StartTickCleanup(j) ==
    /\ daemon = "up"
    /\ ReadForCleanup(j, "tick")
    /\ UNCHANGED <<journalVars, daemon, worker, name_lock, teardown, coreVars, vmmVars,
                   boundVars>>

Waiting(j) == cleaner[j] # "none" /\ name_lock[j] = "free"

\* Mutant: only a VM row or an entered lease is cleaned up, so a generation that
\* was retired by somebody else never is.
CleanupEntryOwned(j) ==
    LET v == vm_id[j]
    IN  IF v \in vms THEN IF j \in vm_destroyed THEN "proven" ELSE "kill"
        ELSE IF v \in leases \cap backend_entered THEN "kill"
        ELSE "refused"

\* Where the cleanup continues once it holds the name lock.  A VM row or an
\* entered lease has to be destroyed; what is neither is refused unless the
\* record already said that the generation is gone.
CleanupEntry(j) ==
    LET v == vm_id[j]
    IN  IF v \in vms THEN IF j \in vm_destroyed THEN "proven" ELSE "kill"
        ELSE IF cleaner[j] = "sure" THEN "files"
        ELSE IF v \in leases \cap backend_entered THEN "kill"
        ELSE "refused"

HoldName(j, pc) ==
    /\ cleaner' = [cleaner EXCEPT ![j] = "none"]
    /\ Lock(name_lock, j, "cleaner") /\ Advance(j, pc)
    /\ UNCHANGED <<worker, lifecycle>>

ReturnFromCleanup(j) ==
    /\ cleaner' = [cleaner EXCEPT ![j] = "none"]
    /\ Unlock(lifecycle, j)
    /\ IF lifecycle[j] = "worker" THEN Goto(j, "finished") ELSE UNCHANGED worker
    /\ UNCHANGED <<name_lock, teardown>>

CleanUnallocated(j) ==
    /\ Waiting(j) /\ vm_id[j] = NoVm
    /\ \A v \in Owners : vm_name[v] # j
    /\ ConfirmUnallocatedJobCleanup(j)
    /\ ReturnFromCleanup(j)
    /\ UNCHANGED <<daemon, coreVars, vmmVars, boundVars>>

\* A lease that carries the receipt passes it on to the job.
CleanFromLease(j) ==
    /\ Waiting(j) /\ vm_id[j] \in leases \cap lease_destroyed
    /\ RecordJobVmDestruction(vm_id[j])
    /\ HoldName(j, "files")
    /\ UNCHANGED <<daemon, coreVars, vmmVars, boundVars>>

CleanAllocation(j) ==
    /\ Waiting(j) /\ vm_id[j] # NoVm /\ vm_id[j] \notin leases \cap lease_destroyed
    /\ IF CleanupEntry(j) = "refused" THEN ReturnFromCleanup(j)
                                      ELSE HoldName(j, CleanupEntry(j))
    /\ UNCHANGED <<journalVars, daemon, coreVars, vmmVars, boundVars>>

\* Mutant: the recovery receipt is left behind.
RemoveFilesKeepReceipt(j) ==
    /\ teardown[j] = "files"
    /\ CleanupProven(j)
    /\ disk' = disk \ {j} /\ retained' = retained \ {vm_id[j]}
    /\ Advance(j, "unlease")
    /\ UNCHANGED <<journalVars, daemon, worker, lifecycle, name_lock, cleaner, tried,
                   sessions, proc, owner, receipt, boundVars>>

RemoveFiles(j) ==
    /\ teardown[j] = "files"
    /\ CleanupProven(j)
    /\ disk' = disk \ {j} /\ receipt' = receipt \ {vm_id[j]}
    /\ retained' = retained \ {vm_id[j]}
    /\ Advance(j, "unlease")
    /\ UNCHANGED <<journalVars, daemon, worker, lifecycle, name_lock, cleaner, tried,
                   sessions, proc, owner, boundVars>>

ReleaseCleanedLease(j) ==
    /\ teardown[j] = "unlease"
    /\ IF vm_id[j] \in backend_entered \ lease_destroyed
       THEN RecordLeaseDestruction(vm_id[j])
       ELSE ReleaseLease(vm_id[j])
    /\ UNCHANGED jobVars
    /\ UNCHANGED <<daemon, worker, lockVars, coreVars, vmmVars, boundVars>>

ConfirmCleanup(j) ==
    /\ teardown[j] = "unlease" /\ vm_id[j] \notin leases
    /\ ConfirmJobCleanup(j)
    /\ EndTeardown(j)
    /\ UNCHANGED <<daemon, cleaner, retained, sessions, vmmVars, boundVars>>

\* destroy_vm by name, and expiration_tick: the name lock alone.
StartDestroy(j) ==
    /\ Running /\ vm_id[j] \in vms
    /\ Lock(name_lock, j, "destroyer")
    /\ Advance(j, IF j \in vm_destroyed THEN "proven" ELSE "kill")
    /\ UNCHANGED <<journalVars, daemon, worker, lifecycle, cleaner, coreVars, vmmVars,
                   boundVars>>

-----------------------------------------------------------------------------
(* reconcile_finished_workers, at the head of every cleanup tick.          *)

\* What is recorded for a job whose execution was lost.
LostOutcome(j) ==
    IF Expired(j) THEN "timed_out"
    ELSE IF state[j] = "accepted" THEN "interrupted" ELSE "unknown"

\* Mutant: an unpublished outcome is left to the worker that is gone.
ReconcileWorkerUnsealed(j) ==
    /\ daemon = "up" /\ worker[j] = "finished"
    /\ \A i \in Jobs : lifecycle[i] # "tick"
    /\ ~Undecided(j)
    /\ \/ RecordJobLeasedPrebackendAbort(j, vm_id[j]) /\ UNCHANGED worker
       \/ ~CleanupDue(j) /\ Goto(j, "none") /\ UNCHANGED journalVars
    /\ UNCHANGED <<daemon, lockVars, coreVars, vmmVars, boundVars>>

ReconcileWorker(j) ==
    /\ daemon = "up" /\ worker[j] = "finished"
    /\ \A i \in Jobs : lifecycle[i] # "tick"
    /\ \/ FinishJobFailure(j, LostOutcome(j)) /\ UNCHANGED worker
       \/ ~Undecided(j) /\ RecordJobLeasedPrebackendAbort(j, vm_id[j]) /\ UNCHANGED worker
       \/ ~Undecided(j) /\ ~CleanupDue(j) /\ Goto(j, "none") /\ UNCHANGED journalVars
    /\ UNCHANGED <<daemon, lockVars, coreVars, vmmVars, boundVars>>

-----------------------------------------------------------------------------
(* The daemon process and the host.                                        *)

\* Memory is lost and the locks with it; child processes may survive.
LoseMemory ==
    /\ daemon' = "down"
    /\ worker' = [j \in Jobs |-> "none"]
    /\ lifecycle' = [j \in Jobs |-> "free"] /\ name_lock' = [j \in Jobs |-> "free"]
    /\ cleaner' = [j \in Jobs |-> "none"] /\ teardown' = [j \in Jobs |-> "none"]
    /\ retained' = {} /\ tried' = {} /\ owner' = {}
    /\ proc' \in SUBSET proc
    /\ UNCHANGED <<journalVars, sessions, receipt, disk>>

\* A crash, or a start-up that fails.
Crash ==
    /\ daemon \in {"up", "recovering"} /\ crashes < MaxCrashes
    /\ crashes' = crashes + 1 /\ UNCHANGED faults
    /\ LoseMemory

\* The exit of a draining daemon, orderly or after its grace.
ExitDrained == daemon = "draining" /\ LoseMemory /\ UNCHANGED boundVars

HostReboot ==
    /\ daemon = "down" /\ Reboot(here) /\ UNCHANGED jobVars
    /\ proc' = {}
    /\ UNCHANGED <<daemon, worker, lockVars, coreVars, owner, receipt, disk, boundVars>>

\* Mutant: only VM rows protect a directory.
KnownNamesOfRows == {j \in Jobs : \E v \in vms : vm_name[v] = j}

\* reconcile_host_resources: directories and runtime files of an earlier daemon
\* are removed unless a VM row, a lease or an unfinished job still names them.
KnownNames == {j \in Jobs : j \in Holding \cap claimed \/ \E v \in Owners : vm_name[v] = j}
KnownVms == Owners \cup {vm_id[j] : j \in Holding}

Restart ==
    /\ daemon = "down" /\ OpenStore(here) /\ UNCHANGED jobVars
    /\ disk' = disk \cap KnownNames /\ receipt' = receipt \cap KnownVms
    /\ daemon' = "recovering"
    /\ UNCHANGED <<worker, lockVars, coreVars, proc, owner, boundVars>>

\* recover_after_restart: every unfinished job is sealed, none is resumed.
RecoverSeal(j) ==
    /\ daemon = "recovering" /\ FinishJobFailure(j, LostOutcome(j))
    /\ UNCHANGED <<daemon, worker, lockVars, coreVars, vmmVars, boundVars>>

\* Then every lease that never entered a backend is fenced.
Unfenced == {j \in Jobs : \E v \in Vms : AbortAllowed(j, v) /\ j \notin vm_allocation_aborted}

RecoverFence(j) ==
    /\ daemon = "recovering" /\ In(Live) = {}
    /\ j \in Unfenced /\ RecordJobLeasedPrebackendAbort(j, vm_id[j])
    /\ UNCHANGED <<daemon, worker, lockVars, coreVars, vmmVars, boundVars>>

\* recover_host_resource_leases: a lease at a time, under its name lock.
RecoverLease(j) ==
    LET v == vm_id[j]
    IN  /\ daemon = "recovering" /\ In(Live) = {} /\ Unfenced = {}
        /\ v \in leases \ tried /\ \A i \in Jobs : name_lock[i] = "free"
        /\ Lock(name_lock, j, "recovery")
        /\ \/ /\ v \notin backend_entered /\ j \in vm_allocation_aborted
              /\ Advance(j, "proven") /\ UNCHANGED journalVars
           \/ /\ v \in backend_entered
              /\ v \in lease_destroyed \/ j \in vm_destroyed
              /\ Advance(j, IF v \in lease_destroyed THEN "leased" ELSE "killed")
              /\ UNCHANGED journalVars
           \/ /\ v \in backend_entered \ lease_destroyed /\ j \notin vm_destroyed
              /\ \/ ConfirmReboot(v) /\ UNCHANGED jobVars /\ Advance(j, "leased")
                 \/ Advance(j, "kill") /\ UNCHANGED journalVars
        /\ UNCHANGED <<daemon, worker, lifecycle, cleaner, coreVars, vmmVars, boundVars>>

\* Mutant: the daemon serves before the outcomes are recovered.
ServeUnsealed ==
    /\ daemon = "recovering" /\ daemon' = "up"
    /\ UNCHANGED <<journalVars, worker, lockVars, coreVars, vmmVars, boundVars>>

Serve ==
    /\ daemon = "recovering" /\ In(Live) = {} /\ Unfenced = {}
    /\ leases \subseteq tried /\ \A j \in Jobs : name_lock[j] = "free"
    /\ daemon' = "up"
    /\ UNCHANGED <<journalVars, worker, lockVars, coreVars, vmmVars, boundVars>>

CloseAdmission ==
    /\ daemon = "up" /\ crashes < MaxCrashes
    /\ daemon' = "draining" /\ crashes' = crashes + 1
    /\ UNCHANGED <<journalVars, worker, lockVars, coreVars, vmmVars, faults>>

\* shutdown_factory_jobs seals what is unfinished and joins the workers.
ShutdownSeal(j) ==
    /\ daemon = "draining"
    /\ FinishJobFailure(j, IF Expired(j) THEN "timed_out" ELSE "interrupted")
    /\ UNCHANGED <<daemon, worker, lockVars, coreVars, vmmVars, boundVars>>

-----------------------------------------------------------------------------

\* The worker task, one step after another.
WorkerStep(j) ==
    \/ SealUnslotted(j)
    \/ ClaimVm(j) \/ PlanVm(j) \/ StageInputs(j) \/ AbortPlan(j) \/ AdoptLease(j)
    \/ EnterVmm(j) \/ AbortAdopted(j) \/ SpawnVmm(j) \/ PersistReceipt(j)
    \/ CommitRow(j) \/ AdmitVm(j) \/ RecordFailure(j) \/ Seal(j)
    \/ TakeLaunch(j) \/ Connect(j) \/ MarkRunning(j) \/ LaunchFails(j)
    \/ StartSession(j) \/ NeverRan(j) \/ StageResult(j) \/ PublishResult(j)
    \/ CollectionFails(j) \/ Interrupt(j)
    \/ StartWorkerCleanup(j)

\* Whoever waits for the name lock in a cleanup, or holds it in a teardown.
TeardownStep(j) ==
    \/ CleanUnallocated(j) \/ CleanFromLease(j) \/ CleanAllocation(j)
    \/ KillVmm(j) \/ KillRefused(j) \/ JournalLeaseDeath(j) \/ JournalJobDeath(j)
    \/ SweepDirectory(j) \/ ReleaseIdentity(j) \/ RemoveFiles(j)
    \/ ReleaseCleanedLease(j) \/ ConfirmCleanup(j)

DaemonStep ==
    \/ \E j \in Jobs : RecoverSeal(j) \/ RecoverFence(j) \/ RecoverLease(j)
    \/ ExitDrained \/ Restart \/ Serve

\* Steps nothing has to take: clients, the guest, failures.
EnvironmentMove(j) ==
    \/ \E s \in Submissions : Submit(j, s)
    \/ Cancel(j) \/ Forget(j) \/ StartDestroy(j)
    \/ CaptureOutput(j) \/ SessionEnds(j)
    \/ Rollback(j) \/ StopUnsealed(j) \/ Panic(j) \/ Abandon(j)

FactoryNext ==
    \/ \E j \in Jobs :
          \/ WorkerStep(j) \/ TeardownStep(j) \/ DeadlineStop(j)
          \/ StartTickCleanup(j) \/ ReconcileWorker(j)
          \/ ShutdownSeal(j) \/ EnvironmentMove(j)
    \/ DaemonStep
    \/ TimePasses \/ Crash \/ HostReboot \/ CloseAdmission

FactorySpec == FactoryInit /\ [][FactoryNext]_factoryVars

\* Tasks are polled by the runtime and its mutexes queue fairly, the ticks are
\* timers, the clock runs, and a supervisor restarts the daemon.
Fairness ==
    /\ \A j \in Jobs :
          /\ SF_factoryVars(WorkerStep(j))
          /\ SF_factoryVars(TeardownStep(j))
          /\ WF_factoryVars(DeadlineStop(j))
          /\ SF_factoryVars(StartTickCleanup(j))
          /\ SF_factoryVars(ReconcileWorker(j))
    /\ WF_factoryVars(DaemonStep)
    /\ WF_factoryVars(TimePasses)

FairFactorySpec == FactorySpec /\ Fairness

-----------------------------------------------------------------------------
(* Properties.                                                             *)

\* No VMM process is ever without a durable owner: whatever crashed, timed out
\* or was cancelled, a lease or a VM row still names the generation, and its
\* directory is still there under it.
ProcessIsOwned ==
    /\ proc \subseteq Owners
    /\ \A j \in Jobs : vm_id[j] \in proc => j \in disk

\* Every receipt of death is true, and stays true: a generation with a journaled
\* destruction, a retained proof, a destroyed or reboot-confirmed lease or an
\* allocation abort has no process, and none can appear later.
ReceiptSound ==
    /\ proc \cap (lease_destroyed \cup confirmed \cup retained) = {}
    /\ \A j \in Jobs : CleanupProven(j) => vm_id[j] \notin proc

\* Until one of the receipts exists, a bound generation still owns its lease or
\* VM row, so a cleanup always finds what it has to destroy.
OwnedUntilProven ==
    \A j \in Jobs : Bound(j) /\ ~CleanupProven(j) => vm_id[j] \in Owners

\* A released job has left nothing behind: no process, backend owner, lease, VM
\* row, directory or recovery receipt of its generation.
ReleasedMeansGone ==
    \A j \in Jobs :
        Bound(j) /\ j \notin cleanup_pending =>
            /\ vm_id[j] \notin proc \cup owner \cup Owners \cup receipt
            /\ j \notin disk

\* Two jobs that are created, run and torn down at the same time are never taken
\* for each other: a process belongs to the generation that owns it, a CID and a
\* generation have one owner, and what a job released is gone, also when the
\* other job reuses its CID while the first worker still holds the slot.
JobsKeptApart ==
    /\ ProcessIsOwned
    /\ CidOwnedOnce
    /\ OneJobPerGeneration
    /\ ReleasedMeansGone

\* The guest command is started at most once per accepted job, over lost
\* acknowledgements, panics, cancellations and restarts, and only a started
\* command has a result.
ExecutedOnce ==
    \A j \in Jobs :
        /\ sessions[j] <= 1
        /\ state[j] \in Commanded => sessions[j] = 1

\* While the daemon serves, an allocating or executing job has a registered
\* worker; after a restart there is none, because nothing is resumed.
ExecutionHasWorker ==
    daemon = "up" =>
        \A j \in In({"preparing", "running"}) : worker[j] \notin {"none", "noslot"}

\* A guest receipt that was staged survives whatever decides the job.
StagedReceiptKept ==
    [][\A j \in Jobs : manifest[j] # NoReceipt /\ state'[j] # "deleted"
          => manifest'[j] = manifest[j]]_factoryVars

\* Nothing proves the death of the generation in this daemon: no owner, no
\* recovery receipt, no retained or journaled proof.
Unprovable(j) ==
    /\ Bound(j) /\ ~CleanupProven(j)
    /\ vm_id[j] \notin owner \cup receipt \cup retained \cup lease_destroyed

\* Every accepted job is decided, at the latest after its deadline or a restart.
\* The one exception is a job that found no worker slot and whose immediate
\* seal failed: it has no worker and waits for the next restart.
EveryJobDecided ==
    \A j \in Jobs :
        state[j] \in Live ~> state[j] \notin Live \/ (state[j] = "accepted" /\ worker[j] = "none")

\* A decided job is eventually released, unless its process was lost in a crash
\* before a recovery receipt existed, so that only a host reboot proves its end.
CleanupCompletes ==
    \A j \in Jobs : []<>~CleanupDue(j) \/ <>[]Unprovable(j)
=============================================================================
