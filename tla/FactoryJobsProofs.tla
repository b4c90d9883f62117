-------------------------- MODULE FactoryJobsProofs -------------------------
(***************************************************************************)
(* Proofs about factory execution, for any number of jobs and generations, *)
(* any number of failing calls, crashes and reboots.                       *)
(***************************************************************************)
EXTENDS FactoryJobs, JobJournalProofs

\* Which task holds a job's two locks, and that none holds one that it left.
Locks(j) ==
    /\ LockHolders(j)
    /\ lifecycle[j] = "worker" => worker[j] \in Creating \cup Launching \cup {"connect", "cleanup"}
    /\ lifecycle[j] \in {"free", "worker", "tick"}
    /\ ~(cleaner[j] # "none" /\ name_lock[j] = "cleaner")
    /\ teardown[j] \in {"files", "unlease"} => name_lock[j] = "cleaner"
    /\ daemon \in {"down", "recovering"} => worker[j] = "none"

\* Before its backend entry a generation is a planned lease and nothing else.
Planned == {"bound", "staged", "unplan", "adopted", "unadopt", "entered"}

\* What the allocating worker knows of its job and its generation.
Allocates(j) ==
    /\ worker[j] \in {"start", "noslot"} => j \notin claimed
    /\ worker[j] \in Creating => j \in cleanup_pending
    /\ worker[j] = "claimed" => ~Bound(j)
    /\ worker[j] \in Planned =>
          /\ Bound(j) /\ teardown[j] = "none" /\ j \notin vm_destroyed
          /\ vm_id[j] \notin vms \cup retained \cup proc \cup owner
    /\ worker[j] = "entered" =>
          /\ vm_id[j] \in backend_entered
          /\ vm_id[j] \notin lease_destroyed \cup confirmed
          /\ entered_at[vm_id[j]] = Current
    /\ worker[j] \in {"adopted", "entered", "spawned", "created"} => j \in disk
    /\ worker[j] \in {"spawned", "created"} => vm_id[j] \in owner
    /\ worker[j] = "rollback" /\ teardown[j] = "kill" /\ vm_id[j] \in proc => vm_id[j] \in owner

\* How often the command was started, by where the worker is.
Executes(j) ==
    /\ sessions[j] <= 1
    /\ worker[j] \in {"start", "noslot", "launch", "connect"} \cup Creating \cup Launching
          => sessions[j] = 0
    /\ worker[j] \in {"collect", "publish"} => sessions[j] = 1
    /\ state[j] = "absent" => worker[j] = "none" /\ sessions[j] = 0
    /\ state[j] \in Commanded => sessions[j] = 1
    /\ daemon = "up" /\ state[j] \in {"preparing", "running"} => worker[j] \notin {"none", "noslot"}

\* What a cleanup, or the holder of the name lock, has established so far.
TearsDown(j) ==
    /\ cleaner[j] # "none" => j \in cleanup_pending
    /\ cleaner[j] = "sure" => CleanupProven(j)
    /\ teardown[j] # "none" => Bound(j) /\ j \in cleanup_pending
    /\ teardown[j] \in {"killed", "leased"} => vm_id[j] \notin proc \cup owner
    /\ teardown[j] \in {"proven", "swept", "files", "unlease"} => CleanupProven(j)
    /\ teardown[j] \in {"files", "unlease"} => vm_id[j] \notin vms
    /\ teardown[j] = "unlease" => j \notin disk /\ vm_id[j] \notin receipt

\* What is true of a generation's process, owner and receipts.
Owns(j) ==
    /\ vm_id[j] \in proc \cup owner =>
          /\ vm_id[j] \in vms \cup backend_entered
          /\ vm_id[j] \notin lease_destroyed \cup confirmed \cup retained
          /\ ~CleanupProven(j)
    /\ vm_id[j] \in owner => daemon \in {"up", "draining"}
    /\ vm_id[j] \in proc => j \in disk
    /\ vm_id[j] \in proc \cap leases => entered_at[vm_id[j]] = Current
    /\ Bound(j) /\ ~CleanupProven(j) => vm_id[j] \in Owners
    /\ Bound(j) /\ j \notin cleanup_pending =>
          vm_id[j] \notin Owners \cup receipt /\ j \notin disk

JobInv(j) == Locks(j) /\ Allocates(j) /\ Executes(j) /\ TearsDown(j) /\ Owns(j)

\* Every generation the backend or the store knows is some job's.
Named == \A v \in Owners \cup proc \cup owner \cup retained : \E j \in Jobs : vm_id[j] = v

FactoryInv == JournalInv /\ CoreTypeOK /\ Named /\ \A j \in Jobs : JobInv(j)

-----------------------------------------------------------------------------
(* Every step commits at most one transaction of the journal.              *)

\* What the lease store is asked for names a generation it knows.
LEMMA LeaseCalls ==
  ASSUME JournalInv, NEW v,
         \/ EnterBackend(v) \/ CommitVm(v) \/ ConfirmReboot(v) \/ RecordLeaseDestruction(v)
         \/ ReleaseLease(v) \/ RetireVm(v)
  PROVE  v \in Vms /\ (UNCHANGED jobVars => Transaction)
<1>1. v \in Vms
  BY DEF EnterBackend, EntryEligible, CommitVm, ConfirmReboot, RebootProven,
      RecordLeaseDestruction, ReleaseLease, ReleaseAllowed, RetireVm, JournalInv, LeaseInv,
      LeaseTypeOK
<1> QED BY <1>1 DEF Transaction, LeaseNext, LeaseStep

\* finish_job_failure, with whatever receipt is staged.
LEMMA FailureCalls ==
  ASSUME JournalInv, NEW j \in Jobs, NEW o, FinishJobFailure(j, o)
  PROVE  /\ Transaction
         /\ o \in HostFailed /\ state[j] \in Live /\ state' = [state EXCEPT ![j] = o]
         /\ UNCHANGED <<leaseVars, claimed, vm_id, cleanup_pending, vm_destroyed,
                        vm_allocation_aborted>>
<1>1. manifest[j] \in Receipts \cup {NoReceipt} /\ "failed" \in Collections /\ o \in Terminal
  BY DEF JournalInv, JobTypeOK, Collections, FinishJobFailure, Terminal
<1>2. Decide(j, o, "failed", manifest[j])
  BY DEF FinishJobFailure
<1>3. Transaction
  BY <1>1, <1>2 DEF Transaction, JobTransaction
<1> QED BY <1>2, <1>3 DEF FinishJobFailure, Decide, Undecided

\* The fence names the planned lease of the job.
LEMMA AbortCalls ==
  ASSUME JournalInv, NEW j \in Jobs, RecordJobLeasedPrebackendAbort(j, vm_id[j])
  PROVE  Transaction
<1>1. vm_id[j] \in Vms
  BY DEF RecordJobLeasedPrebackendAbort, AbortAllowed, JournalInv, LeaseInv, LeaseTypeOK
<1> QED BY <1>1 DEF Transaction, JobTransaction

-----------------------------------------------------------------------------
(* Steps that leave every generation, its process and its receipts alone.  *)

\* Another job is where it was; its tombstone may have been dropped.
Still(i) ==
    /\ state'[i] = state[i] \/ state'[i] = "purged"
    /\ worker'[i] = worker[i] /\ sessions'[i] = sessions[i]
    /\ lifecycle'[i] = lifecycle[i] /\ name_lock'[i] = name_lock[i]
    /\ cleaner'[i] = cleaner[i] /\ teardown'[i] = teardown[i]

Ownership == <<leaseVars, claimed, vm_id, cleanup_pending, vm_destroyed, vm_allocation_aborted>>

\* It is enough to look at the job that moves.
LEMMA QuietInv ==
  ASSUME FactoryInv, NEW j \in Jobs, [Transaction]_journalVars,
         UNCHANGED Ownership, UNCHANGED <<daemon, retained, vmmVars>>, CoreTypeOK',
         \A i \in Jobs \ {j} : Still(i),
         Locks(j)', Allocates(j)', Executes(j)', TearsDown(j)'
  PROVE  FactoryInv'
<1>1. JournalInv'
  BY TransactionInv DEF FactoryInv
<1>2. Current' = Current /\ Owners' = Owners
  BY DEF Current, Owners, Ownership, leaseVars, rowVars, hostVars
<1>3. Named'
  BY <1>2 DEF FactoryInv, Named, Ownership, leaseVars, rowVars, vmmVars
<1>4. ASSUME NEW i \in Jobs PROVE Owns(i)'
  BY <1>2 DEF FactoryInv, JobInv, Owns, Bound, CleanupProven, Ownership, leaseVars, rowVars,
      flagVars, vmmVars
<1>5. ASSUME NEW i \in Jobs \ {j} PROVE Locks(i)' /\ TearsDown(i)'
  BY DEF FactoryInv, JobInv, Locks, LockHolders, TearsDown, Still, Bound, CleanupProven,
      Ownership, leaseVars, rowVars, vmmVars
<1>6. ASSUME NEW i \in Jobs \ {j} PROVE Allocates(i)'
  BY <1>2 DEF FactoryInv, JobInv, Allocates, Still, Bound, Ownership, leaseVars, rowVars,
      flagVars, vmmVars
<1>7. ASSUME NEW i \in Jobs \ {j} PROVE Executes(i)'
  BY DEF FactoryInv, JobInv, Executes, Still, Commanded
<1> QED BY <1>1, <1>3, <1>4, <1>5, <1>6, <1>7 DEF FactoryInv, JobInv

\* At most a host failure is journaled, over whatever receipt is staged.
Sealed(j) ==
    /\ [Transaction]_journalVars /\ UNCHANGED Ownership
    /\ UNCHANGED state \/ \E o \in HostFailed : state[j] \in Live /\ state' = [state EXCEPT ![j] = o]

\* Every way in which a worker, a tick or the recovery decides a job.
LEMMA SealCalls ==
  ASSUME JournalInv, NEW j \in Jobs, NEW o,
         SealAs(j, o) \/ FinishJobFailure(j, o) \/ UNCHANGED journalVars
  PROVE  Sealed(j)
<1>1. CASE UNCHANGED journalVars
  BY <1>1 DEF Sealed, Ownership, journalVars, jobVars
<1>2. CASE FinishJobFailure(j, o)
  BY <1>2, FailureCalls DEF Sealed, Ownership
<1> QED BY <1>1, <1>2 DEF SealAs

\* Clients, deadlines, recovery and shutdown only decide a job or touch its
\* evidence.
LEMMA EvidenceInv ==
  ASSUME FactoryInv, NEW j \in Jobs,
         \/ Cancel(j) \/ DeadlineStop(j) \/ Forget(j) \/ RecoverSeal(j) \/ ShutdownSeal(j)
         \/ CaptureOutput(j)
  PROVE  FactoryInv'
<1>0. JournalInv /\ CoreTypeOK /\ JobInv(j) /\ state \in [Jobs -> JobStates]
  BY DEF FactoryInv, JournalInv, JobTypeOK
<1>1. UNCHANGED <<daemon, worker, lockVars, coreVars, vmmVars, boundVars>>
  BY DEF Cancel, DeadlineStop, Forget, RecoverSeal, ShutdownSeal, CaptureOutput
<1>2. /\ [Transaction]_journalVars /\ UNCHANGED Ownership
      /\ UNCHANGED state \/ \E o \in HostFailed \cup {"deleted"} : state' = [state EXCEPT ![j] = o]
  <2>1. CASE Forget(j)
    BY <2>1 DEF Forget, DeleteJobEvidence, Ownership, Transaction, JobTransaction
  <2>2. CASE CaptureOutput(j)
    BY <2>2 DEF CaptureOutput, AppendJobEvents, Ownership, Transaction, JobTransaction
  <2>3. CASE ~Forget(j) /\ ~CaptureOutput(j)
    <3>1. PICK o : FinishJobFailure(j, o)
      BY <2>3 DEF Cancel, DeadlineStop, RecoverSeal, ShutdownSeal
    <3> QED BY <1>0, <3>1, FailureCalls DEF Ownership
  <2> QED BY <2>1, <2>2, <2>3
<1>3. CoreTypeOK' /\ \A i \in Jobs \ {j} : Still(i)
  BY <1>0, <1>1, <1>2 DEF CoreTypeOK, Still, lockVars, coreVars, vmmVars, boundVars
<1>4. Locks(j)' /\ TearsDown(j)'
  BY <1>0, <1>1, <1>2 DEF JobInv, Locks, LockHolders, TearsDown, Bound, CleanupProven, Ownership,
      leaseVars, rowVars, lockVars, vmmVars
<1>5. Allocates(j)'
  BY <1>0, <1>1, <1>2 DEF JobInv, Allocates, Bound, Current, Ownership, leaseVars, rowVars,
      flagVars, hostVars, lockVars, coreVars, vmmVars
<1>6. Executes(j)'
  BY <1>0, <1>1, <1>2 DEF JobInv, Executes, Commanded, HostFailed, coreVars
<1> QED BY <1>1, <1>2, <1>3, <1>4, <1>5, <1>6, QuietInv DEF coreVars

\* Steps of a worker or a cleanup that move locks and where its task is.
LEMMA WorkerMovesInv ==
  ASSUME FactoryInv, NEW j \in Jobs,
         \/ SealUnslotted(j) \/ StageInputs(j) \/ AdmitVm(j) \/ RecordFailure(j)
         \/ Seal(j) \/ TakeLaunch(j) \/ Connect(j) \/ LaunchFails(j)
         \/ StartSession(j) \/ SessionEnds(j) \/ NeverRan(j) \/ CollectionFails(j)
         \/ Interrupt(j) \/ StopUnsealed(j) \/ Panic(j) \/ StartWorkerCleanup(j)
         \/ StartTickCleanup(j)
  PROVE  FactoryInv'
<1> USE DEF Goto, Lock, Unlock, Fault, NoFault, lockVars, coreVars, vmmVars, boundVars,
    Creating, NameLocked, Executing, Launching
<1>0. JournalInv /\ CoreTypeOK /\ JobInv(j) /\ state \in [Jobs -> JobStates]
  BY DEF FactoryInv, JournalInv, JobTypeOK
<1>1. UNCHANGED <<daemon, retained, vmmVars>>
  BY DEF AdmitVm, CleanupDue, CollectionFails, Connect, DropExecution, Interrupt,
      LaunchFails, NeverRan, Observable, Panic, ReadForCleanup, RecordFailure, Seal,
      SealUnslotted, SessionEnds, StageInputs, StartSession, StartTickCleanup,
      StartWorkerCleanup, StopUnsealed, TakeLaunch
<1>2. Sealed(j)
  BY <1>0, SealCalls DEF AdmitVm, CleanupDue, CollectionFails, Connect, DropExecution,
      Interrupt, LaunchFails, NeverRan, Observable, Panic, ReadForCleanup, RecordFailure,
      Seal, SealUnslotted, SessionEnds, StageInputs, StartSession, StartTickCleanup,
      StartWorkerCleanup, StopUnsealed, TakeLaunch
<1>3. CASE SealUnslotted(j)
  <2>1. CoreTypeOK' /\ \A i \in Jobs \ {j} : Still(i)
    BY <1>0, <1>1, <1>2, <1>3 DEF SealUnslotted, CoreTypeOK, Still, Sealed, WorkerPcs,
        Holders, TeardownPcs
  <2>2. Locks(j)' /\ TearsDown(j)'
    BY <1>0, <1>1, <1>2, <1>3 DEF SealUnslotted, JobInv, Locks, LockHolders, TearsDown,
        Bound, CleanupProven, Sealed, Ownership, leaseVars, rowVars, CoreTypeOK
  <2>3. Allocates(j)'
    BY <1>0, <1>1, <1>2, <1>3 DEF SealUnslotted, JobInv, Allocates, Locks, LockHolders,
        Planned, Bound, Current, Sealed, Ownership, leaseVars, rowVars, flagVars, hostVars,
        CoreTypeOK
  <2>4. Executes(j)'
    BY <1>0, <1>1, <1>2, <1>3 DEF SealUnslotted, JobInv, Executes, Sealed, Live, Commanded,
        HostFailed, CoreTypeOK
  <2> QED BY <1>1, <1>2, <2>1, <2>2, <2>3, <2>4, QuietInv DEF Sealed
<1>4. CASE StageInputs(j)
  <2>1. CoreTypeOK' /\ \A i \in Jobs \ {j} : Still(i)
    BY <1>0, <1>1, <1>2, <1>4 DEF StageInputs, CoreTypeOK, Still, Sealed, WorkerPcs,
        Holders, TeardownPcs
  <2>2. Locks(j)' /\ TearsDown(j)'
    BY <1>0, <1>1, <1>2, <1>4 DEF StageInputs, JobInv, Locks, LockHolders, TearsDown, Bound,
        CleanupProven, Sealed, Ownership, leaseVars, rowVars, CoreTypeOK
  <2>3. Allocates(j)'
    BY <1>0, <1>1, <1>2, <1>4 DEF StageInputs, JobInv, Allocates, Locks, LockHolders,
        Planned, Bound, Current, Sealed, Ownership, leaseVars, rowVars, flagVars, hostVars,
        CoreTypeOK
  <2>4. Executes(j)'
    BY <1>0, <1>1, <1>2, <1>4 DEF StageInputs, JobInv, Executes, Sealed, Live, Commanded,
        HostFailed, CoreTypeOK
  <2> QED BY <1>1, <1>2, <2>1, <2>2, <2>3, <2>4, QuietInv DEF Sealed
<1>5. CASE AdmitVm(j)
  <2>1. CoreTypeOK' /\ \A i \in Jobs \ {j} : Still(i)
    BY <1>0, <1>1, <1>2, <1>5 DEF AdmitVm, CoreTypeOK, Still, Sealed, WorkerPcs, Holders,
        TeardownPcs
  <2>2. Locks(j)' /\ TearsDown(j)'
    BY <1>0, <1>1, <1>2, <1>5 DEF AdmitVm, JobInv, Locks, LockHolders, TearsDown, Bound,
        CleanupProven, Sealed, Ownership, leaseVars, rowVars, CoreTypeOK
  <2>3. Allocates(j)'
    BY <1>0, <1>1, <1>2, <1>5 DEF AdmitVm, JobInv, Allocates, Locks, LockHolders, Planned,
        Bound, Current, Sealed, Ownership, leaseVars, rowVars, flagVars, hostVars,
        CoreTypeOK
  <2>4. Executes(j)'
    BY <1>0, <1>1, <1>2, <1>5 DEF AdmitVm, JobInv, Executes, Sealed, Live, Commanded,
        HostFailed, CoreTypeOK
  <2> QED BY <1>1, <1>2, <2>1, <2>2, <2>3, <2>4, QuietInv DEF Sealed
<1>6. CASE RecordFailure(j)
  <2>1. CoreTypeOK' /\ \A i \in Jobs \ {j} : Still(i)
    BY <1>0, <1>1, <1>2, <1>6 DEF RecordFailure, CoreTypeOK, Still, Sealed, WorkerPcs,
        Holders, TeardownPcs
  <2>2. Locks(j)' /\ TearsDown(j)'
    BY <1>0, <1>1, <1>2, <1>6 DEF RecordFailure, JobInv, Locks, LockHolders, TearsDown,
        Bound, CleanupProven, Sealed, Ownership, leaseVars, rowVars, CoreTypeOK
  <2>3. Allocates(j)'
    BY <1>0, <1>1, <1>2, <1>6 DEF RecordFailure, JobInv, Allocates, Locks, LockHolders,
        Planned, Bound, Current, Sealed, Ownership, leaseVars, rowVars, flagVars, hostVars,
        CoreTypeOK
  <2>4. Executes(j)'
    BY <1>0, <1>1, <1>2, <1>6 DEF RecordFailure, JobInv, Executes, Sealed, Live, Commanded,
        HostFailed, CoreTypeOK
  <2> QED BY <1>1, <1>2, <2>1, <2>2, <2>3, <2>4, QuietInv DEF Sealed
<1>7. CASE Seal(j)
  <2>1. CoreTypeOK' /\ \A i \in Jobs \ {j} : Still(i)
    BY <1>0, <1>1, <1>2, <1>7 DEF Seal, CoreTypeOK, Still, Sealed, WorkerPcs, Holders,
        TeardownPcs
  <2>2. Locks(j)' /\ TearsDown(j)'
    BY <1>0, <1>1, <1>2, <1>7 DEF Seal, JobInv, Locks, LockHolders, TearsDown, Bound,
        CleanupProven, Sealed, Ownership, leaseVars, rowVars, CoreTypeOK
  <2>3. Allocates(j)'
    BY <1>0, <1>1, <1>2, <1>7 DEF Seal, JobInv, Allocates, Locks, LockHolders, Planned,
        Bound, Current, Sealed, Ownership, leaseVars, rowVars, flagVars, hostVars,
        CoreTypeOK
  <2>4. Executes(j)'
    BY <1>0, <1>1, <1>2, <1>7 DEF Seal, JobInv, Executes, Sealed, Live, Commanded,
        HostFailed, CoreTypeOK
  <2> QED BY <1>1, <1>2, <2>1, <2>2, <2>3, <2>4, QuietInv DEF Sealed
<1>8. CASE TakeLaunch(j)
  <2>1. CoreTypeOK' /\ \A i \in Jobs \ {j} : Still(i)
    BY <1>0, <1>1, <1>2, <1>8 DEF TakeLaunch, CoreTypeOK, Still, Sealed, WorkerPcs, Holders,
        TeardownPcs
  <2>2. Locks(j)' /\ TearsDown(j)'
    BY <1>0, <1>1, <1>2, <1>8 DEF TakeLaunch, JobInv, Locks, LockHolders, TearsDown, Bound,
        CleanupProven, Sealed, Ownership, leaseVars, rowVars, CoreTypeOK
  <2>3. Allocates(j)'
    BY <1>0, <1>1, <1>2, <1>8 DEF TakeLaunch, JobInv, Allocates, Locks, LockHolders,
        Planned, Bound, Current, Sealed, Ownership, leaseVars, rowVars, flagVars, hostVars,
        CoreTypeOK
  <2>4. Executes(j)'
    BY <1>0, <1>1, <1>2, <1>8 DEF TakeLaunch, JobInv, Executes, Sealed, Live, Commanded,
        HostFailed, CoreTypeOK
  <2> QED BY <1>1, <1>2, <2>1, <2>2, <2>3, <2>4, QuietInv DEF Sealed
<1>9. CASE Connect(j)
  <2>1. CoreTypeOK' /\ \A i \in Jobs \ {j} : Still(i)
    BY <1>0, <1>1, <1>2, <1>9 DEF Connect, CoreTypeOK, Still, Sealed, WorkerPcs, Holders,
        TeardownPcs
  <2>2. Locks(j)' /\ TearsDown(j)'
    BY <1>0, <1>1, <1>2, <1>9 DEF Connect, JobInv, Locks, LockHolders, TearsDown, Bound,
        CleanupProven, Sealed, Ownership, leaseVars, rowVars, CoreTypeOK
  <2>3. Allocates(j)'
    BY <1>0, <1>1, <1>2, <1>9 DEF Connect, JobInv, Allocates, Locks, LockHolders, Planned,
        Bound, Current, Sealed, Ownership, leaseVars, rowVars, flagVars, hostVars,
        CoreTypeOK
  <2>4. Executes(j)'
    BY <1>0, <1>1, <1>2, <1>9 DEF Connect, JobInv, Executes, Sealed, Live, Commanded,
        HostFailed, CoreTypeOK
  <2> QED BY <1>1, <1>2, <2>1, <2>2, <2>3, <2>4, QuietInv DEF Sealed
<1>10. CASE LaunchFails(j)
  <2>1. CoreTypeOK' /\ \A i \in Jobs \ {j} : Still(i)
    BY <1>0, <1>1, <1>2, <1>10 DEF LaunchFails, CoreTypeOK, Still, Sealed, WorkerPcs,
        Holders, TeardownPcs
  <2>2. Locks(j)' /\ TearsDown(j)'
    BY <1>0, <1>1, <1>2, <1>10 DEF LaunchFails, JobInv, Locks, LockHolders, TearsDown,
        Bound, CleanupProven, Sealed, Ownership, leaseVars, rowVars, CoreTypeOK
  <2>3. Allocates(j)'
    BY <1>0, <1>1, <1>2, <1>10 DEF LaunchFails, JobInv, Allocates, Locks, LockHolders,
        Planned, Bound, Current, Sealed, Ownership, leaseVars, rowVars, flagVars, hostVars,
        CoreTypeOK
  <2>4. Executes(j)'
    BY <1>0, <1>1, <1>2, <1>10 DEF LaunchFails, JobInv, Executes, Sealed, Live, Commanded,
        HostFailed, CoreTypeOK
  <2> QED BY <1>1, <1>2, <2>1, <2>2, <2>3, <2>4, QuietInv DEF Sealed
<1>11. CASE StartSession(j)
  <2>1. CoreTypeOK' /\ \A i \in Jobs \ {j} : Still(i)
    BY <1>0, <1>1, <1>2, <1>11 DEF StartSession, CoreTypeOK, Still, Sealed, WorkerPcs,
        Holders, TeardownPcs
  <2>2. Locks(j)' /\ TearsDown(j)'
    BY <1>0, <1>1, <1>2, <1>11 DEF StartSession, JobInv, Locks, LockHolders, TearsDown,
        Bound, CleanupProven, Sealed, Ownership, leaseVars, rowVars, CoreTypeOK
  <2>3. Allocates(j)'
    BY <1>0, <1>1, <1>2, <1>11 DEF StartSession, JobInv, Allocates, Locks, LockHolders,
        Planned, Bound, Current, Sealed, Ownership, leaseVars, rowVars, flagVars, hostVars,
        CoreTypeOK
  <2>4. Executes(j)'
    BY <1>0, <1>1, <1>2, <1>11 DEF StartSession, JobInv, Executes, Sealed, Live, Commanded,
        HostFailed, CoreTypeOK
  <2> QED BY <1>1, <1>2, <2>1, <2>2, <2>3, <2>4, QuietInv DEF Sealed
<1>12. CASE SessionEnds(j)
  <2>1. CoreTypeOK' /\ \A i \in Jobs \ {j} : Still(i)
    BY <1>0, <1>1, <1>2, <1>12 DEF SessionEnds, Observable, CoreTypeOK, Still, Sealed,
        WorkerPcs, Holders, TeardownPcs
  <2>2. Locks(j)' /\ TearsDown(j)'
    BY <1>0, <1>1, <1>2, <1>12 DEF SessionEnds, Observable, JobInv, Locks, LockHolders,
        TearsDown, Bound, CleanupProven, Sealed, Ownership, leaseVars, rowVars, CoreTypeOK
  <2>3. Allocates(j)'
    BY <1>0, <1>1, <1>2, <1>12 DEF SessionEnds, Observable, JobInv, Allocates, Locks,
        LockHolders, Planned, Bound, Current, Sealed, Ownership, leaseVars, rowVars,
        flagVars, hostVars, CoreTypeOK
  <2>4. Executes(j)'
    BY <1>0, <1>1, <1>2, <1>12 DEF SessionEnds, Observable, JobInv, Executes, Sealed, Live,
        Commanded, HostFailed, CoreTypeOK
  <2> QED BY <1>1, <1>2, <2>1, <2>2, <2>3, <2>4, QuietInv DEF Sealed
<1>13. CASE NeverRan(j)
  <2>1. CoreTypeOK' /\ \A i \in Jobs \ {j} : Still(i)
    BY <1>0, <1>1, <1>2, <1>13 DEF NeverRan, CoreTypeOK, Still, Sealed, WorkerPcs, Holders,
        TeardownPcs
  <2>2. Locks(j)' /\ TearsDown(j)'
    BY <1>0, <1>1, <1>2, <1>13 DEF NeverRan, JobInv, Locks, LockHolders, TearsDown, Bound,
        CleanupProven, Sealed, Ownership, leaseVars, rowVars, CoreTypeOK
  <2>3. Allocates(j)'
    BY <1>0, <1>1, <1>2, <1>13 DEF NeverRan, JobInv, Allocates, Locks, LockHolders, Planned,
        Bound, Current, Sealed, Ownership, leaseVars, rowVars, flagVars, hostVars,
        CoreTypeOK
  <2>4. Executes(j)'
    BY <1>0, <1>1, <1>2, <1>13 DEF NeverRan, JobInv, Executes, Sealed, Live, Commanded,
        HostFailed, CoreTypeOK
  <2> QED BY <1>1, <1>2, <2>1, <2>2, <2>3, <2>4, QuietInv DEF Sealed
<1>14. CASE CollectionFails(j)
  <2>1. CoreTypeOK' /\ \A i \in Jobs \ {j} : Still(i)
    BY <1>0, <1>1, <1>2, <1>14 DEF CollectionFails, CoreTypeOK, Still, Sealed, WorkerPcs,
        Holders, TeardownPcs
  <2>2. Locks(j)' /\ TearsDown(j)'
    BY <1>0, <1>1, <1>2, <1>14 DEF CollectionFails, JobInv, Locks, LockHolders, TearsDown,
        Bound, CleanupProven, Sealed, Ownership, leaseVars, rowVars, CoreTypeOK
  <2>3. Allocates(j)'
    BY <1>0, <1>1, <1>2, <1>14 DEF CollectionFails, JobInv, Allocates, Locks, LockHolders,
        Planned, Bound, Current, Sealed, Ownership, leaseVars, rowVars, flagVars, hostVars,
        CoreTypeOK
  <2>4. Executes(j)'
    BY <1>0, <1>1, <1>2, <1>14 DEF CollectionFails, JobInv, Executes, Sealed, Live,
        Commanded, HostFailed, CoreTypeOK
  <2> QED BY <1>1, <1>2, <2>1, <2>2, <2>3, <2>4, QuietInv DEF Sealed
<1>15. CASE Interrupt(j)
  <2>1. CoreTypeOK' /\ \A i \in Jobs \ {j} : Still(i)
    BY <1>0, <1>1, <1>2, <1>15 DEF Interrupt, DropExecution, CoreTypeOK, Still, Sealed,
        WorkerPcs, Holders, TeardownPcs
  <2>2. Locks(j)' /\ TearsDown(j)'
    BY <1>0, <1>1, <1>2, <1>15 DEF Interrupt, DropExecution, JobInv, Locks, LockHolders,
        TearsDown, Bound, CleanupProven, Sealed, Ownership, leaseVars, rowVars, CoreTypeOK
  <2>3. Allocates(j)'
    BY <1>0, <1>1, <1>2, <1>15 DEF Interrupt, DropExecution, JobInv, Allocates, Locks,
        LockHolders, Planned, Bound, Current, Sealed, Ownership, leaseVars, rowVars,
        flagVars, hostVars, CoreTypeOK
  <2>4. Executes(j)'
    BY <1>0, <1>1, <1>2, <1>15 DEF Interrupt, DropExecution, JobInv, Executes, Sealed, Live,
        Commanded, HostFailed, CoreTypeOK
  <2> QED BY <1>1, <1>2, <2>1, <2>2, <2>3, <2>4, QuietInv DEF Sealed
<1>16. CASE StopUnsealed(j)
  <2>1. CoreTypeOK' /\ \A i \in Jobs \ {j} : Still(i)
    BY <1>0, <1>1, <1>2, <1>16 DEF StopUnsealed, DropExecution, CoreTypeOK, Still, Sealed,
        WorkerPcs, Holders, TeardownPcs
  <2>2. Locks(j)' /\ TearsDown(j)'
    BY <1>0, <1>1, <1>2, <1>16 DEF StopUnsealed, DropExecution, JobInv, Locks, LockHolders,
        TearsDown, Bound, CleanupProven, Sealed, Ownership, leaseVars, rowVars, CoreTypeOK
  <2>3. Allocates(j)'
    BY <1>0, <1>1, <1>2, <1>16 DEF StopUnsealed, DropExecution, JobInv, Allocates, Locks,
        LockHolders, Planned, Bound, Current, Sealed, Ownership, leaseVars, rowVars,
        flagVars, hostVars, CoreTypeOK
  <2>4. Executes(j)'
    BY <1>0, <1>1, <1>2, <1>16 DEF StopUnsealed, DropExecution, JobInv, Executes, Sealed,
        Live, Commanded, HostFailed, CoreTypeOK
  <2> QED BY <1>1, <1>2, <2>1, <2>2, <2>3, <2>4, QuietInv DEF Sealed
<1>17. CASE Panic(j)
  <2>1. CoreTypeOK' /\ \A i \in Jobs \ {j} : Still(i)
    BY <1>0, <1>1, <1>2, <1>17 DEF Panic, CoreTypeOK, Still, Sealed, WorkerPcs, Holders,
        TeardownPcs
  <2>2. Locks(j)' /\ TearsDown(j)'
    BY <1>0, <1>1, <1>2, <1>17 DEF Panic, JobInv, Locks, LockHolders, TearsDown, Bound,
        CleanupProven, Sealed, Ownership, leaseVars, rowVars, CoreTypeOK
  <2>3. Allocates(j)'
    BY <1>0, <1>1, <1>2, <1>17 DEF Panic, JobInv, Allocates, Locks, LockHolders, Planned,
        Bound, Current, Sealed, Ownership, leaseVars, rowVars, flagVars, hostVars,
        CoreTypeOK
  <2>4. Executes(j)'
    BY <1>0, <1>1, <1>2, <1>17 DEF Panic, JobInv, Executes, Sealed, Live, Commanded,
        HostFailed, CoreTypeOK
  <2> QED BY <1>1, <1>2, <2>1, <2>2, <2>3, <2>4, QuietInv DEF Sealed
<1>18. CASE StartWorkerCleanup(j)
  <2>1. CoreTypeOK' /\ \A i \in Jobs \ {j} : Still(i)
    BY <1>0, <1>1, <1>2, <1>18 DEF StartWorkerCleanup, ReadForCleanup, CleanupDue,
        CoreTypeOK, Still, Sealed, WorkerPcs, Holders, TeardownPcs
  <2>2. Locks(j)' /\ TearsDown(j)'
    BY <1>0, <1>1, <1>2, <1>18 DEF StartWorkerCleanup, ReadForCleanup, CleanupDue, JobInv,
        Locks, LockHolders, TearsDown, Bound, CleanupProven, Sealed, Ownership, leaseVars,
        rowVars, CoreTypeOK
  <2>3. Allocates(j)'
    BY <1>0, <1>1, <1>2, <1>18 DEF StartWorkerCleanup, ReadForCleanup, CleanupDue, JobInv,
        Allocates, Locks, LockHolders, Planned, Bound, Current, Sealed, Ownership,
        leaseVars, rowVars, flagVars, hostVars, CoreTypeOK
  <2>4. Executes(j)'
    BY <1>0, <1>1, <1>2, <1>18 DEF StartWorkerCleanup, ReadForCleanup, CleanupDue, JobInv,
        Executes, Sealed, Live, Commanded, HostFailed, CoreTypeOK
  <2> QED BY <1>1, <1>2, <2>1, <2>2, <2>3, <2>4, QuietInv DEF Sealed
<1>19. CASE StartTickCleanup(j)
  <2>1. CoreTypeOK' /\ \A i \in Jobs \ {j} : Still(i)
    BY <1>0, <1>1, <1>2, <1>19 DEF StartTickCleanup, ReadForCleanup, CleanupDue, CoreTypeOK,
        Still, Sealed, WorkerPcs, Holders, TeardownPcs
  <2>2. Locks(j)' /\ TearsDown(j)'
    BY <1>0, <1>1, <1>2, <1>19 DEF StartTickCleanup, ReadForCleanup, CleanupDue, JobInv,
        Locks, LockHolders, TearsDown, Bound, CleanupProven, Sealed, Ownership, leaseVars,
        rowVars, CoreTypeOK
  <2>3. Allocates(j)'
    BY <1>0, <1>1, <1>2, <1>19 DEF StartTickCleanup, ReadForCleanup, CleanupDue, JobInv,
        Allocates, Locks, LockHolders, Planned, Bound, Current, Sealed, Ownership,
        leaseVars, rowVars, flagVars, hostVars, CoreTypeOK
  <2>4. Executes(j)'
    BY <1>0, <1>1, <1>2, <1>19 DEF StartTickCleanup, ReadForCleanup, CleanupDue, JobInv,
        Executes, Sealed, Live, Commanded, HostFailed, CoreTypeOK
  <2> QED BY <1>1, <1>2, <2>1, <2>2, <2>3, <2>4, QuietInv DEF Sealed
<1> QED BY <1>3, <1>4, <1>5, <1>6, <1>7, <1>8, <1>9, <1>10, <1>11, <1>12, <1>13, <1>14,
    <1>15, <1>16, <1>17, <1>18, <1>19

\* A worker that runs its job: the running state, the staged receipt and the
\* published result.
LEMMA WorkerRunsInv ==
  ASSUME FactoryInv, NEW j \in Jobs, MarkRunning(j) \/ StageResult(j) \/ PublishResult(j)
  PROVE  FactoryInv'
<1> USE DEF Goto
<1>0. JournalInv /\ JobTypeOK /\ CoreTypeOK /\ JobInv(j)
  BY DEF FactoryInv, JournalInv
<1>1. UNCHANGED <<daemon, lockVars, coreVars, vmmVars, boundVars, Ownership>>
  BY DEF MarkRunning, StageResult, PublishResult, MarkJobRunning, StageJobManifest, FinishJob,
      Decide, Ownership
<1>2. PICK s \in JobStates :
         /\ [Transaction]_journalVars
         /\ state' = [state EXCEPT ![j] = s]
         /\ \/ worker[j] = "staging" /\ s = "running" /\ worker' = [worker EXCEPT ![j] = "marked"]
            \/ worker[j] = "collect" /\ s = state[j] /\ worker' = [worker EXCEPT ![j] = "publish"]
            \/ worker[j] = "publish" /\ s \in Terminal /\ worker' = [worker EXCEPT ![j] = "cleanup"]
  <2>1. CASE MarkRunning(j)
    BY <2>1 DEF MarkRunning, MarkJobRunning, Transaction, JobTransaction, JobStates, Journaled,
        Visible, Live
  <2>2. CASE StageResult(j)
    BY <1>0, <2>2, ZenonT(40) DEF StageResult, StageJobManifest, Transaction, JobTransaction, JobTypeOK
  <2>3. CASE PublishResult(j)
    <3>1. PICK o, c : o \in Terminal /\ c \in Collections /\ Decide(j, o, c, manifest[j])
      BY <2>3 DEF PublishResult, FinishJob
    <3>2. Transaction
      BY <1>0, <3>1 DEF Transaction, JobTransaction, JobTypeOK
    <3> QED BY <2>3, <3>1, <3>2 DEF PublishResult, Decide, JobStates, Journaled, Visible
  <2> QED BY <2>1, <2>2, <2>3
<1>3. CoreTypeOK' /\ \A i \in Jobs \ {j} : Still(i)
  BY <1>0, <1>1, <1>2 DEF CoreTypeOK, JobTypeOK, Still, WorkerPcs, Executing, Launching, lockVars,
      coreVars, boundVars, vmmVars
<1>4. Locks(j)' /\ TearsDown(j)'
  BY <1>0, <1>1, <1>2 DEF JobInv, Locks, LockHolders, TearsDown, Bound, CleanupProven, CoreTypeOK,
      Creating, NameLocked, Launching, Ownership, leaseVars, rowVars, lockVars, vmmVars
<1>5. Allocates(j)'
  BY <1>0, <1>1, <1>2 DEF JobInv, Allocates, Planned, Creating, NameLocked, CoreTypeOK
<1>6. Executes(j)'
  BY <1>0, <1>1, <1>2 DEF JobInv, Executes, Creating, NameLocked, Launching, CoreTypeOK,
      JobTypeOK, coreVars, Terminal, Commanded, HostFailed
<1> QED BY <1>1, <1>2, <1>3, <1>4, <1>5, <1>6, QuietInv DEF coreVars

\* submit_factory_job registers a worker for a job nobody has seen before.
LEMMA SubmitInv ==
  ASSUME FactoryInv, NEW j \in Jobs, NEW s \in Submissions, Submit(j, s)
  PROVE  FactoryInv'
<1>0. JournalInv /\ JobTypeOK /\ CoreTypeOK /\ JobInv(j)
  BY DEF FactoryInv, JournalInv
<1>1. UNCHANGED <<daemon, lockVars, coreVars, vmmVars, boundVars, Ownership>> /\ Transaction
  BY DEF Submit, AcceptJob, Ownership, Transaction, JobTransaction
<1>2. PICK pc \in {"start", "noslot"} : worker' = [worker EXCEPT ![j] = pc]
  BY DEF Submit, Goto
<1>3. /\ state[j] = "absent" /\ state'[j] = "accepted"
      /\ \A i \in Jobs \ {j} : state'[i] = state[i] \/ state'[i] = "purged"
  BY <1>0 DEF Submit, AcceptJob, Purged, JobTypeOK
<1>4. CoreTypeOK' /\ \A i \in Jobs \ {j} : Still(i)
  BY <1>0, <1>1, <1>2, <1>3 DEF CoreTypeOK, Still, WorkerPcs, lockVars, coreVars, boundVars,
      vmmVars
<1>5. worker[j] = "none" /\ sessions[j] = 0 /\ j \notin claimed
  BY <1>0, <1>3 DEF JobInv, Executes, JobTypeOK
<1>6. Locks(j)' /\ TearsDown(j)'
  BY <1>0, <1>1, <1>2, <1>5 DEF Submit, JobInv, Locks, LockHolders, TearsDown, Bound,
      CleanupProven, CoreTypeOK, Creating, NameLocked, Launching, Ownership, leaseVars, rowVars,
      lockVars, vmmVars
<1>7. Allocates(j)'
  BY <1>0, <1>1, <1>2, <1>5 DEF Allocates, Planned, Creating, NameLocked, CoreTypeOK, Ownership
<1>8. Executes(j)'
  BY <1>0, <1>1, <1>2, <1>3, <1>5 DEF Executes, CoreTypeOK, coreVars, Commanded
<1> QED BY <1>1, <1>4, <1>6, <1>7, <1>8, QuietInv DEF coreVars

-----------------------------------------------------------------------------
(* Steps that touch one generation.                                        *)

\* No step of another job's task shows at generation v, in the lease store ...
InStore(v) ==
    /\ v \in leases' <=> v \in leases
    /\ v \in vms' <=> v \in vms
    /\ v \in backend_entered' <=> v \in backend_entered
    /\ v \in lease_destroyed' <=> v \in lease_destroyed
    /\ v \in confirmed' <=> v \in confirmed
    /\ entered_at'[v] = entered_at[v]

\* ... or in the backend ...
Untouched(v) ==
    /\ InStore(v)
    /\ v \in retained' <=> v \in retained
    /\ v \in owner' <=> v \in owner
    /\ v \in receipt' <=> v \in receipt
    /\ v \in proc' => v \in proc

\* ... or in the ownership columns of job i.
Unowned(i) ==
    /\ vm_id'[i] = vm_id[i]
    /\ i \in claimed' <=> i \in claimed
    /\ i \in cleanup_pending' <=> i \in cleanup_pending
    /\ i \in vm_destroyed' <=> i \in vm_destroyed
    /\ i \in vm_allocation_aborted' <=> i \in vm_allocation_aborted
    /\ i \in disk' <=> i \in disk

\* It is enough to look at the job whose generation is touched.
LEMMA GenerationInv ==
  ASSUME FactoryInv, NEW j \in Jobs, [Transaction]_journalVars,
         UNCHANGED <<daemon, hostVars>>, CoreTypeOK',
         vm_id'[j] = vm_id[j] \/ vm_id[j] = NoVm,
         \A v \in Vms \ {vm_id'[j]} : Untouched(v),
         \A i \in Jobs \ {j} : Still(i) /\ Unowned(i),
         JobInv(j)'
  PROVE  FactoryInv'
<1>1. JournalInv'
  BY TransactionInv DEF FactoryInv
<1>2. Current' = Current
  BY DEF Current, hostVars
<1>3. Named'
  <2>1. SUFFICES ASSUME NEW v \in (Owners \cup proc \cup owner \cup retained)'
                 PROVE  \E i \in Jobs : vm_id'[i] = v
    BY DEF Named
  <2>2. v \in Vms
    BY <1>1, <2>1 DEF Owners, JournalInv, LeaseInv, LeaseTypeOK, CoreTypeOK
  <2>3. CASE v # vm_id'[j]
    <3>1. v \in Owners \cup proc \cup owner \cup retained
      BY <2>1, <2>2, <2>3 DEF Untouched, InStore, Owners
    <3>2. PICK i \in Jobs : vm_id[i] = v
      BY <3>1 DEF FactoryInv, Named
    <3>3. i # j
      BY <2>2, <2>3, <3>2, JobJournalAssumption
    <3> QED BY <3>2, <3>3 DEF Unowned
  <2> QED BY <2>3
<1>4. ASSUME NEW i \in Jobs \ {j} PROVE JobInv(i)'
  <2> DEFINE v == vm_id[i]
  <2>0. JobInv(i) /\ Still(i) /\ Unowned(i)
    BY DEF FactoryInv
  <2>1. CASE v = NoVm
    <3>1. v \notin Vms /\ vm_id'[i] = v
      BY <2>0, <2>1, JobJournalAssumption DEF Unowned
    <3>2. v \notin proc' \cup owner' \cup vms' \cup leases' \cup retained' \cup receipt'
                   \cup backend_entered' \cup lease_destroyed' \cup confirmed'
      BY <1>1, <3>1 DEF CoreTypeOK, JournalInv, LeaseInv, LeaseTypeOK
    <3>3. v \notin proc \cup owner \cup vms \cup leases \cup retained \cup receipt \cup backend_entered
      BY <3>1 DEF FactoryInv, CoreTypeOK, JournalInv, LeaseInv, LeaseTypeOK
    <3>4. Locks(i)' /\ TearsDown(i)'
      BY <2>0, <2>1, <3>1, <3>2, <3>3 DEF JobInv, Locks, LockHolders, TearsDown, Still, Unowned,
          Bound, CleanupProven
    <3>5. Allocates(i)'
      BY <2>0, <2>1, <3>1, <3>2, <3>3 DEF JobInv, Allocates, Planned, Still, Unowned, Bound
    <3>6. Executes(i)'
      BY <2>0 DEF JobInv, Executes, Still, Commanded
    <3>7. Owns(i)'
      BY <2>0, <2>1, <3>1, <3>2 DEF JobInv, Owns, Unowned, Bound, Owners
    <3> QED BY <3>4, <3>5, <3>6, <3>7 DEF JobInv
  <2>2. CASE v # NoVm
    <3>1. v \in Vms /\ vm_id'[i] = v /\ vm_id'[j] # v
      BY <1>1, <2>0, <2>2 DEF FactoryInv, JournalInv, JobTypeOK, OwnershipInv,
          OneJobPerGeneration, Bound, Unowned
    <3>2. Untouched(v)
      BY <3>1
    <3>3. Locks(i)' /\ TearsDown(i)'
      BY <2>0, <3>1, <3>2 DEF JobInv, Locks, LockHolders, TearsDown, Still, Unowned, Untouched,
          InStore, Bound, CleanupProven
    <3>4. Allocates(i)'
      BY <1>2, <2>0, <3>1, <3>2 DEF JobInv, Allocates, Still, Unowned, Untouched, InStore, Bound
    <3>5. Executes(i)'
      BY <2>0 DEF JobInv, Executes, Still, Commanded
    <3>6. Owns(i)'
      BY <1>2, <2>0, <3>1, <3>2 DEF JobInv, Owns, Unowned, Untouched, InStore, Bound,
          CleanupProven, Owners
    <3> QED BY <3>3, <3>4, <3>5, <3>6 DEF JobInv
  <2> QED BY <2>1, <2>2
<1> QED BY <1>1, <1>3, <1>4 DEF FactoryInv

\* claim_job_vm journals the claim under the lifecycle lock; without it the
\* worker seals the job.
LEMMA ClaimVmInv ==
  ASSUME FactoryInv, NEW j \in Jobs, ClaimVm(j)
  PROVE  FactoryInv'
<1>0. JournalInv /\ JobTypeOK /\ CoreTypeOK /\ JobInv(j)
  BY DEF FactoryInv, JournalInv
<1>1. UNCHANGED <<daemon, name_lock, cleaner, teardown, coreVars, vmmVars, leaseVars, vm_id,
                  vm_destroyed, vm_allocation_aborted>>
  BY DEF ClaimVm, ClaimJobVm, journalVars, jobVars
<1>2. j \notin claimed /\ ~Bound(j) /\ j \notin cleanup_pending /\ teardown[j] = "none"
  BY <1>0 DEF ClaimVm, JobInv, Allocates, TearsDown, JobTypeOK, Bound
<1>3. \A v \in Vms : Untouched(v)
  BY <1>1 DEF Untouched, InStore, leaseVars, rowVars, flagVars, coreVars, vmmVars
<1>4. CASE ClaimJobVm(j) /\ Lock(lifecycle, j, "worker") /\ Goto(j, "claimed") /\ NoFault
  <2> USE DEF ClaimJobVm, Lock, Goto, NoFault
  <2>1. Transaction
    BY <1>4 DEF Transaction, JobTransaction
  <2>2. CoreTypeOK' /\ \A i \in Jobs \ {j} : Still(i) /\ Unowned(i)
    BY <1>0, <1>1, <1>4 DEF CoreTypeOK, JobTypeOK, Still, Unowned, WorkerPcs, Creating, Holders,
        coreVars, vmmVars, boundVars
  <2>3. Locks(j)' /\ TearsDown(j)'
    BY <1>0, <1>1, <1>2, <1>4 DEF ClaimVm, JobInv, Locks, LockHolders, TearsDown, CoreTypeOK,
        Creating, NameLocked, Launching
  <2>4. Allocates(j)' /\ Executes(j)'
    BY <1>0, <1>1, <1>2, <1>4 DEF ClaimVm, JobInv, Allocates, Executes, Planned, Creating,
        NameLocked, Launching, CoreTypeOK, JobTypeOK, Bound, coreVars, Commanded
  <2>5. Owns(j)'
    BY <1>0, <1>1, <1>2, <1>3, JobJournalAssumption DEF JobInv, Owns, Bound, CleanupProven,
        CoreTypeOK, vmmVars
  <2> QED
    BY <1>1, <1>3, <2>1, <2>2, <2>3, <2>4, <2>5, GenerationInv DEF JobInv, leaseVars
<1>5. CASE UNCHANGED <<journalVars, lifecycle>> /\ Goto(j, "seal") /\ (NoFault \/ Fault)
  <2> USE DEF Goto, NoFault, Fault
  <2>1. CoreTypeOK' /\ \A i \in Jobs \ {j} : Still(i)
    BY <1>0, <1>1, <1>5 DEF CoreTypeOK, Still, WorkerPcs, journalVars, jobVars, coreVars, vmmVars,
        boundVars
  <2>2. Locks(j)' /\ TearsDown(j)'
    BY <1>0, <1>1, <1>2, <1>5 DEF ClaimVm, JobInv, Locks, LockHolders, TearsDown, CoreTypeOK,
        Creating, NameLocked, Launching, journalVars, jobVars
  <2>3. Allocates(j)' /\ Executes(j)'
    BY <1>0, <1>1, <1>2, <1>5 DEF ClaimVm, JobInv, Allocates, Executes, Planned, Creating,
        NameLocked, Launching, CoreTypeOK, coreVars, journalVars, jobVars
  <2> QED
    BY <1>1, <1>5, <2>1, <2>2, <2>3, QuietInv DEF Ownership, journalVars, jobVars, coreVars
<1> QED BY <1>4, <1>5 DEF ClaimVm

\* An allocation step that fails, and the rollback it enters, leave the journal
\* and the backend as they are.
LEMMA AllocationFaultInv ==
  ASSUME FactoryInv, NEW j \in Jobs, UNCHANGED journalVars, Fault,
         UNCHANGED <<daemon, cleaner, coreVars, vmmVars>>,
         \/ /\ worker[j] \in {"claimed", "unplan"} /\ Goto(j, "seal")
            /\ Unlock(lifecycle, j) /\ UNCHANGED <<name_lock, teardown>>
         \/ /\ worker[j] = "staged" /\ Goto(j, "unplan") /\ UNCHANGED <<lifecycle, name_lock, teardown>>
         \/ /\ worker[j] = "adopted" /\ Goto(j, "unadopt") /\ UNCHANGED <<lifecycle, name_lock, teardown>>
         \/ /\ worker[j] = "unadopt" /\ Goto(j, "failed")
            /\ Unlock(name_lock, j) /\ UNCHANGED <<lifecycle, teardown>>
         \/ /\ worker[j] \in {"entered", "spawned", "created"} /\ Goto(j, "rollback")
            /\ teardown' = [teardown EXCEPT ![j] = "kill"] /\ UNCHANGED <<lifecycle, name_lock>>
  PROVE  FactoryInv'
<1> USE DEF Goto, Unlock, Fault, coreVars, vmmVars
<1>0. JournalInv /\ JobTypeOK /\ CoreTypeOK /\ JobInv(j)
  BY DEF FactoryInv, JournalInv
<1>1. UNCHANGED Ownership
  BY DEF Ownership, journalVars, jobVars
<1>2. CoreTypeOK' /\ \A i \in Jobs \ {j} : Still(i)
  BY <1>0 DEF CoreTypeOK, Still, WorkerPcs, Creating, NameLocked, Holders, TeardownPcs,
      journalVars, jobVars
<1>3. Locks(j)'
  BY <1>0 DEF JobInv, Locks, LockHolders, CoreTypeOK, Creating, NameLocked, Launching
<1>4. Allocates(j)'
  BY <1>0, <1>1 DEF JobInv, Allocates, Planned, Bound, Current, Locks, LockHolders, CoreTypeOK,
      Creating, NameLocked, Launching, Ownership, leaseVars, rowVars, flagVars, hostVars
<1>5. Executes(j)'
  BY <1>0 DEF JobInv, Executes, CoreTypeOK, Creating, NameLocked, Launching, journalVars, jobVars
<1>6. TearsDown(j)'
  <2>1. worker[j] \in {"entered", "spawned", "created"} => Bound(j) /\ j \in cleanup_pending
    BY <1>0, JobJournalAssumption DEF JobInv, Allocates, Planned, Bound, CoreTypeOK, Creating,
        NameLocked
  <2> QED
    BY <1>0, <1>1, <2>1 DEF JobInv, TearsDown, Bound, CleanupProven, CoreTypeOK, Ownership,
        leaseVars, rowVars
<1> QED BY <1>1, <1>2, <1>3, <1>4, <1>5, <1>6, QuietInv

\* The generation is bound together with its planned lease; nobody has seen it.
LEMMA PlanVmInv ==
  ASSUME FactoryInv, NEW j \in Jobs, NEW v \in Vms, worker[j] = "claimed",
         BindJobVmWithLease(j, v), Goto(j, "bound"),
         UNCHANGED <<daemon, lockVars, coreVars, vmmVars, boundVars>>
  PROVE  FactoryInv'
<1> USE DEF Goto, lockVars, coreVars, vmmVars, boundVars
<1>0. JournalInv /\ JobTypeOK /\ CoreTypeOK /\ JobInv(j)
  BY DEF FactoryInv, JournalInv
<1>1. Transaction
  BY DEF Transaction, JobTransaction
<1>2. PICK r \in Readings : InsertLease(v, j, r)
  BY DEF BindJobVmWithLease, BeginLease
<1>3. /\ vm_id' = [vm_id EXCEPT ![j] = v] /\ claimed' = claimed \cup {j}
      /\ cleanup_pending' = cleanup_pending \cup {j}
      /\ state' = [state EXCEPT ![j] = IF @ = "accepted" THEN "preparing" ELSE @]
      /\ state[j] # "absent" /\ vm_id[j] = NoVm /\ j \notin vm_allocation_aborted
      /\ UNCHANGED <<vm_destroyed, vm_allocation_aborted>>
      /\ \A i \in Jobs : vm_id[i] # v
  BY DEF BindJobVmWithLease, BindAllowed, Visible, Live, Terminal, Commanded, HostFailed
<1>4. v \notin Owners \cup proc \cup owner \cup retained
  BY <1>3 DEF FactoryInv, Named
<1>5. \A w \in Vms \ {v} : Untouched(w)
  BY <1>2 DEF InsertLease, Untouched, InStore
<1>6. CoreTypeOK' /\ \A i \in Jobs \ {j} : Still(i) /\ Unowned(i)
  BY <1>0, <1>3 DEF CoreTypeOK, JobTypeOK, Still, Unowned, WorkerPcs, Creating
<1>7. vm_id'[j] = v /\ v # NoVm /\ v \in leases' /\ UNCHANGED <<vms, hostVars>>
  BY <1>0, <1>2, <1>3, JobJournalAssumption DEF JobTypeOK, InsertLease
<1>8. Locks(j)'
  BY <1>0 DEF JobInv, Locks, LockHolders, CoreTypeOK, Creating, NameLocked, Launching
<1>9. Allocates(j)'
  <2>1. j \notin vm_destroyed /\ teardown[j] = "none"
    BY <1>0, <1>3 DEF JournalInv, OwnershipInv, LiveHolds, Bound, JobInv, TearsDown
  <2> QED BY <1>0, <1>3, <1>4, <1>7, <2>1 DEF Allocates, CoreTypeOK, Creating, NameLocked,
      Bound, Owners
<1>10. Executes(j)' /\ TearsDown(j)'
  BY <1>0, <1>3, <1>7 DEF JobInv, Executes, TearsDown, Bound, CleanupProven, CoreTypeOK,
      JobTypeOK, Creating, NameLocked, Commanded
<1>11. Owns(j)'
  BY <1>0, <1>3, <1>4, <1>7 DEF Owns, Bound, Owners
<1> QED
  BY <1>1, <1>3, <1>5, <1>6, <1>7, <1>8, <1>9, <1>10, <1>11, GenerationInv DEF JobInv

\* record_job_leased_prebackend_abort, by the worker before its entry, by the
\* reconciliation of a finished worker and by the recovery.
LEMMA FenceInv ==
  ASSUME FactoryInv, NEW j \in Jobs, RecordJobLeasedPrebackendAbort(j, vm_id[j]),
         UNCHANGED <<daemon, lifecycle, name_lock, cleaner, coreVars, vmmVars, boundVars>>,
         \/ worker[j] = "unplan" /\ Goto(j, "failed") /\ UNCHANGED teardown
         \/ /\ worker[j] = "unadopt" /\ Goto(j, "rollback")
            /\ teardown' = [teardown EXCEPT ![j] = "proven"]
         \/ worker[j] \notin Planned /\ UNCHANGED <<worker, teardown>>
  PROVE  FactoryInv'
<1> USE DEF Goto, coreVars, vmmVars, boundVars
<1>0. JournalInv /\ JobTypeOK /\ CoreTypeOK /\ JobInv(j)
  BY DEF FactoryInv, JournalInv
<1>1. Transaction /\ vm_id[j] \in Vms
  BY <1>0, AbortCalls DEF RecordJobLeasedPrebackendAbort, AbortAllowed, JournalInv, LeaseInv,
      LeaseTypeOK
<1>2. /\ UNCHANGED <<rowVars, backend_entered, lease_destroyed, confirmed, entered_at, hostVars>>
      /\ UNCHANGED <<state, claimed, vm_id, cleanup_pending, vm_destroyed>>
      /\ vm_allocation_aborted' = vm_allocation_aborted \cup {j}
      /\ j \in cleanup_pending /\ vm_id[j] \in leases /\ vm_id[j] \notin backend_entered
  BY DEF RecordJobLeasedPrebackendAbort, AbortAllowed
<1>3. vm_id[j] \notin proc \cup owner \cup vms /\ Bound(j)
  BY <1>0, <1>1, <1>2, JobJournalAssumption DEF JobInv, Owns, JournalInv, LeaseInv,
      CidOwnedOnce, Bound
<1>4. \A w \in Vms : Untouched(w)
  BY <1>2 DEF Untouched, InStore, rowVars
<1>5. CoreTypeOK' /\ \A i \in Jobs \ {j} : Still(i) /\ Unowned(i)
  BY <1>0, <1>2 DEF CoreTypeOK, Still, Unowned, WorkerPcs, Creating, NameLocked, TeardownPcs
<1>6. Locks(j)'
  BY <1>0 DEF JobInv, Locks, LockHolders, CoreTypeOK, Creating, NameLocked, Launching
<1>7. Allocates(j)'
  BY <1>0, <1>2 DEF JobInv, Allocates, Planned, Bound, Current, hostVars, rowVars, CoreTypeOK,
      Creating, NameLocked
<1>8. Executes(j)'
  BY <1>0, <1>2 DEF JobInv, Executes, CoreTypeOK, Creating, NameLocked
<1>9. TearsDown(j)'
  BY <1>0, <1>2, <1>3 DEF JobInv, TearsDown, Bound, CleanupProven, CoreTypeOK, rowVars
<1>10. Owns(j)'
  BY <1>0, <1>2, <1>3 DEF JobInv, Owns, Bound, CleanupProven, Owners, Current, hostVars, rowVars
<1> QED
  BY <1>1, <1>2, <1>4, <1>5, <1>6, <1>7, <1>8, <1>9, <1>10, GenerationInv DEF JobInv

\* The VM directory is made under the name lock, before the entry.
LEMMA AdoptLeaseInv ==
  ASSUME FactoryInv, NEW j \in Jobs, worker[j] = "staged", Lock(name_lock, j, "worker"),
         Goto(j, "adopted"), disk' = disk \cup {j},
         UNCHANGED <<journalVars, daemon, lifecycle, cleaner, teardown, coreVars, proc, owner,
                     receipt, boundVars>>
  PROVE  FactoryInv'
<1> USE DEF Goto, Lock, coreVars, boundVars, journalVars, jobVars, leaseVars, rowVars, flagVars,
    hostVars
<1>0. JournalInv /\ CoreTypeOK /\ JobInv(j)
  BY DEF FactoryInv, JournalInv
<1>1. \A w \in Vms : Untouched(w)
  BY DEF Untouched, InStore
<1>2. CoreTypeOK' /\ \A i \in Jobs \ {j} : Still(i) /\ Unowned(i)
  BY <1>0 DEF CoreTypeOK, Still, Unowned, WorkerPcs, Creating, NameLocked, Holders
<1>3. Locks(j)'
  BY <1>0 DEF JobInv, Locks, LockHolders, CoreTypeOK, Creating, NameLocked, Launching
<1>4. Allocates(j)'
  BY <1>0 DEF JobInv, Allocates, Planned, Bound, CoreTypeOK, Creating, NameLocked
<1>5. Executes(j)' /\ TearsDown(j)'
  BY <1>0 DEF JobInv, Executes, TearsDown, Allocates, Planned, CoreTypeOK, Creating, NameLocked,
      Bound, CleanupProven
<1>6. Owns(j)'
  BY <1>0 DEF JobInv, Owns, Allocates, Bound, CleanupProven, Owners, Current, Creating
<1> QED BY <1>1, <1>2, <1>3, <1>4, <1>5, <1>6, GenerationInv DEF JobInv

\* The entry is journaled before the backend is called.
LEMMA EnterVmmInv ==
  ASSUME FactoryInv, NEW j \in Jobs, worker[j] = "adopted", EnterBackend(vm_id[j]),
         UNCHANGED jobVars, Goto(j, "entered"),
         UNCHANGED <<daemon, lockVars, coreVars, vmmVars, boundVars>>
  PROVE  FactoryInv'
<1> USE DEF Goto, lockVars, coreVars, vmmVars, boundVars, jobVars
<1>0. JournalInv /\ CoreTypeOK /\ JobInv(j)
  BY DEF FactoryInv, JournalInv
<1>1. Transaction /\ vm_id[j] \in Vms
  BY <1>0, LeaseCalls
<1>2. /\ UNCHANGED <<leases, vms, lease_destroyed, confirmed, hostVars>>
      /\ backend_entered' = backend_entered \cup {vm_id[j]}
      /\ entered_at' = [entered_at EXCEPT ![vm_id[j]] = Current]
      /\ vm_id[j] \notin lease_destroyed \cup confirmed
  BY DEF EnterBackend, EntryEligible, PrepareEntry, rowVars
<1>3. entered_at'[vm_id[j]] = Current /\ Current' = Current /\ \A w \in Vms \ {vm_id[j]} : Untouched(w)
  BY <1>0, <1>1, <1>2 DEF Untouched, InStore, Current, hostVars, JournalInv, LeaseInv, LeaseTypeOK
<1>4. CoreTypeOK' /\ \A i \in Jobs \ {j} : Still(i) /\ Unowned(i)
  BY <1>0 DEF CoreTypeOK, Still, Unowned, WorkerPcs, Creating, NameLocked
<1>5. Locks(j)'
  BY <1>0 DEF JobInv, Locks, LockHolders, CoreTypeOK, Creating, NameLocked, Launching
<1>6. Allocates(j)'
  BY <1>0, <1>2, <1>3 DEF JobInv, Allocates, Planned, Bound, CoreTypeOK, Creating, NameLocked
<1>7. Executes(j)' /\ TearsDown(j)'
  BY <1>0, <1>2 DEF JobInv, Executes, TearsDown, Allocates, Planned, CoreTypeOK, Creating,
      NameLocked, Bound, CleanupProven
<1>8. Owns(j)'
  BY <1>0, <1>2, <1>3 DEF JobInv, Owns, Allocates, Planned, Bound, CleanupProven, Owners
<1> QED BY <1>1, <1>2, <1>3, <1>4, <1>5, <1>6, <1>7, <1>8, GenerationInv DEF JobInv

\* The process and its in-memory owner appear together.
LEMMA SpawnVmmInv ==
  ASSUME FactoryInv, NEW j \in Jobs, SpawnVmm(j)
  PROVE  FactoryInv'
<1> USE DEF SpawnVmm, Spawn, Goto, lockVars, coreVars, vmmVars, boundVars, journalVars, jobVars,
    leaseVars, rowVars, flagVars, hostVars
<1>0. JournalInv /\ JobTypeOK /\ CoreTypeOK /\ JobInv(j)
  BY DEF FactoryInv, JournalInv
<1>1. vm_id[j] \in Vms /\ vm_id[j] \in backend_entered
  BY <1>0 DEF JobInv, Allocates, Planned, Bound, JobTypeOK
<1>2. ~CleanupProven(j)
  BY <1>0, <1>1 DEF JobInv, Allocates, Planned, CleanupProven, JournalInv, OwnershipInv,
      AbortIsFinal
<1>3. \A w \in Vms \ {vm_id[j]} : Untouched(w)
  BY DEF Untouched, InStore
<1>4. CoreTypeOK' /\ \A i \in Jobs \ {j} : Still(i) /\ Unowned(i)
  BY <1>0, <1>1 DEF CoreTypeOK, Still, Unowned, WorkerPcs, Creating, NameLocked
<1>5. Locks(j)'
  BY <1>0 DEF JobInv, Locks, LockHolders, CoreTypeOK, Creating, NameLocked, Launching
<1>6. Allocates(j)'
  BY <1>0 DEF JobInv, Allocates, Planned, Bound, CoreTypeOK, Creating, NameLocked
<1>7. Executes(j)' /\ TearsDown(j)'
  BY <1>0 DEF JobInv, Executes, TearsDown, Allocates, Planned, CoreTypeOK, Creating, NameLocked,
      Bound, CleanupProven
<1>8. Owns(j)'
  BY <1>0, <1>1, <1>2 DEF JobInv, Owns, Allocates, Planned, Locks, Bound, CleanupProven, Owners,
      Current, CoreTypeOK
<1> QED BY <1>3, <1>4, <1>5, <1>6, <1>7, <1>8, GenerationInv DEF JobInv

\* The recovery receipt becomes durable.
LEMMA PersistReceiptInv ==
  ASSUME FactoryInv, NEW j \in Jobs, PersistReceipt(j)
  PROVE  FactoryInv'
<1> USE DEF PersistReceipt, Goto, lockVars, coreVars, vmmVars, boundVars, journalVars, jobVars,
    leaseVars, rowVars, flagVars, hostVars
<1>0. JournalInv /\ JobTypeOK /\ CoreTypeOK /\ JobInv(j)
  BY DEF FactoryInv, JournalInv
<1>1. vm_id[j] \in Vms /\ teardown[j] = "none"
  BY <1>0 DEF JobInv, Allocates, Locks, LockHolders, NameLocked, CoreTypeOK
<1>2. \A w \in Vms \ {vm_id[j]} : Untouched(w)
  BY DEF Untouched, InStore
<1>3. CoreTypeOK' /\ \A i \in Jobs \ {j} : Still(i) /\ Unowned(i)
  BY <1>0, <1>1 DEF CoreTypeOK, Still, Unowned, WorkerPcs, Creating, NameLocked
<1>4. Locks(j)'
  BY <1>0 DEF JobInv, Locks, LockHolders, CoreTypeOK, Creating, NameLocked, Launching
<1>5. Allocates(j)'
  BY <1>0 DEF JobInv, Allocates, Planned, Bound, CoreTypeOK, Creating, NameLocked
<1>6. Executes(j)' /\ TearsDown(j)'
  BY <1>0, <1>1 DEF JobInv, Executes, TearsDown, CoreTypeOK, Creating, NameLocked, Bound,
      CleanupProven
<1>7. Owns(j)'
  BY <1>0, <1>1 DEF JobInv, Owns, Allocates, Creating, NameLocked, Bound, CleanupProven, Owners,
      Current
<1> QED BY <1>2, <1>3, <1>4, <1>5, <1>6, <1>7, GenerationInv DEF JobInv

\* The lease becomes the VM row, which owns the live process from then on.
LEMMA CommitRowInv ==
  ASSUME FactoryInv, NEW j \in Jobs, CommitRow(j)
  PROVE  FactoryInv'
<1> USE DEF CommitRow, Goto, Unlock, coreVars, vmmVars, boundVars, jobVars
<1>0. JournalInv /\ CoreTypeOK /\ JobInv(j)
  BY DEF FactoryInv, JournalInv
<1>1. Transaction /\ vm_id[j] \in Vms
  BY <1>0, LeaseCalls
<1>2. /\ vms' = vms \cup {vm_id[j]} /\ leases' = leases \ {vm_id[j]}
      /\ backend_entered' = backend_entered \ {vm_id[j]}
      /\ lease_destroyed' = lease_destroyed \ {vm_id[j]}
      /\ confirmed' = confirmed \ {vm_id[j]}
      /\ UNCHANGED <<entered_at, hostVars>>
  BY DEF CommitVm, DeleteLeaseRow
<1>3. \A w \in Vms \ {vm_id[j]} : Untouched(w)
  BY <1>2 DEF Untouched, InStore
<1>4. CoreTypeOK' /\ \A i \in Jobs \ {j} : Still(i) /\ Unowned(i)
  BY <1>0 DEF CoreTypeOK, Still, Unowned, WorkerPcs, Creating, NameLocked, Holders
<1>5. Locks(j)'
  BY <1>0 DEF JobInv, Locks, LockHolders, CoreTypeOK, Creating, NameLocked, Launching
<1>6. Allocates(j)'
  BY <1>0 DEF JobInv, Allocates, Planned, Bound, CoreTypeOK, Creating, NameLocked
<1>7. Executes(j)' /\ TearsDown(j)'
  BY <1>0, <1>2 DEF JobInv, Executes, TearsDown, Locks, LockHolders, CoreTypeOK, Creating,
      NameLocked, Bound, CleanupProven
<1>8. Owns(j)'
  BY <1>0, <1>2 DEF JobInv, Owns, Allocates, Creating, NameLocked, Bound, CleanupProven, Owners
<1> QED BY <1>1, <1>2, <1>3, <1>4, <1>5, <1>6, <1>7, <1>8, GenerationInv DEF JobInv

-----------------------------------------------------------------------------
(* Teardown.                                                               *)

\* Whoever tears down a generation has its name lock to itself: the job is still
\* charged for it, and no worker is between its plan and its row.
LEMMA TeardownHolder ==
  ASSUME FactoryInv, NEW j \in Jobs, teardown[j] # "none"
  PROVE  /\ vm_id[j] \in Vms /\ Bound(j) /\ j \in cleanup_pending /\ state[j] \in Visible
         /\ worker[j] \notin Planned \cup {"start", "noslot", "claimed", "spawned", "created"}
         /\ name_lock[j] # "free"
<1>0. JournalInv /\ JobTypeOK /\ CoreTypeOK /\ JobInv(j)
  BY DEF FactoryInv, JournalInv
<1>1. Bound(j) /\ j \in cleanup_pending
  BY <1>0 DEF JobInv, TearsDown
<1>2. vm_id[j] \in Vms /\ j \in claimed /\ state[j] \in Visible
  BY <1>0, <1>1 DEF JobTypeOK, Bound, JournalInv, OwnershipInv, LiveHolds
<1> QED
  BY <1>0, <1>1, <1>2 DEF JobInv, Locks, LockHolders, Allocates, Planned, NameLocked, CoreTypeOK

\* The holder returns: every lock it holds is free again and its task moves on.
LEMMA HolderReturns ==
  ASSUME FactoryInv, NEW j \in Jobs, teardown[j] # "none", EndTeardown(j),
         UNCHANGED <<daemon, cleaner>>
  PROVE  /\ teardown' = [teardown EXCEPT ![j] = "none"]
         /\ name_lock' = [name_lock EXCEPT ![j] = "free"]
         /\ lifecycle' \in [Jobs -> Holders] /\ worker' \in [Jobs -> WorkerPcs] /\ tried' \subseteq Vms
         /\ \A i \in Jobs \ {j} : lifecycle'[i] = lifecycle[i] /\ worker'[i] = worker[i]
         /\ \/ worker[j] = "rollback" /\ worker'[j] = "failed"
            \/ worker[j] = "cleanup" /\ worker'[j] = "finished"
            \/ worker[j] # "rollback" /\ worker'[j] = worker[j]
         /\ Locks(j)'
<1>0. CoreTypeOK /\ JobInv(j) /\ vm_id[j] \in Vms
  BY TeardownHolder DEF FactoryInv
<1>1. CASE name_lock[j] = "worker"
  BY <1>0, <1>1 DEF EndTeardown, Advance, Unlock, Goto, JobInv, Locks, LockHolders, CoreTypeOK,
      WorkerPcs, Creating, NameLocked, Launching
<1>2. CASE name_lock[j] = "cleaner"
  BY <1>0, <1>2 DEF EndTeardown, Advance, Unlock, Goto, JobInv, Locks, LockHolders, CoreTypeOK,
      WorkerPcs, Creating, NameLocked, Launching, Holders
<1>3. CASE name_lock[j] = "recovery"
  BY <1>0, <1>3 DEF EndTeardown, Advance, Unlock, Goto, JobInv, Locks, LockHolders, CoreTypeOK,
      NameLocked
<1>4. CASE name_lock[j] \notin {"worker", "cleaner", "recovery"}
  BY <1>0, <1>4 DEF EndTeardown, Advance, Unlock, Goto, JobInv, Locks, LockHolders, CoreTypeOK,
      NameLocked
<1> QED BY <1>1, <1>2, <1>3, <1>4

\* "VM not found" ends the attempt, a failing step or a timeout abandons it; a
\* process may have been killed without a proof.
LEMMA AbandonInv ==
  ASSUME FactoryInv, NEW j \in Jobs, KillRefused(j) \/ Abandon(j)
  PROVE  FactoryInv'
<1> USE DEF journalVars, jobVars, leaseVars, rowVars, flagVars, hostVars
<1>0. JournalInv /\ CoreTypeOK /\ JobInv(j)
  BY DEF FactoryInv
<1>1. /\ UNCHANGED <<journalVars, daemon, retained, sessions, owner, receipt, disk>>
      /\ proc' \subseteq proc /\ faults' \in Nat /\ crashes' \in Nat
  BY <1>0 DEF KillRefused, Abandon, Fault, Killed, vmmVars, boundVars, CoreTypeOK
<1>2. (\A w \in Vms : Untouched(w)) /\ \A i \in Jobs : Unowned(i)
  BY <1>1 DEF Untouched, InStore, Unowned
<1>3. Owns(j)'
  BY <1>0, <1>1 DEF JobInv, Owns, Bound, CleanupProven, Owners, Current
<1>4. CASE teardown[j] # "none" /\ EndTeardown(j) /\ UNCHANGED cleaner
  <2>1. CoreTypeOK' /\ \A i \in Jobs \ {j} : Still(i)
    BY <1>0, <1>1, <1>4, HolderReturns DEF CoreTypeOK, Still, Holders, TeardownPcs
  <2>2. Locks(j)'
    BY <1>1, <1>4, HolderReturns
  <2>3. Allocates(j)'
    BY <1>0, <1>1, <1>4, HolderReturns, TeardownHolder DEF JobInv, Allocates, Planned, Creating,
        NameLocked, CoreTypeOK, Bound
  <2>4. Executes(j)'
    BY <1>0, <1>1, <1>4, HolderReturns DEF JobInv, Executes, Creating, NameLocked, Launching
  <2>5. TearsDown(j)'
    BY <1>0, <1>1, <1>4, HolderReturns DEF JobInv, TearsDown, CoreTypeOK, CleanupProven
  <2> QED BY <1>1, <1>2, <1>3, <2>1, <2>2, <2>3, <2>4, <2>5, GenerationInv DEF JobInv
<1>5. CASE /\ cleaner[j] # "none" /\ lifecycle[j] = "tick"
           /\ cleaner' = [cleaner EXCEPT ![j] = "none"] /\ Unlock(lifecycle, j)
           /\ UNCHANGED <<worker, name_lock, teardown, tried>>
  <2>1. CoreTypeOK' /\ \A i \in Jobs \ {j} : Still(i)
    BY <1>0, <1>1, <1>5 DEF CoreTypeOK, Still, Holders, Unlock
  <2>2. Locks(j)'
    BY <1>0, <1>1, <1>5 DEF JobInv, Locks, LockHolders, CoreTypeOK, Unlock
  <2>3. Allocates(j)' /\ Executes(j)' /\ TearsDown(j)'
    BY <1>0, <1>1, <1>5 DEF JobInv, Allocates, Executes, TearsDown, CoreTypeOK, Bound,
        CleanupProven, Current
  <2> QED BY <1>1, <1>2, <1>3, <2>1, <2>2, <2>3, GenerationInv DEF JobInv
<1> QED BY <1>4, <1>5 DEF KillRefused, Abandon

\* destroy_factory_allocation: nothing is alive once it returns.
LEMMA KillVmmInv ==
  ASSUME FactoryInv, NEW j \in Jobs, KillVmm(j)
  PROVE  FactoryInv'
<1> USE DEF journalVars, jobVars, leaseVars, rowVars, flagVars, hostVars
<1>0. JournalInv /\ CoreTypeOK /\ JobInv(j) /\ teardown[j] = "kill"
  BY DEF FactoryInv, KillVmm
<1>1. /\ UNCHANGED <<journalVars, daemon, worker, lifecycle, name_lock, cleaner, tried, sessions,
                     receipt, disk, boundVars>>
      /\ teardown' = [teardown EXCEPT ![j] = "killed"]
  BY DEF KillVmm, Advance
<1>2. /\ proc' \subseteq proc /\ owner' \subseteq owner
      /\ owner \ {vm_id[j]} \subseteq owner'
      /\ retained \subseteq retained' /\ retained' \subseteq retained \cup {vm_id[j]}
      /\ vm_id[j] \notin proc' \cup owner'
  <2>1. CASE vm_id[j] \in retained \cup lease_destroyed
    BY <1>0, <2>1 DEF KillVmm, JobInv, Owns
  <2>2. CASE vm_id[j] \notin retained \cup lease_destroyed
    <3>1. vm_id[j] \in proc => vm_id[j] \in owner \cup receipt
      BY <1>0, <2>2 DEF KillVmm, Destroyable, JobInv, Allocates, Locks, LockHolders
    <3> QED BY <2>2, <3>1 DEF KillVmm, Killed
  <2> QED BY <2>1, <2>2
<1>3. \A w \in Vms \ {vm_id[j]} : Untouched(w)
  BY <1>1, <1>2 DEF Untouched, InStore
<1>4. CoreTypeOK' /\ \A i \in Jobs \ {j} : Still(i) /\ Unowned(i)
  BY <1>0, <1>1, <1>2, TeardownHolder DEF CoreTypeOK, Still, Unowned, TeardownPcs, boundVars
<1>5. Locks(j)'
  BY <1>0, <1>1 DEF JobInv, Locks, LockHolders, CoreTypeOK
<1>6. Allocates(j)'
  BY <1>0, <1>1, <1>2, TeardownHolder DEF JobInv, Allocates, Planned, CoreTypeOK
<1>7. Executes(j)'
  BY <1>0, <1>1 DEF JobInv, Executes
<1>8. TearsDown(j)'
  BY <1>0, <1>1, <1>2 DEF JobInv, TearsDown, CoreTypeOK, Bound, CleanupProven
<1>9. Owns(j)'
  BY <1>0, <1>1, <1>2 DEF JobInv, Owns, Bound, CleanupProven, Owners
<1> QED BY <1>1, <1>3, <1>4, <1>5, <1>6, <1>7, <1>8, <1>9, GenerationInv DEF JobInv

\* record_job_vm_destruction finds the one job the generation is bound to.
LEMMA DeathCalls ==
  ASSUME FactoryInv, NEW j \in Jobs, Bound(j), state[j] \in Visible,
         RecordJobVmDestruction(vm_id[j])
  PROVE  /\ Transaction
         /\ vm_destroyed' = vm_destroyed \cup {j}
         /\ UNCHANGED <<leaseVars, state, claimed, vm_id, cleanup_pending, vm_allocation_aborted>>
<1>0. JournalInv /\ JobTypeOK /\ OneJobPerGeneration
  BY DEF FactoryInv, JournalInv, OwnershipInv
<1>1. vm_id[j] \in Vms /\ {i \in In(Journaled) : vm_id[i] = vm_id[j]} = {j}
  BY <1>0 DEF OneJobPerGeneration, JobTypeOK, Bound, In, Journaled
<1> QED BY <1>1 DEF RecordJobVmDestruction, Transaction

\* The death of the process is journaled on the lease.
LEMMA JournalLeaseDeathInv ==
  ASSUME FactoryInv, NEW j \in Jobs, JournalLeaseDeath(j)
  PROVE  FactoryInv'
<1> USE DEF JournalLeaseDeath, Advance, jobVars, coreVars, vmmVars, boundVars
<1>0. JournalInv /\ CoreTypeOK /\ JobInv(j) /\ vm_id[j] \notin proc \cup owner
  BY DEF FactoryInv, JobInv, TearsDown
<1>1. Transaction /\ UNCHANGED <<leases, vms, backend_entered, confirmed, entered_at, hostVars>>
      /\ lease_destroyed' = lease_destroyed \cup {vm_id[j]}
  BY <1>0, LeaseCalls DEF RecordLeaseDestruction, rowVars
<1>2. \A w \in Vms \ {vm_id[j]} : Untouched(w)
  BY <1>1 DEF Untouched, InStore
<1>3. CoreTypeOK' /\ \A i \in Jobs \ {j} : Still(i) /\ Unowned(i)
  BY <1>0 DEF CoreTypeOK, Still, Unowned, TeardownPcs
<1>4. Locks(j)' /\ Executes(j)' /\ TearsDown(j)'
  BY <1>0, <1>1 DEF JobInv, Locks, LockHolders, Executes, TearsDown, CoreTypeOK, Bound,
      CleanupProven
<1>5. Allocates(j)'
  BY <1>0, <1>1, TeardownHolder DEF JobInv, Allocates, Planned, CoreTypeOK
<1>6. Owns(j)'
  BY <1>0, <1>1 DEF JobInv, Owns, Bound, CleanupProven, Owners
<1> QED BY <1>1, <1>2, <1>3, <1>4, <1>5, <1>6, GenerationInv DEF JobInv

\* The proof is handed to the job, and only then forgotten by the daemon.
LEMMA JournalJobDeathInv ==
  ASSUME FactoryInv, NEW j \in Jobs, JournalJobDeath(j)
  PROVE  FactoryInv'
<1> USE DEF leaseVars, rowVars, flagVars, hostVars, vmmVars, boundVars
<1>0. JournalInv /\ CoreTypeOK /\ JobInv(j) /\ teardown[j] \in {"killed", "leased"}
      /\ vm_id[j] \notin proc \cup owner
  BY DEF FactoryInv, JobInv, TearsDown, JournalJobDeath
<1>1. Transaction /\ vm_destroyed' = vm_destroyed \cup {j}
      /\ UNCHANGED <<leaseVars, state, claimed, vm_id, cleanup_pending, vm_allocation_aborted>>
  BY <1>0, DeathCalls, TeardownHolder DEF JournalJobDeath
<1>2. PICK pc \in {"files", "proven"} :
         /\ teardown' = [teardown EXCEPT ![j] = pc]
         /\ pc = "files" => name_lock[j] = "cleaner" /\ vm_id[j] \notin vms
  BY DEF JournalJobDeath, Advance
<1>3. retained' = retained \ {vm_id[j]}
      /\ UNCHANGED <<daemon, worker, lifecycle, name_lock, cleaner, tried, sessions, vmmVars, boundVars>>
  BY DEF JournalJobDeath
<1>4. \A w \in Vms \ {vm_id[j]} : Untouched(w)
  BY <1>1, <1>3 DEF Untouched, InStore
<1>5. CoreTypeOK' /\ \A i \in Jobs \ {j} : Still(i) /\ Unowned(i)
  BY <1>0, <1>1, <1>2, <1>3 DEF CoreTypeOK, Still, Unowned, TeardownPcs
<1>6. Locks(j)' /\ Executes(j)' /\ TearsDown(j)'
  BY <1>0, <1>1, <1>2, <1>3 DEF JobInv, Locks, LockHolders, Executes, TearsDown, CoreTypeOK,
      Bound, CleanupProven
<1>7. Allocates(j)'
  BY <1>0, <1>1, <1>2, <1>3, TeardownHolder DEF JobInv, Allocates, Planned, CoreTypeOK
<1>8. Owns(j)'
  BY <1>0, <1>1, <1>3 DEF JobInv, Owns, Bound, CleanupProven, Owners
<1> QED BY <1>1, <1>3, <1>4, <1>5, <1>6, <1>7, <1>8, GenerationInv DEF JobInv

\* Directories, receipts and retained proofs go once the death is journaled.
LEMMA RemovalInv ==
  ASSUME FactoryInv, NEW j \in Jobs, SweepDirectory(j) \/ RemoveFiles(j)
  PROVE  FactoryInv'
<1> USE DEF SweepDirectory, RemoveFiles, Advance, journalVars, jobVars, leaseVars, rowVars,
    flagVars, hostVars, coreVars, boundVars
<1>0. CoreTypeOK /\ JobInv(j) /\ CleanupProven(j) /\ teardown[j] \in {"proven", "files"}
  BY DEF FactoryInv, JobInv, TearsDown
<1>1. UNCHANGED <<journalVars, daemon, worker, lifecycle, name_lock, cleaner, tried, sessions, proc,
                  owner, boundVars>>
      /\ disk' = disk \ {j}
      /\ \/ teardown[j] = "proven" /\ teardown' = [teardown EXCEPT ![j] = "swept"] /\ UNCHANGED <<retained, receipt>>
         \/ /\ teardown[j] = "files" /\ teardown' = [teardown EXCEPT ![j] = "unlease"]
            /\ retained' = retained \ {vm_id[j]} /\ receipt' = receipt \ {vm_id[j]}
  OBVIOUS
<1>2. \A w \in Vms \ {vm_id[j]} : Untouched(w)
  BY <1>1 DEF Untouched, InStore
<1>3. CoreTypeOK' /\ \A i \in Jobs \ {j} : Still(i) /\ Unowned(i)
  BY <1>0, <1>1 DEF CoreTypeOK, Still, Unowned, TeardownPcs
<1>4. Locks(j)' /\ Executes(j)' /\ TearsDown(j)'
  BY <1>0, <1>1 DEF JobInv, Locks, LockHolders, Executes, TearsDown, CoreTypeOK, Bound,
      CleanupProven
<1>5. Allocates(j)'
  BY <1>0, <1>1, TeardownHolder DEF JobInv, Allocates, Planned, CoreTypeOK
<1>6. Owns(j)'
  BY <1>0, <1>1 DEF JobInv, Owns, Bound, CleanupProven, Owners
<1> QED BY <1>1, <1>2, <1>3, <1>4, <1>5, <1>6, GenerationInv DEF JobInv

\* What giving up the row or the lease of a generation changes.
LEMMA EndCalls ==
  ASSUME JournalInv, NEW v, RetireVm(v) \/ ReleaseLease(v), UNCHANGED jobVars
  PROVE  /\ v \in Vms /\ Transaction /\ UNCHANGED <<entered_at, hostVars>>
         /\ v \notin vms' /\ vms' \subseteq vms /\ leases' \subseteq leases
         /\ \A w \in Vms \ {v} : InStore(w)
<1>1. v \in Vms /\ Transaction
  BY LeaseCalls
<1>2. CASE RetireVm(v)
  BY <1>1, <1>2 DEF RetireVm, flagVars, hostVars, InStore
<1>3. CASE ReleaseLease(v)
  BY <1>1, <1>3 DEF ReleaseLease, ReleaseAllowed, DeleteLeaseRow, JournalInv, LeaseInv,
      CidOwnedOnce, hostVars, InStore
<1> QED BY <1>2, <1>3

\* The row or the lease gives its CID back after the process is proven dead.
LEMMA ReleaseIdentityInv ==
  ASSUME FactoryInv, NEW j \in Jobs, ReleaseIdentity(j)
  PROVE  FactoryInv'
<1> USE DEF jobVars, vmmVars, boundVars
<1>0. JournalInv /\ CoreTypeOK /\ JobInv(j) /\ CleanupProven(j) /\ teardown[j] = "swept"
      /\ vm_id[j] \notin proc \cup owner
  BY DEF FactoryInv, JobInv, TearsDown, Owns, ReleaseIdentity
<1>1. /\ Transaction /\ UNCHANGED <<entered_at, hostVars>>
      /\ vm_id[j] \notin vms' /\ vms' \subseteq vms /\ leases' \subseteq leases
      /\ UNCHANGED <<jobVars, daemon, cleaner, retained, sessions, vmmVars, boundVars>>
  BY <1>0, EndCalls DEF ReleaseIdentity
<1>2. \A w \in Vms \ {vm_id[j]} : Untouched(w)
  BY <1>0, <1>1, EndCalls DEF Untouched, InStore, ReleaseIdentity
<1>3. Owns(j)'
  BY <1>0, <1>1 DEF JobInv, Owns, Bound, CleanupProven, Owners
<1>4. CASE Advance(j, "files") /\ UNCHANGED <<worker, lifecycle, name_lock, tried>> /\ name_lock[j] = "cleaner"
  <2> USE DEF Advance
  <2>1. CoreTypeOK' /\ \A i \in Jobs \ {j} : Still(i) /\ Unowned(i)
    BY <1>0, <1>1, <1>4 DEF CoreTypeOK, Still, Unowned, TeardownPcs
  <2>2. Locks(j)' /\ Executes(j)' /\ TearsDown(j)'
    BY <1>0, <1>1, <1>4 DEF JobInv, Locks, LockHolders, Executes, TearsDown, CoreTypeOK, Bound,
        CleanupProven
  <2>3. Allocates(j)'
    BY <1>0, <1>1, <1>4, TeardownHolder DEF JobInv, Allocates, Planned, CoreTypeOK
  <2> QED BY <1>1, <1>2, <1>3, <2>1, <2>2, <2>3, GenerationInv DEF JobInv
<1>5. CASE EndTeardown(j)
  <2>1. CoreTypeOK' /\ \A i \in Jobs \ {j} : Still(i) /\ Unowned(i)
    BY <1>0, <1>1, <1>5, HolderReturns DEF CoreTypeOK, Still, Unowned, Holders, TeardownPcs
  <2>2. Locks(j)' /\ Executes(j)' /\ TearsDown(j)'
    BY <1>0, <1>1, <1>5, HolderReturns DEF JobInv, Executes, TearsDown, CoreTypeOK,
        CleanupProven, Creating, NameLocked, Launching
  <2>3. Allocates(j)'
    BY <1>0, <1>1, <1>5, HolderReturns, TeardownHolder DEF JobInv, Allocates, Planned, Creating,
        NameLocked, CoreTypeOK
  <2> QED BY <1>1, <1>2, <1>3, <2>1, <2>2, <2>3, GenerationInv DEF JobInv
<1> QED BY <1>4, <1>5 DEF ReleaseIdentity

\* A lease that outlived its files is destroyed and then released.
LEMMA ReleaseCleanedLeaseInv ==
  ASSUME FactoryInv, NEW j \in Jobs, ReleaseCleanedLease(j)
  PROVE  FactoryInv'
<1> USE DEF jobVars, lockVars, coreVars, vmmVars, boundVars
<1>0. JournalInv /\ CoreTypeOK /\ JobInv(j) /\ CleanupProven(j) /\ teardown[j] = "unlease"
      /\ vm_id[j] \notin proc \cup owner
  BY DEF FactoryInv, JobInv, TearsDown, Owns, ReleaseCleanedLease
<1>1. UNCHANGED <<jobVars, daemon, worker, lockVars, coreVars, vmmVars, boundVars>>
  BY DEF ReleaseCleanedLease
<1>2. /\ Transaction /\ UNCHANGED <<entered_at, hostVars>>
      /\ vms' \subseteq vms /\ leases' \subseteq leases
      /\ \A w \in Vms \ {vm_id[j]} : Untouched(w)
  <2>1. CASE RecordLeaseDestruction(vm_id[j])
    BY <1>0, <1>1, <2>1, LeaseCalls DEF RecordLeaseDestruction, rowVars, Untouched, InStore
  <2>2. CASE ReleaseLease(vm_id[j])
    BY <1>0, <1>1, <2>2, EndCalls DEF Untouched, InStore
  <2> QED BY <2>1, <2>2 DEF ReleaseCleanedLease
<1>3. CoreTypeOK' /\ \A i \in Jobs \ {j} : Still(i) /\ Unowned(i)
  BY <1>0, <1>1 DEF CoreTypeOK, Still, Unowned
<1>4. Locks(j)' /\ Executes(j)' /\ TearsDown(j)'
  BY <1>0, <1>1, <1>2 DEF JobInv, Locks, LockHolders, Executes, TearsDown, Bound, CleanupProven
<1>5. Allocates(j)'
  BY <1>0, <1>1, <1>2, TeardownHolder DEF JobInv, Allocates, Planned
<1>6. Owns(j)'
  BY <1>0, <1>1, <1>2 DEF JobInv, Owns, Bound, CleanupProven, Owners
<1> QED BY <1>1, <1>2, <1>3, <1>4, <1>5, <1>6, GenerationInv DEF JobInv

\* confirm_job_cleanup is the last step of a cleanup: nothing is left.
LEMMA ConfirmCleanupInv ==
  ASSUME FactoryInv, NEW j \in Jobs, ConfirmCleanup(j)
  PROVE  FactoryInv'
<1> USE DEF vmmVars, boundVars
<1>0. JournalInv /\ CoreTypeOK /\ JobInv(j) /\ CleanupProven(j) /\ teardown[j] = "unlease"
      /\ name_lock[j] = "cleaner" /\ cleaner[j] = "none"
  BY DEF FactoryInv, JobInv, TearsDown, Locks, ConfirmCleanup
<1>1. /\ Transaction /\ cleanup_pending' = cleanup_pending \ {j}
      /\ UNCHANGED <<leaseVars, state, claimed, vm_id, vm_destroyed, vm_allocation_aborted>>
      /\ UNCHANGED <<daemon, cleaner, retained, sessions, vmmVars, boundVars>>
      /\ EndTeardown(j) /\ vm_id[j] \notin leases
  BY DEF ConfirmCleanup, ConfirmJobCleanup, Transaction, JobTransaction
<1>2. \A w \in Vms : Untouched(w)
  BY <1>1 DEF Untouched, InStore, leaseVars, rowVars, flagVars
<1>3. CoreTypeOK' /\ \A i \in Jobs \ {j} : Still(i) /\ Unowned(i)
  BY <1>0, <1>1, HolderReturns DEF CoreTypeOK, Still, Unowned, Holders, TeardownPcs
<1>4. worker[j] \notin Creating
  BY <1>0, TeardownHolder DEF JobInv, Locks, LockHolders, Creating, NameLocked
<1>5. Locks(j)' /\ Executes(j)' /\ TearsDown(j)'
  BY <1>0, <1>1, <1>4, HolderReturns DEF JobInv, Executes, TearsDown, CoreTypeOK, CleanupProven,
      Creating, NameLocked, Launching
<1>6. Allocates(j)'
  BY <1>0, <1>1, <1>4, HolderReturns, TeardownHolder DEF Allocates, Planned, Creating, NameLocked
<1>7. Owns(j)'
  BY <1>0, <1>1 DEF JobInv, Owns, TearsDown, Bound, CleanupProven, Owners, leaseVars, rowVars
<1> QED BY <1>1, <1>2, <1>3, <1>5, <1>6, <1>7, GenerationInv DEF JobInv, leaseVars

-----------------------------------------------------------------------------
(* The start of a teardown.                                                *)

\* Nobody who plans or enters a generation can lose its name lock.
LEMMA FreeName ==
  ASSUME FactoryInv, NEW j \in Jobs, name_lock[j] = "free"
  PROVE  /\ worker[j] \notin NameLocked \cup Launching /\ teardown[j] = "none"
         /\ vm_id[j] \in Owners => Bound(j) /\ j \in cleanup_pending
         /\ Bound(j) => worker[j] \notin {"start", "noslot", "claimed"}
<1>0. JobTypeOK /\ CoreTypeOK /\ JobInv(j) /\ LeaseTypeOK
  BY DEF FactoryInv, JournalInv, LeaseInv
<1>1. vm_id[j] \in Owners => Bound(j)
  BY <1>0, JobJournalAssumption DEF Owners, LeaseTypeOK, Bound
<1>2. Bound(j) => worker[j] \notin {"start", "noslot", "claimed"}
  BY <1>0 DEF JobInv, Allocates, JobTypeOK, Bound
<1>3. worker[j] \notin NameLocked \cup Launching /\ teardown[j] = "none"
  BY <1>0 DEF JobInv, Locks, LockHolders
<1> QED BY <1>0, <1>1, <1>2, <1>3 DEF JobInv, Owns, Owners

\* destroy_vm, the expiration tick, and the visit of an entered or fenced lease
\* by the recovery.
LEMMA TakeNameInv ==
  ASSUME FactoryInv, NEW j \in Jobs, NEW who \in {"destroyer", "recovery"},
         NEW pc \in {"kill", "killed", "leased", "proven"},
         Lock(name_lock, j, who), Advance(j, pc),
         vm_id[j] \in vms \/ (daemon = "recovering" /\ vm_id[j] \in leases),
         pc = "proven" => CleanupProven(j),
         pc \in {"killed", "leased"} => vm_id[j] \in lease_destroyed \/ CleanupProven(j),
         UNCHANGED <<journalVars, daemon, worker, lifecycle, cleaner, coreVars, vmmVars, boundVars>>
  PROVE  FactoryInv'
<1> USE DEF Lock, Advance, journalVars, jobVars, leaseVars, rowVars, flagVars, hostVars,
    coreVars, vmmVars, boundVars
<1>0. CoreTypeOK /\ JobInv(j) /\ name_lock[j] = "free" /\ Bound(j) /\ j \in cleanup_pending
      /\ worker[j] \notin NameLocked \cup Launching
      /\ worker[j] \notin {"start", "noslot", "claimed"}
  BY FreeName DEF FactoryInv, Owners
<1>1. CoreTypeOK' /\ \A i \in Jobs \ {j} : Still(i)
  BY <1>0 DEF CoreTypeOK, Still, Holders, TeardownPcs
<1>2. Locks(j)'
  BY <1>0 DEF JobInv, Locks, LockHolders, CoreTypeOK
<1>3. Allocates(j)'
  <2>1. worker[j] \notin Planned
    BY <1>0 DEF JobInv, Locks, Allocates, Planned
  <2> QED BY <1>0, <2>1 DEF JobInv, Allocates, CoreTypeOK, NameLocked, Planned
<1>4. Executes(j)'
  BY <1>0 DEF JobInv, Executes
<1>5. TearsDown(j)'
  BY <1>0 DEF JobInv, TearsDown, Owns, CoreTypeOK, Bound, CleanupProven
<1> QED BY <1>1, <1>2, <1>3, <1>4, <1>5, QuietInv DEF Ownership

\* A host reboot since the entry proves that the allocation is gone: a process
\* that is alive was entered in the running boot.
LEMMA ConfirmRebootStep ==
  ASSUME FactoryInv, NEW j \in Jobs, ConfirmReboot(vm_id[j]), UNCHANGED jobVars,
         Lock(name_lock, j, "recovery"), Advance(j, "leased"), daemon = "recovering",
         UNCHANGED <<daemon, worker, lifecycle, cleaner, coreVars, vmmVars, boundVars>>
  PROVE  FactoryInv'
<1> USE DEF Lock, Advance, jobVars, coreVars, vmmVars, boundVars
<1>0. JournalInv /\ CoreTypeOK /\ JobInv(j) /\ name_lock[j] = "free"
  BY DEF FactoryInv
<1>1. Transaction /\ vm_id[j] \in Vms
  BY <1>0, LeaseCalls
<1>2. /\ UNCHANGED <<leases, vms, backend_entered, lease_destroyed, entered_at, epoch, hostVars>>
      /\ confirmed' = confirmed \cup {vm_id[j]}
      /\ vm_id[j] \in leases /\ epoch[vm_id[j]].host = Current.host
  BY DEF ConfirmReboot, RebootProven, Readings, rowVars
<1>3. vm_id[j] \notin owner
  BY <1>0 DEF JobInv, Owns
<1>4. vm_id[j] \notin proc
  <2>1. RebootReceiptSound'
    BY <1>0, <1>1, TransactionInv DEF JournalInv, LeaseInv
  <2>2. SUFFICES ASSUME entered_at[vm_id[j]] = Current PROVE FALSE
    BY <1>0, <1>2 DEF JobInv, Owns
  <2>3. here \in Hosts /\ boot_of[here] \in Nat
    BY <1>0 DEF JournalInv, LeaseInv, LeaseTypeOK
  <2> QED BY <1>2, <2>1, <2>2, <2>3 DEF RebootReceiptSound, Current, hostVars
<1>5. Bound(j) /\ j \in cleanup_pending /\ worker[j] = "none"
  BY <1>0, <1>2, FreeName DEF Owners, JobInv, Locks
<1>6. \A w \in Vms \ {vm_id[j]} : Untouched(w)
  BY <1>2 DEF Untouched, InStore
<1>7. CoreTypeOK' /\ \A i \in Jobs \ {j} : Still(i) /\ Unowned(i)
  BY <1>0 DEF CoreTypeOK, Still, Unowned, Holders, TeardownPcs
<1>8. Locks(j)' /\ Executes(j)' /\ TearsDown(j)'
  BY <1>0, <1>2, <1>3, <1>4, <1>5 DEF JobInv, Locks, LockHolders, Executes, TearsDown,
      CoreTypeOK, Bound, CleanupProven, NameLocked, Launching
<1>9. Allocates(j)'
  BY <1>5 DEF Allocates, Planned, Creating, NameLocked
<1>10. Owns(j)'
  BY <1>0, <1>2, <1>3, <1>4 DEF JobInv, Owns, Bound, CleanupProven, Owners
<1> QED BY <1>1, <1>2, <1>6, <1>7, <1>8, <1>9, <1>10, GenerationInv DEF JobInv

\* recover_host_resource_leases, a lease at a time, and destroy_vm.
LEMMA VisitInv ==
  ASSUME FactoryInv, NEW j \in Jobs, RecoverLease(j) \/ StartDestroy(j)
  PROVE  FactoryInv'
<1>1. CASE StartDestroy(j)
  <2>0. /\ vm_id[j] \in vms /\ Lock(name_lock, j, "destroyer")
        /\ UNCHANGED <<journalVars, daemon, worker, lifecycle, cleaner, coreVars, vmmVars, boundVars>>
        /\ (j \in vm_destroyed /\ Advance(j, "proven")) \/ Advance(j, "kill")
    BY <1>1 DEF StartDestroy
  <2>1. CASE j \in vm_destroyed /\ Advance(j, "proven")
    BY <2>0, <2>1, TakeNameInv DEF CleanupProven
  <2>2. CASE Advance(j, "kill")
    BY <2>0, <2>2, TakeNameInv
  <2> QED BY <2>0, <2>1, <2>2
<1>2. CASE RecoverLease(j)
  <2>0. /\ daemon = "recovering" /\ vm_id[j] \in leases /\ Lock(name_lock, j, "recovery")
        /\ UNCHANGED <<daemon, worker, lifecycle, cleaner, coreVars, vmmVars, boundVars>>
    BY <1>2 DEF RecoverLease
  <2>1. CASE j \in vm_allocation_aborted /\ Advance(j, "proven") /\ UNCHANGED journalVars
    BY <2>0, <2>1, TakeNameInv DEF CleanupProven
  <2>2. CASE /\ vm_id[j] \in lease_destroyed \/ j \in vm_destroyed
             /\ Advance(j, "leased") \/ Advance(j, "killed")
             /\ UNCHANGED journalVars
    BY <2>0, <2>2, TakeNameInv DEF CleanupProven
  <2>3. CASE ConfirmReboot(vm_id[j]) /\ UNCHANGED jobVars /\ Advance(j, "leased")
    BY <2>0, <2>3, ConfirmRebootStep
  <2>4. CASE Advance(j, "kill") /\ UNCHANGED journalVars
    BY <2>0, <2>4, TakeNameInv
  <2> QED BY <1>2, <2>1, <2>2, <2>3, <2>4 DEF RecoverLease
<1> QED BY <1>1, <1>2

\* A cleanup that waits has read a pending job under its lifecycle lock.
LEMMA WaitingCleanup ==
  ASSUME FactoryInv, NEW j \in Jobs, Waiting(j)
  PROVE  /\ JournalInv /\ CoreTypeOK /\ JobInv(j)
         /\ name_lock[j] = "free" /\ cleaner[j] # "none" /\ teardown[j] = "none"
         /\ j \in cleanup_pending /\ state[j] \in Visible
         /\ worker[j] \notin Planned \cup Creating \cup Launching \cup {"connect", "start", "noslot"}
         /\ lifecycle[j] \in {"worker", "tick"} /\ (lifecycle[j] = "worker" => worker[j] = "cleanup")
<1>0. JournalInv /\ JobTypeOK /\ CoreTypeOK /\ JobInv(j) /\ LiveHolds
  BY DEF FactoryInv, JournalInv, OwnershipInv
<1>1. name_lock[j] = "free" /\ cleaner[j] # "none" /\ teardown[j] = "none"
  BY FreeName DEF Waiting
<1>2. j \in cleanup_pending /\ j \in claimed /\ state[j] \in Visible
  BY <1>0, <1>1 DEF JobInv, TearsDown, JobTypeOK, LiveHolds
<1> QED
  BY <1>0, <1>1, <1>2 DEF JobInv, Locks, LockHolders, Allocates, Planned, Creating, NameLocked,
      Launching

\* A cleanup that returns without the name lock.
LEMMA CleanupReturns ==
  ASSUME FactoryInv, NEW j \in Jobs, Waiting(j), ReturnFromCleanup(j), [Transaction]_journalVars,
         UNCHANGED <<leaseVars, state, claimed, vm_id, vm_destroyed, vm_allocation_aborted>>,
         \/ UNCHANGED cleanup_pending
         \/ ~Bound(j) /\ cleanup_pending' = cleanup_pending \ {j},
         UNCHANGED <<daemon, coreVars, vmmVars, boundVars>>
  PROVE  FactoryInv'
<1> USE DEF ReturnFromCleanup, Unlock, Goto, leaseVars, rowVars, flagVars, hostVars, coreVars,
    vmmVars, boundVars
<1>1. \A w \in Vms : Untouched(w)
  BY DEF Untouched, InStore
<1>2. CoreTypeOK' /\ \A i \in Jobs \ {j} : Still(i) /\ Unowned(i)
  BY WaitingCleanup DEF CoreTypeOK, Still, Unowned, WorkerPcs, Holders
<1>3. Locks(j)'
  BY WaitingCleanup DEF JobInv, Locks, LockHolders, CoreTypeOK, Creating, NameLocked, Launching
<1>4. Allocates(j)'
  BY WaitingCleanup DEF JobInv, Allocates, Planned, Creating, NameLocked, CoreTypeOK
<1>5. Executes(j)' /\ TearsDown(j)'
  BY WaitingCleanup DEF JobInv, Executes, TearsDown, CoreTypeOK, Bound, CleanupProven, Creating,
      NameLocked, Launching
<1>6. Owns(j)'
  BY WaitingCleanup DEF JobInv, Owns, Bound, CleanupProven, Owners, Current
<1> QED BY <1>1, <1>2, <1>3, <1>4, <1>5, <1>6, GenerationInv DEF JobInv

\* A cleanup that takes the name lock and continues at pc.
LEMMA CleanupHolds ==
  ASSUME FactoryInv, NEW j \in Jobs, Waiting(j), Bound(j), NEW pc \in {"kill", "proven", "files"},
         HoldName(j, pc), [Transaction]_journalVars,
         UNCHANGED <<leaseVars, state, claimed, vm_id, cleanup_pending, vm_allocation_aborted>>,
         \/ UNCHANGED vm_destroyed
         \/ vm_id[j] \in lease_destroyed /\ vm_destroyed' = vm_destroyed \cup {j},
         pc # "kill" => CleanupProven(j)',
         pc = "files" => vm_id[j] \notin vms,
         UNCHANGED <<daemon, coreVars, vmmVars, boundVars>>
  PROVE  FactoryInv'
<1> USE DEF HoldName, Lock, Advance, leaseVars, rowVars, flagVars, hostVars, coreVars, vmmVars,
    boundVars
<1>1. \A w \in Vms : Untouched(w)
  BY DEF Untouched, InStore
<1>2. CoreTypeOK' /\ \A i \in Jobs \ {j} : Still(i) /\ Unowned(i)
  BY WaitingCleanup DEF CoreTypeOK, Still, Unowned, TeardownPcs, Holders
<1>3. Locks(j)'
  BY WaitingCleanup DEF JobInv, Locks, LockHolders, CoreTypeOK, Creating, NameLocked, Launching
<1>4. Allocates(j)'
  BY WaitingCleanup DEF JobInv, Allocates, Planned, Creating, NameLocked, CoreTypeOK
<1>5. Executes(j)' /\ TearsDown(j)'
  BY WaitingCleanup DEF JobInv, Executes, TearsDown, CoreTypeOK, Bound, CleanupProven
<1>6. Owns(j)'
  BY WaitingCleanup DEF JobInv, Owns, Bound, CleanupProven, Owners, Current
<1> QED BY <1>1, <1>2, <1>3, <1>4, <1>5, <1>6, GenerationInv DEF JobInv

\* cleanup_job_vm: release a reservation, take over a receipt of the lease, or
\* start to destroy what is still there.
LEMMA CleanInv ==
  ASSUME FactoryInv, NEW j \in Jobs,
         CleanUnallocated(j) \/ CleanFromLease(j) \/ CleanAllocation(j)
  PROVE  FactoryInv'
<1>1. CASE CleanUnallocated(j)
  BY <1>1, CleanupReturns DEF CleanUnallocated, ConfirmUnallocatedJobCleanup, Transaction,
      JobTransaction, Bound
<1>2. CASE CleanFromLease(j)
  <2>1. Bound(j) /\ state[j] \in Visible /\ vm_id[j] \notin vms
    BY <1>2, WaitingCleanup, JobJournalAssumption DEF CleanFromLease, JournalInv, LeaseInv,
        LeaseTypeOK, CidOwnedOnce, Bound
  <2>2. /\ Transaction /\ vm_destroyed' = vm_destroyed \cup {j}
        /\ UNCHANGED <<leaseVars, state, claimed, vm_id, cleanup_pending, vm_allocation_aborted>>
    BY <1>2, <2>1, DeathCalls DEF CleanFromLease
  <2>3. CleanupProven(j)'
    BY <2>2 DEF CleanupProven
  <2> QED BY <1>2, <2>1, <2>2, <2>3, CleanupHolds DEF CleanFromLease
<1>3. CASE CleanAllocation(j) /\ CleanupEntry(j) = "refused"
  BY <1>3, CleanupReturns DEF CleanAllocation, journalVars, jobVars
<1>4. CASE CleanAllocation(j) /\ CleanupEntry(j) # "refused"
  <2>1. UNCHANGED journalVars /\ Waiting(j) /\ Bound(j) /\ HoldName(j, CleanupEntry(j))
        /\ UNCHANGED <<daemon, coreVars, vmmVars, boundVars>>
    BY <1>4 DEF CleanAllocation, Bound
  <2>2. cleaner[j] = "sure" => CleanupProven(j)
    BY <2>1, WaitingCleanup DEF JobInv, TearsDown
  <2>3. /\ CleanupEntry(j) \in {"kill", "proven", "files"}
        /\ CleanupEntry(j) # "kill" => CleanupProven(j)
        /\ CleanupEntry(j) = "files" => vm_id[j] \notin vms
    BY <1>4, <2>2 DEF CleanupEntry, CleanupProven
  <2>4. CleanupProven(j)' <=> CleanupProven(j)
    BY <2>1 DEF CleanupProven, journalVars, jobVars
  <2> HIDE DEF CleanupEntry
  <2> QED BY <2>1, <2>3, <2>4, CleanupHolds DEF journalVars, jobVars
<1> QED BY <1>1, <1>2, <1>3, <1>4

\* reconcile_finished_workers: decide what the worker left undecided, fence what
\* it left unentered, and drop it when nothing is due.
LEMMA ReconcileInv ==
  ASSUME FactoryInv, NEW j \in Jobs, ReconcileWorker(j)
  PROVE  FactoryInv'
<1>0. JournalInv /\ CoreTypeOK /\ JobInv(j) /\ state \in [Jobs -> JobStates] /\ worker[j] = "finished"
      /\ UNCHANGED <<daemon, lockVars, coreVars, vmmVars, boundVars>>
  BY DEF FactoryInv, JournalInv, JobTypeOK, ReconcileWorker
<1>1. CASE RecordJobLeasedPrebackendAbort(j, vm_id[j]) /\ UNCHANGED worker
  BY <1>0, <1>1, FenceInv DEF Planned, lockVars
<1>2. CASE \/ FinishJobFailure(j, LostOutcome(j)) /\ UNCHANGED worker
           \/ ~Undecided(j) /\ Goto(j, "none") /\ UNCHANGED journalVars
  <2> USE DEF Goto, lockVars, coreVars, vmmVars, boundVars
  <2>1. Sealed(j)
    BY <1>0, <1>2, SealCalls
  <2>2. CoreTypeOK' /\ \A i \in Jobs \ {j} : Still(i)
    BY <1>0, <1>2, <2>1 DEF CoreTypeOK, Still, Sealed, WorkerPcs
  <2>3. Locks(j)' /\ TearsDown(j)'
    BY <1>0, <1>2, <2>1 DEF JobInv, Locks, LockHolders, TearsDown, Bound, CleanupProven, Sealed,
        Ownership, leaseVars, rowVars, CoreTypeOK, Creating, NameLocked, Launching
  <2>4. Allocates(j)'
    BY <1>0, <1>2, <2>1 DEF Allocates, Planned, Creating, NameLocked, CoreTypeOK
  <2>5. Executes(j)'
    BY <1>0, <1>2, <2>1 DEF JobInv, Executes, Sealed, Undecided, Live, Commanded, HostFailed,
        CoreTypeOK, Creating, NameLocked, Launching, journalVars, jobVars, FinishJobFailure,
        Decide
  <2> QED BY <1>0, <2>1, <2>2, <2>3, <2>4, <2>5, QuietInv DEF Sealed
<1> QED BY <1>1, <1>2 DEF ReconcileWorker

-----------------------------------------------------------------------------
(* The daemon process and the host.                                        *)

\* The clock, the end of the recovery and the start of the shutdown move no job.
LEMMA IdleInv ==
  ASSUME FactoryInv, TimePasses \/ Serve \/ CloseAdmission \/ UNCHANGED factoryVars
  PROVE  FactoryInv'
<1> USE DEF lockVars, coreVars, vmmVars, boundVars, leaseVars, rowVars, flagVars, hostVars
<1>0. CoreTypeOK /\ \A i \in Jobs : JobInv(i)
  BY DEF FactoryInv
<1>1. /\ [Transaction]_journalVars
      /\ UNCHANGED <<leaseVars, state, claimed, vm_id, cleanup_pending, vm_destroyed,
                     vm_allocation_aborted, worker, lockVars, coreVars, vmmVars>>
  BY DEF TimePasses, Serve, CloseAdmission, factoryVars, Tick, Transaction, journalVars, jobVars
<1>2. \/ UNCHANGED daemon
      \/ daemon' = "draining"
      \/ daemon' = "up" /\ \A i \in Jobs : state[i] \notin Live
  BY DEF TimePasses, Serve, CloseAdmission, factoryVars, In
<1>3. faults' \in Nat /\ crashes' \in Nat
  BY <1>0 DEF TimePasses, Serve, CloseAdmission, factoryVars, CoreTypeOK
<1>4. JournalInv'
  BY <1>1, TransactionInv DEF FactoryInv
<1>5. CoreTypeOK'
  BY <1>0, <1>1, <1>2, <1>3 DEF CoreTypeOK
<1>6. Named'
  BY <1>1 DEF FactoryInv, Named, Owners
<1>7. ASSUME NEW i \in Jobs PROVE Locks(i)' /\ TearsDown(i)'
  BY <1>0, <1>1, <1>2 DEF JobInv, Locks, LockHolders, TearsDown, Bound, CleanupProven
<1>8. ASSUME NEW i \in Jobs PROVE Allocates(i)'
  BY <1>0, <1>1 DEF JobInv, Allocates, Bound, Current
<1>9. ASSUME NEW i \in Jobs PROVE Executes(i)'
  BY <1>0, <1>1, <1>2 DEF JobInv, Executes, Live
<1>10. ASSUME NEW i \in Jobs PROVE Owns(i)'
  BY <1>0, <1>1, <1>2 DEF JobInv, Owns, Bound, CleanupProven, Owners, Current
<1> QED BY <1>4, <1>5, <1>6, <1>7, <1>8, <1>9, <1>10 DEF FactoryInv, JobInv

\* A crash takes the workers, the locks, the owners and the retained proofs.
LEMMA LoseMemoryInv ==
  ASSUME FactoryInv, LoseMemory, faults' \in Nat, crashes' \in Nat
  PROVE  FactoryInv'
<1> USE DEF LoseMemory
<1>0. CoreTypeOK /\ \A i \in Jobs : JobInv(i)
  BY DEF FactoryInv
<1>1. JournalInv'
  BY TransactionInv DEF FactoryInv
<1>2. CoreTypeOK'
  BY <1>0 DEF CoreTypeOK, WorkerPcs, Holders, TeardownPcs
<1> USE DEF journalVars, jobVars, leaseVars, rowVars, flagVars, hostVars
<1>3. Named'
  BY DEF FactoryInv, Named, Owners
<1>4. ASSUME NEW i \in Jobs PROVE Locks(i)' /\ Allocates(i)' /\ TearsDown(i)'
  BY DEF Locks, LockHolders, Allocates, TearsDown, Planned, Creating, NameLocked, Launching
<1>5. ASSUME NEW i \in Jobs PROVE Executes(i)'
  BY <1>0 DEF JobInv, Executes, Creating, NameLocked, Launching
<1>6. ASSUME NEW i \in Jobs PROVE Owns(i)'
  BY <1>0 DEF JobInv, Owns, Bound, CleanupProven, Owners, Current
<1> QED BY <1>1, <1>2, <1>3, <1>4, <1>5, <1>6 DEF FactoryInv, JobInv

\* A reboot leaves no process, so none is older than the running boot.
LEMMA HostRebootInv ==
  ASSUME FactoryInv, HostReboot
  PROVE  FactoryInv'
<1> USE DEF HostReboot, lockVars, coreVars, vmmVars, boundVars
<1>0. JournalInv /\ CoreTypeOK /\ \A i \in Jobs : JobInv(i)
  BY DEF FactoryInv
<1>1. Transaction
  BY <1>0 DEF Transaction, LeaseNext, EnvironmentStep, JournalInv, LeaseInv, LeaseTypeOK
<1>2. JournalInv'
  BY <1>0, <1>1, TransactionInv
<1>3. CoreTypeOK'
  BY <1>0 DEF CoreTypeOK
<1>4. UNCHANGED <<rowVars, flagVars, jobVars>>
  BY DEF Reboot
<1> USE DEF jobVars, rowVars, flagVars
<1>5. Named'
  BY <1>4 DEF FactoryInv, Named, Owners
<1>6. ASSUME NEW i \in Jobs PROVE Locks(i)' /\ Executes(i)' /\ TearsDown(i)'
  BY <1>0, <1>4 DEF JobInv, Locks, LockHolders, Executes, TearsDown, Bound, CleanupProven
<1>7. ASSUME NEW i \in Jobs PROVE Allocates(i)'
  BY <1>0 DEF JobInv, Locks, Allocates, Planned, Creating, NameLocked
<1>8. ASSUME NEW i \in Jobs PROVE Owns(i)'
  BY <1>0, <1>4 DEF JobInv, Owns, Bound, CleanupProven, Owners
<1> QED BY <1>2, <1>3, <1>5, <1>6, <1>7, <1>8 DEF FactoryInv, JobInv

\* The sweep of a starting daemon spares the directory of every live process.
LEMMA RestartInv ==
  ASSUME FactoryInv, Restart
  PROVE  FactoryInv'
<1> USE DEF Restart, lockVars, coreVars, boundVars
<1>0. JournalInv /\ CoreTypeOK /\ (\A i \in Jobs : JobInv(i)) /\ OneJobPerGeneration
  BY DEF FactoryInv, JournalInv, OwnershipInv
<1>1. Transaction
  BY <1>0 DEF Transaction, LeaseNext, EnvironmentStep, JournalInv, LeaseInv, LeaseTypeOK
<1>2. JournalInv'
  BY <1>0, <1>1, TransactionInv
<1>3. CoreTypeOK'
  BY <1>0 DEF CoreTypeOK
<1>4. UNCHANGED <<rowVars, backend_entered, lease_destroyed, confirmed, entered_at, here, boot_of, jobVars>>
  BY DEF OpenStore
<1> USE DEF jobVars, rowVars
<1>5. Named'
  BY <1>4 DEF FactoryInv, Named, Owners
<1>6. ASSUME NEW i \in Jobs PROVE Locks(i)' /\ TearsDown(i)'
  BY <1>0, <1>4 DEF JobInv, Locks, LockHolders, TearsDown, Bound, CleanupProven
<1>7. ASSUME NEW i \in Jobs PROVE Allocates(i)' /\ Executes(i)'
  BY <1>0, <1>4 DEF JobInv, Locks, Allocates, Executes, Planned, Creating, NameLocked
<1>8. ASSUME NEW i \in Jobs PROVE Owns(i)'
  <2>1. vm_id[i] \in proc => i \in disk'
    <3>1. vm_id[i] \in proc => vm_id[i] \in Owners /\ Bound(i)
      BY <1>0, JobJournalAssumption DEF JobInv, Owns, Owners, CoreTypeOK, Bound, JournalInv,
          LeaseInv, LeaseTypeOK
    <3>2. vm_id[i] \in proc => i \in KnownNames
      BY <1>0, <3>1 DEF OneJobPerGeneration, KnownNames
    <3> QED BY <1>0, <3>2 DEF JobInv, Owns
  <2> QED BY <1>0, <1>4, <2>1 DEF JobInv, Owns, Bound, CleanupProven, Owners, Current
<1> QED BY <1>2, <1>3, <1>5, <1>6, <1>7, <1>8 DEF FactoryInv, JobInv

-----------------------------------------------------------------------------
(* The invariant.                                                          *)

\* A new daemon on an empty store satisfies the invariant.
LEMMA FactoryInitInv == FactoryInit => FactoryInv
<1> SUFFICES ASSUME FactoryInit PROVE FactoryInv
  OBVIOUS
<1> USE DEF FactoryInit
<1>1. JournalInv
  BY JournalInitInv
<1>2. CoreTypeOK
  BY DEF CoreTypeOK, WorkerPcs, Holders, TeardownPcs
<1>3. Named
  BY DEF Named, JournalInit, LeaseInit, Owners
<1>4. ASSUME NEW j \in Jobs PROVE JobInv(j)
  BY DEF JobInv, Locks, LockHolders, Allocates, Executes, TearsDown, Owns, Planned, Creating,
      NameLocked, Launching, JournalInit, JobInit, Bound, Commanded
<1> QED BY <1>1, <1>2, <1>3, <1>4 DEF FactoryInv

\* Every step of a job's worker, of a cleanup and of its clients.
LEMMA JobMoveInv ==
  ASSUME FactoryInv, NEW j \in Jobs,
         \/ WorkerStep(j) \/ TeardownStep(j) \/ DeadlineStop(j) \/ StartTickCleanup(j)
         \/ ReconcileWorker(j) \/ ShutdownSeal(j) \/ EnvironmentMove(j)
  PROVE  FactoryInv'
<1>1. CASE ClaimVm(j)
  BY <1>1, ClaimVmInv
<1>2. CASE PlanVm(j)
  BY <1>2, PlanVmInv, AllocationFaultInv DEF PlanVm, lockVars, NoFault, boundVars
<1>3. CASE AbortPlan(j) \/ AbortAdopted(j)
  BY <1>3, FenceInv, AllocationFaultInv DEF AbortPlan, AbortAdopted, NoFault
<1>4. CASE AdoptLease(j)
  BY <1>4, AdoptLeaseInv, AllocationFaultInv DEF AdoptLease, NoFault, vmmVars
<1>5. CASE EnterVmm(j)
  BY <1>5, EnterVmmInv, AllocationFaultInv DEF EnterVmm, NoFault, lockVars
<1>6. CASE Rollback(j)
  BY <1>6, AllocationFaultInv DEF Rollback
<1>7. CASE SpawnVmm(j) \/ PersistReceipt(j) \/ CommitRow(j)
  BY <1>7, SpawnVmmInv, PersistReceiptInv, CommitRowInv
<1>8. CASE TeardownStep(j) \/ StartDestroy(j) \/ Abandon(j)
  BY <1>8, CleanInv, KillVmmInv, AbandonInv, JournalLeaseDeathInv, JournalJobDeathInv, RemovalInv,
      ReleaseIdentityInv, ReleaseCleanedLeaseInv, ConfirmCleanupInv, VisitInv DEF TeardownStep
<1>9. CASE \E s \in Submissions : Submit(j, s)
  BY <1>9, SubmitInv
<1> QED
  BY <1>1, <1>2, <1>3, <1>4, <1>5, <1>6, <1>7, <1>8, <1>9, WorkerMovesInv, WorkerRunsInv,
      EvidenceInv, ReconcileInv DEF WorkerStep, EnvironmentMove

\* Every step of the daemon preserves the invariant.
LEMMA FactoryNextInv ==
  ASSUME FactoryInv, [FactoryNext]_factoryVars
  PROVE  FactoryInv'
<1>0. CoreTypeOK
  BY DEF FactoryInv
<1>1. CASE Crash \/ ExitDrained
  BY <1>0, <1>1, LoseMemoryInv DEF Crash, ExitDrained, boundVars, CoreTypeOK
<1>2. CASE \E j \in Jobs : RecoverSeal(j) \/ RecoverFence(j) \/ RecoverLease(j)
  <2>1. PICK j \in Jobs : RecoverSeal(j) \/ RecoverFence(j) \/ RecoverLease(j)
    BY <1>2
  <2>2. CASE RecoverFence(j)
    <3>1. worker[j] = "none"
      BY <2>2 DEF FactoryInv, JobInv, Locks, RecoverFence
    <3> QED BY <2>2, <3>1, FenceInv DEF RecoverFence, Planned, lockVars
  <2> QED BY <2>1, <2>2, EvidenceInv, VisitInv
<1> QED
  BY <1>1, <1>2, JobMoveInv, IdleInv, HostRebootInv, RestartInv DEF FactoryNext, DaemonStep

\* The invariant holds of every behaviour of the daemon.
THEOREM FactoryInvariant == FactorySpec => []FactoryInv
  BY FactoryInitInv, FactoryNextInv, PTL DEF FactorySpec

-----------------------------------------------------------------------------
(* What follows for every behaviour of the daemon.                         *)

\* Type correctness, and that the holder of every lock is the task that is
\* where the lock is held.
THEOREM FactoryTypes == FactorySpec => []FactoryTypeOK
<1>1. FactoryInv => FactoryTypeOK
  BY DEF FactoryInv, FactoryTypeOK, JobInv, Locks
<1> QED BY <1>1, FactoryInvariant, PTL

\* No crash, timeout, cancellation or failing call leaves a VMM process without
\* a lease or a VM row that names it, or takes its directory away.
THEOREM ProcessesAreOwned == FactorySpec => []ProcessIsOwned
<1>1. FactoryInv => ProcessIsOwned
  <2> SUFFICES ASSUME FactoryInv PROVE ProcessIsOwned
    OBVIOUS
  <2>1. \A v \in proc : \E j \in Jobs : vm_id[j] = v
    BY DEF FactoryInv, Named
  <2>2. \A j \in Jobs : vm_id[j] \in proc => vm_id[j] \in Owners /\ j \in disk
    BY DEF FactoryInv, JobInv, Owns, Owners, JournalInv, LeaseInv, LeaseTypeOK
  <2> QED BY <2>1, <2>2 DEF ProcessIsOwned
<1> QED BY <1>1, FactoryInvariant, PTL

\* A receipt of death, in the journal, on the lease, from a reboot or retained in
\* memory, is true for good.
THEOREM ReceiptsAreSound == FactorySpec => []ReceiptSound
<1>1. FactoryInv => ReceiptSound
  <2> SUFFICES ASSUME FactoryInv PROVE ReceiptSound
    OBVIOUS
  <2>1. \A v \in proc : \E j \in Jobs : vm_id[j] = v
    BY DEF FactoryInv, Named
  <2>2. \A j \in Jobs : vm_id[j] \in proc => vm_id[j] \notin lease_destroyed \cup confirmed \cup retained
                                              /\ ~CleanupProven(j)
    BY DEF FactoryInv, JobInv, Owns
  <2> QED BY <2>1, <2>2 DEF ReceiptSound
<1> QED BY <1>1, FactoryInvariant, PTL

\* Until its death is proven a generation is still found through its lease or
\* its row.
THEOREM GenerationsOwnedUntilProven == FactorySpec => []OwnedUntilProven
<1>1. FactoryInv => OwnedUntilProven
  BY DEF FactoryInv, JobInv, Owns, OwnedUntilProven
<1> QED BY <1>1, FactoryInvariant, PTL

\* What a job released has left no process, owner, row, directory or receipt.
THEOREM ReleasesLeaveNothing == FactorySpec => []ReleasedMeansGone
<1>1. FactoryInv => ReleasedMeansGone
  <2> SUFFICES ASSUME FactoryInv, NEW j \in Jobs, Bound(j), j \notin cleanup_pending
               PROVE  vm_id[j] \notin proc \cup owner \cup Owners \cup receipt /\ j \notin disk
    BY DEF ReleasedMeansGone
  <2>1. CleanupProven(j)
    BY DEF FactoryInv, JournalInv, OwnershipInv, ReleaseHasReceipt
  <2> QED BY <2>1 DEF FactoryInv, JobInv, Owns
<1> QED BY <1>1, FactoryInvariant, PTL

\* A command is started at most once, and only a started command has a result.
THEOREM CommandsExecuteOnce == FactorySpec => []ExecutedOnce
<1>1. FactoryInv => ExecutedOnce
  BY DEF FactoryInv, JobInv, Executes, ExecutedOnce
<1> QED BY <1>1, FactoryInvariant, PTL

\* While the daemon serves, an unfinished job has a registered worker.
THEOREM ExecutionsHaveWorkers == FactorySpec => []ExecutionHasWorker
<1>1. FactoryInv => ExecutionHasWorker
  BY DEF FactoryInv, JobInv, Executes, ExecutionHasWorker, In
<1> QED BY <1>1, FactoryInvariant, PTL

\* Jobs that run side by side are never taken for each other.
THEOREM JobsStayApart == FactorySpec => []JobsKeptApart
<1>1. FactoryInv => CidOwnedOnce /\ OneJobPerGeneration
  BY DEF FactoryInv, JournalInv, LeaseInv, OwnershipInv
<1> QED
  BY <1>1, FactoryInvariant, ProcessesAreOwned, ReleasesLeaveNothing, PTL DEF JobsKeptApart

-----------------------------------------------------------------------------
(* The daemon as a client of the journal.                                  *)

\* The transactions a factory daemon commits: whatever decides a job carries the
\* receipt that is staged.
DaemonTransaction ==
    \/ \E j \in Jobs :
          \/ \E s \in Submissions : AcceptJob(j, s)
          \/ \E v \in Vms : BindJobVmWithLease(j, v) \/ RecordJobLeasedPrebackendAbort(j, v)
          \/ \E o \in Terminal, c \in Collections : Decide(j, o, c, manifest[j])
          \/ ClaimJobVm(j) \/ MarkJobRunning(j) \/ ConfirmJobCleanup(j)
          \/ ConfirmUnallocatedJobCleanup(j) \/ AppendJobEvents(j) \/ DeleteJobEvidence(j)
          \/ \E m \in Receipts : StageJobManifest(j, m)
    \/ \E v \in Vms : RecordJobVmDestruction(v)
    \/ Tick
    \/ LeaseNext /\ UNCHANGED jobVars

\* A daemon's transaction is a transaction of the journal.
LEMMA DaemonTransacts ==
  ASSUME JournalInv, [DaemonTransaction]_journalVars
  PROVE  [Transaction]_journalVars
<1>1. \A j \in Jobs : manifest[j] \in Receipts \cup {NoReceipt}
  BY DEF JournalInv, JobTypeOK
<1> QED BY <1>1 DEF DaemonTransaction, Transaction, JobTransaction

\* Every step of the daemon commits at most one of its transactions.
LEMMA FactoryTransacts ==
  ASSUME FactoryInv, [FactoryNext]_factoryVars
  PROVE  [DaemonTransaction]_journalVars
<1>0. JournalInv /\ LeaseTypeOK /\ JobTypeOK
  BY DEF FactoryInv, JournalInv, LeaseInv
<1>1. ASSUME NEW j \in Jobs, NEW o, FinishJobFailure(j, o) \/ SealAs(j, o)
      PROVE  [DaemonTransaction]_journalVars
  <2>1. "failed" \in Collections
    BY DEF Collections
  <2> QED BY <1>1, <2>1 DEF SealAs, FinishJobFailure, DaemonTransaction, Terminal
<1>2. ASSUME NEW v, UNCHANGED jobVars,
             \/ EnterBackend(v) \/ CommitVm(v) \/ ConfirmReboot(v) \/ RecordLeaseDestruction(v)
             \/ ReleaseLease(v) \/ RetireVm(v)
      PROVE  DaemonTransaction
  <2>1. v \in Vms
    BY <1>0, <1>2, LeaseCalls
  <2> QED BY <1>2, <2>1 DEF DaemonTransaction, LeaseNext, LeaseStep
<1>3. ASSUME NEW j \in Jobs, RecordJobLeasedPrebackendAbort(j, vm_id[j])
      PROVE  DaemonTransaction
  <2>1. vm_id[j] \in Vms
    BY <1>0, <1>3 DEF RecordJobLeasedPrebackendAbort, AbortAllowed, LeaseTypeOK
  <2> QED BY <1>3, <2>1 DEF DaemonTransaction
<1>4. ASSUME NEW j \in Jobs, WorkerStep(j)
      PROVE  [DaemonTransaction]_journalVars
  <2>1. CASE PublishResult(j)
    <3>1. PICK o, c : o \in Terminal /\ c \in Collections /\ Decide(j, o, c, manifest[j])
      BY <2>1 DEF PublishResult, FinishJob
    <3> QED BY <3>1 DEF DaemonTransaction
  <2>2. CASE \/ SealUnslotted(j) \/ RecordFailure(j) \/ Seal(j) \/ LaunchFails(j) \/ CollectionFails(j)
    BY <1>1, <2>2 DEF SealUnslotted, RecordFailure, Seal, LaunchFails, CollectionFails
  <2>3. CASE ClaimVm(j) \/ PlanVm(j) \/ MarkRunning(j) \/ StageResult(j)
    BY <2>3 DEF ClaimVm, PlanVm, MarkRunning, StageResult, DaemonTransaction
  <2>4. CASE AbortPlan(j) \/ AbortAdopted(j) \/ EnterVmm(j) \/ CommitRow(j)
    BY <1>2, <1>3, <2>4 DEF AbortPlan, AbortAdopted, EnterVmm, CommitRow
  <2>5. CASE \/ StageInputs(j) \/ AdoptLease(j) \/ SpawnVmm(j) \/ PersistReceipt(j) \/ AdmitVm(j)
             \/ TakeLaunch(j) \/ Connect(j) \/ StartSession(j) \/ NeverRan(j) \/ Interrupt(j)
             \/ StartWorkerCleanup(j)
    BY <2>5 DEF StageInputs, AdoptLease, SpawnVmm, PersistReceipt, AdmitVm, TakeLaunch, Connect,
        StartSession, NeverRan, Interrupt, DropExecution, StartWorkerCleanup
  <2> QED BY <1>4, <2>1, <2>2, <2>3, <2>4, <2>5 DEF WorkerStep
<1>5. ASSUME NEW j \in Jobs, TeardownStep(j)
      PROVE  [DaemonTransaction]_journalVars
  <2>1. CASE JournalJobDeath(j) \/ CleanFromLease(j)
    <3>1. vm_id[j] \in Vms
      BY <1>0, <2>1, TeardownHolder DEF JournalJobDeath, CleanFromLease, LeaseTypeOK
    <3> QED BY <2>1, <3>1 DEF JournalJobDeath, CleanFromLease, DaemonTransaction
  <2>2. CASE JournalLeaseDeath(j) \/ ReleaseIdentity(j) \/ ReleaseCleanedLease(j)
    BY <1>2, <2>2 DEF JournalLeaseDeath, ReleaseIdentity, ReleaseCleanedLease
  <2>3. CASE CleanUnallocated(j) \/ ConfirmCleanup(j)
    BY <2>3 DEF CleanUnallocated, ConfirmCleanup, DaemonTransaction
  <2>4. CASE CleanAllocation(j) \/ KillVmm(j) \/ KillRefused(j) \/ SweepDirectory(j) \/ RemoveFiles(j)
    BY <2>4 DEF CleanAllocation, KillVmm, KillRefused, SweepDirectory, RemoveFiles
  <2> QED BY <1>5, <2>1, <2>2, <2>3, <2>4 DEF TeardownStep
<1>6. ASSUME NEW j \in Jobs, EnvironmentMove(j)
      PROVE  [DaemonTransaction]_journalVars
  BY <1>1, <1>6 DEF EnvironmentMove, Submit, Cancel, Forget, StartDestroy, CaptureOutput,
      SessionEnds, Rollback, StopUnsealed, DropExecution, Panic, Abandon, DaemonTransaction
<1>7. ASSUME NEW j \in Jobs,
             \/ DeadlineStop(j) \/ StartTickCleanup(j) \/ ReconcileWorker(j) \/ ShutdownSeal(j)
             \/ RecoverSeal(j) \/ RecoverFence(j) \/ RecoverLease(j)
      PROVE  [DaemonTransaction]_journalVars
  BY <1>1, <1>2, <1>3, <1>7 DEF DeadlineStop, StartTickCleanup, ReconcileWorker, ShutdownSeal,
      RecoverSeal, RecoverFence, RecoverLease
<1>8. CASE HostReboot \/ Restart
  BY <1>0, <1>8 DEF HostReboot, Restart, DaemonTransaction, LeaseNext, EnvironmentStep,
      LeaseTypeOK
<1>9. CASE ExitDrained \/ Serve \/ TimePasses \/ Crash \/ CloseAdmission \/ UNCHANGED factoryVars
  BY <1>9 DEF ExitDrained, LoseMemory, Serve, TimePasses, Crash, CloseAdmission, factoryVars,
      DaemonTransaction
<1> QED BY <1>4, <1>5, <1>6, <1>7, <1>8, <1>9 DEF FactoryNext, DaemonStep

\* A staged guest receipt survives whatever decides the job, until its evidence
\* is deleted.
THEOREM StagedReceiptsKept == FactorySpec => StagedReceiptKept
<1>1. ASSUME FactoryInv, [FactoryNext]_factoryVars, NEW j \in Jobs,
             manifest[j] # NoReceipt, state'[j] # "deleted"
      PROVE  manifest'[j] = manifest[j]
  <2>0. JobTypeOK
    BY <1>1 DEF FactoryInv, JournalInv
  <2>1. [DaemonTransaction]_journalVars
    BY <1>1, FactoryTransacts
  <2>2. CASE UNCHANGED manifest
    BY <2>2
  <2>3. ASSUME NEW i \in Jobs, NEW o, NEW c, Decide(i, o, c, manifest[i]) PROVE UNCHANGED manifest
    BY <2>0, <2>3 DEF Decide, JobTypeOK
  <2>4. ASSUME NEW i \in Jobs, DeleteJobEvidence(i) PROVE manifest'[j] = manifest[j]
    BY <1>1, <2>0, <2>4 DEF DeleteJobEvidence, JobTypeOK
  <2>5. ASSUME NEW i \in Jobs, NEW m \in Receipts, StageJobManifest(i, m) PROVE manifest'[j] = manifest[j]
    BY <1>1, <2>0, <2>5 DEF StageJobManifest, JobTypeOK
  <2> QED
    BY <2>1, <2>2, <2>3, <2>4, <2>5 DEF DaemonTransaction, AcceptJob, BindJobVmWithLease,
        RecordJobLeasedPrebackendAbort, ClaimJobVm, MarkJobRunning, ConfirmJobCleanup,
        ConfirmUnallocatedJobCleanup, AppendJobEvents, RecordJobVmDestruction, Tick,
        journalVars, jobVars
<1>2. FactoryInv /\ [FactoryNext]_factoryVars =>
        [\A j \in Jobs : manifest[j] # NoReceipt /\ state'[j] # "deleted"
            => manifest'[j] = manifest[j]]_factoryVars
  BY <1>1
<1> QED BY <1>2, FactoryInvariant, PTL DEF FactorySpec, StagedReceiptKept

\* Decisions of a daemon with its workers, ticks and restarts are final.
THEOREM FactoryDecisionsAreFinal == FactorySpec => DecisionIsFinal
<1>1. FactoryInv /\ [FactoryNext]_factoryVars =>
        [\A j \in In(Terminal) :
           \/ /\ state'[j] = state[j] /\ collection'[j] = collection[j]
              /\ manifest'[j] = manifest[j]
           \/ state'[j] = "deleted" /\ j \notin cleanup_pending]_journalVars
  BY DecisionKept, FactoryTransacts, DaemonTransacts DEF FactoryInv
<1> QED BY <1>1, FactoryInvariant, PTL DEF FactorySpec, DecisionIsFinal

\* The daemon implements JobPromise: what it shows of a job, over every crash,
\* is accepted once, decided once, released once and then forgotten.
THEOREM FactoryKeepsPromise == FactorySpec => KeepsPromise
<1>1. FactoryInit => Promise!PromiseInit
  BY PromiseStarts DEF FactoryInit
<1>2. FactoryInv /\ [FactoryNext]_factoryVars => [Promise!PromiseNext]_(Promise!promiseVars)
  BY PromiseSteps, FactoryTransacts, DaemonTransacts DEF FactoryInv
<1> QED
  BY <1>1, <1>2, FactoryInvariant, PTL DEF FactorySpec, KeepsPromise, Promise!PromiseSpec

\* The daemon with its workers, cleanups, crashes and restarts never lets more
\* hold capacity than the budget allows.
THEOREM FactoryStaysWithinBudget == FactorySpec => []WithinBudget
<1>1. FactoryInit => BudgetInv
  BY BudgetStarts DEF FactoryInit
<1>2. FactoryInv /\ BudgetInv /\ [FactoryNext]_factoryVars => BudgetInv'
  BY BudgetTransaction, FactoryTransacts, DaemonTransacts DEF FactoryInv
<1>3. BudgetInv => WithinBudget
  BY DEF BudgetInv
<1> QED BY <1>1, <1>2, <1>3, FactoryInvariant, PTL DEF FactorySpec
=============================================================================
