----------------------------- MODULE JobJournal -----------------------------
(***************************************************************************)
(* The durable journal of factory jobs (crates/husker-state/src/jobs.rs)   *)
(* over the lease store of HostLeases.                                     *)
(*                                                                         *)
(* A job is accepted once under a client submission key, claims and binds  *)
(* one VM generation, runs, is decided by the first terminal publication,  *)
(* and is released only by a receipt that its allocation is gone.  Every   *)
(* method is one immediate transaction; the actions take the journal       *)
(* through every sequence of calls its guards admit, whoever calls.        *)
(* A VM name is "job-<id>", so Jobs is used as a subset of Names.          *)
(***************************************************************************)
EXTENDS HostLeases, FiniteSetsExt

CONSTANTS
    Jobs,            \* job ids (fresh UUIDs)
    Keys,            \* submission keys
    Specs,           \* canonical specifications (their digests)
    NoVm,            \* execution_jobs.vm_id IS NULL
    Receipts,        \* guest result documents
    NoReceipt,
    Outcomes,        \* bound: terminal states published
    Deadlines,       \* deadlines submitted
    Horizon,         \* bound: the last second of the clock
    Resources,       \* budgeted dimensions: vCPU, memory, disk, boot storage
    Charge(_, _),    \* Charge(spec, r): what a job takes of r
    Budget(_),       \* configured factory budget of r
    MaxJobs,         \* budget.max_jobs (at most MAX_ACTIVE_JOBS)
    MaxReceipts,     \* MAX_SUBMISSION_RECEIPTS
    MaxRetained      \* MAX_RETAINED_JOBS

Live      == {"accepted", "preparing", "running"}
Commanded == {"completed", "command_failed"}
HostFailed == {"infrastructure_failed", "interrupted", "cancelled",
               "timed_out", "unknown"}
Terminal  == Commanded \cup HostFailed
Visible   == Live \cup Terminal           \* what get_on finds
Journaled == Visible \cup {"deleted"}     \* rows of execution_jobs
JobStates == Journaled \cup {"absent", "purged"}
Collections == {"pending", "complete", "truncated", "failed"}

ASSUME JobJournalAssumption ==
    /\ Jobs \subseteq Names
    /\ NoVm \notin Vms
    /\ NoReceipt \notin Receipts
    /\ Outcomes \subseteq Terminal
    /\ Deadlines \subseteq Nat
    /\ Horizon \in Nat
    /\ MaxJobs \in Nat /\ MaxReceipts \in Nat /\ MaxRetained \in Nat

\* Sizes are unsigned, in a specification and in the configuration.
ASSUME BudgetAssumption ==
    \A r \in Resources :
        Budget(r) \in Nat /\ \A spec \in Specs : Charge(spec, r) \in Nat

VARIABLES
    now,              \* Utc::now() in seconds
    state,            \* execution_jobs.state; "absent" and "purged": no row
    submission,       \* submission_key, spec_digest and deadline of a job
    claimed,          \* jobs whose vm_name is set
    vm_id,            \* the bound VM generation
    cleanup_pending,
    vm_destroyed,
    vm_allocation_aborted,
    output_truncated,
    collection,
    manifest          \* the guest receipt the manifest column carries

jobVars == <<now, state, submission, claimed, vm_id,
             cleanup_pending, vm_destroyed, vm_allocation_aborted,
             output_truncated, collection, manifest>>
journalVars == <<leaseVars, jobVars>>

Submissions == [key : Keys, spec : Specs, deadline : Deadlines]
NoSubmission == [key |-> NoName, spec |-> NoName, deadline |-> 0]

JobTypeOK ==
    /\ now \in Nat
    /\ state \in [Jobs -> JobStates]
    /\ submission \in [Jobs -> Submissions \cup {NoSubmission}]
    /\ claimed \subseteq Jobs
    /\ vm_id \in [Jobs -> Vms \cup {NoVm}]
    /\ cleanup_pending \subseteq Jobs
    /\ vm_destroyed \subseteq Jobs
    /\ vm_allocation_aborted \subseteq Jobs
    /\ output_truncated \subseteq Jobs
    /\ collection \in [Jobs -> Collections]
    /\ manifest \in [Jobs -> Receipts \cup {NoReceipt}]
    \* a generation and a pending cleanup need a claimed name, a claim a row
    /\ cleanup_pending \subseteq claimed
    /\ \A j \in Jobs : vm_id[j] # NoVm => j \in claimed
    /\ \A j \in claimed : state[j] # "absent"

TypeOK == LeaseTypeOK /\ JobTypeOK

JobInit ==
    /\ now = 0
    /\ state = [j \in Jobs |-> "absent"]
    /\ submission = [j \in Jobs |-> NoSubmission]
    /\ claimed = {}
    /\ vm_id = [j \in Jobs |-> NoVm]
    /\ cleanup_pending = {} /\ vm_destroyed = {}
    /\ vm_allocation_aborted = {} /\ output_truncated = {}
    /\ collection = [j \in Jobs |-> "pending"]
    /\ manifest = [j \in Jobs |-> NoReceipt]

JournalInit == LeaseInit /\ JobInit

In(S) == {j \in Jobs : state[j] \in S}
Expired(j) == submission[j].deadline <= now
\* What holds factory capacity: not yet decided, or not yet released.
Holding == In(Live) \cup cleanup_pending

-----------------------------------------------------------------------------
(* Submission.                                                             *)

\* Mutant: a tombstone is dropped a second before its deadline.
PurgedTombstonesEarly ==
    {j \in In({"deleted"}) : submission[j].deadline <= now + 1}

\* Tombstones past their deadline are dropped by every committed submission.
PurgedTombstones == {j \in In({"deleted"}) : Expired(j)}

Purged(f) == [j \in Jobs |-> IF j \in PurgedTombstones THEN "purged" ELSE f[j]]

SameKey(key) == {j \in In(Journaled) \ PurgedTombstones : submission[j].key = key}

\* The retention limit only has to follow the deadline; evidence may be deleted
\* at any time after the cleanup, so the limit itself is not kept.
InTime(s) == s.deadline > now

\* What the specifications of a set of jobs take of r together.
Charged(jobs, r) == MapThenSumSet(LAMBDA j : Charge(submission[j].spec, r), jobs)

\* Mutant: terminal jobs whose VM may still exist are not charged.
BudgetAdmitsLiveOnly(s) ==
    /\ Cardinality(In(Live)) < MaxJobs
    /\ \A r \in Resources :
          Charged(In(Live), r) + Charge(s.spec, r) <= Budget(r)

\* FactoryResourceBudget::check over the specifications holding capacity and
\* the new one.  Its checked u64 additions refuse exactly the sums past the
\* budget.  The observed free storage may refuse as well, at any time.
BudgetAdmits(s) ==
    /\ Cardinality(Holding) < MaxJobs
    /\ \A r \in Resources :
          Charged(Holding, r) + Charge(s.spec, r) <= Budget(r)

AcceptJob(j, s) ==
    /\ state[j] = "absent"
    /\ SameKey(s.key) = {}
    /\ InTime(s)
    /\ Cardinality(In(Journaled) \ PurgedTombstones) < MaxReceipts
    /\ Cardinality(In(Visible)) < MaxRetained
    /\ BudgetAdmits(s)
    /\ state' = [Purged(state) EXCEPT ![j] = "accepted"]
    /\ submission' = [submission EXCEPT ![j] = s]
    /\ UNCHANGED <<leaseVars, now, claimed, vm_id, cleanup_pending, vm_destroyed,
                   vm_allocation_aborted, output_truncated, collection, manifest>>

\* An identical submission finds its record; only the purge is committed.
ReplaySubmission(j) ==
    /\ state[j] \in Visible
    /\ PurgedTombstones # {}
    /\ state' = Purged(state)
    /\ UNCHANGED <<leaseVars, now, submission, claimed, vm_id,
                   cleanup_pending, vm_destroyed, vm_allocation_aborted,
                   output_truncated, collection, manifest>>

-----------------------------------------------------------------------------
(* The claim of a VM generation and its receipts.                          *)

\* Mutant: the claim does not record the VM name.
ClaimJobVmUnnamed(j) ==
    /\ state[j] = "accepted" /\ j \notin claimed /\ ~Expired(j)
    /\ state' = [state EXCEPT ![j] = "preparing"]
    /\ cleanup_pending' = cleanup_pending \cup {j}
    /\ UNCHANGED <<leaseVars, now, submission, claimed, vm_id, vm_destroyed,
                   vm_allocation_aborted, output_truncated, collection, manifest>>

ClaimJobVm(j) ==
    /\ state[j] = "accepted" /\ j \notin claimed /\ ~Expired(j)
    /\ state' = [state EXCEPT ![j] = "preparing"]
    /\ claimed' = claimed \cup {j}
    /\ cleanup_pending' = cleanup_pending \cup {j}
    /\ UNCHANGED <<leaseVars, now, submission, vm_id, vm_destroyed,
                   vm_allocation_aborted, output_truncated, collection, manifest>>

\* bind_on for an unbound job: a reservation may bind as long as it has not been
\* released, also after a terminal decision; without one the job has to be fresh.
BindAllowed(j, v) ==
    /\ state[j] \in Visible /\ vm_id[j] = NoVm /\ j \notin vm_allocation_aborted
    /\ \/ j \in claimed /\ j \in cleanup_pending
       \/ j \notin claimed /\ state[j] = "accepted" /\ ~Expired(j)
    /\ \A i \in Jobs : vm_id[i] # v

\* Mutant: the generation is bound without a creation lease.
BindJobVmUnleased(j, v) ==
    /\ BindAllowed(j, v)
    /\ state' = [state EXCEPT ![j] = IF @ = "accepted" THEN "preparing" ELSE @]
    /\ vm_id' = [vm_id EXCEPT ![j] = v]
    /\ claimed' = claimed \cup {j}
    /\ cleanup_pending' = cleanup_pending \cup {j}
    /\ UNCHANGED <<leaseVars, now, submission, vm_destroyed, vm_allocation_aborted,
                   output_truncated, collection, manifest>>

\* The generation and its creation lease become durable together.
BindJobVmWithLease(j, v) ==
    /\ BindAllowed(j, v)
    /\ BeginLease(v, j)
    /\ state' = [state EXCEPT ![j] = IF @ = "accepted" THEN "preparing" ELSE @]
    /\ vm_id' = [vm_id EXCEPT ![j] = v]
    /\ claimed' = claimed \cup {j}
    /\ cleanup_pending' = cleanup_pending \cup {j}
    /\ UNCHANGED <<now, submission, vm_destroyed, vm_allocation_aborted,
                   output_truncated, collection, manifest>>

RunAllowed(j) ==
    /\ state[j] = "preparing" /\ vm_id[j] # NoVm
    /\ j \notin vm_destroyed \cup vm_allocation_aborted
    /\ ~Expired(j)

MarkJobRunning(j) ==
    /\ RunAllowed(j)
    /\ state' = [state EXCEPT ![j] = "running"]
    /\ UNCHANGED <<leaseVars, now, submission, claimed, vm_id,
                   cleanup_pending, vm_destroyed, vm_allocation_aborted,
                   output_truncated, collection, manifest>>

\* Matched by generation alone, in every state; the CHECK on
\* vm_allocation_aborted refuses a generation that was never allocated.
RecordJobVmDestruction(v) ==
    LET owners == {j \in In(Journaled) : vm_id[j] = v}
    IN  /\ owners \cap vm_allocation_aborted = {}
        /\ vm_destroyed' = vm_destroyed \cup owners
        /\ UNCHANGED <<leaseVars, now, state, submission,
                       claimed, vm_id, cleanup_pending, vm_allocation_aborted,
                       output_truncated, collection, manifest>>

\* record_job_leased_prebackend_abort: the exact unentered lease is fenced and
\* the abort journaled in one transaction.
AbortAllowed(j, v) ==
    /\ state[j] \in HostFailed \cup {"preparing"}
    /\ vm_id[j] = v /\ j \in cleanup_pending /\ j \notin vm_destroyed
    /\ v \in leases /\ vm_name[v] = j
    /\ v \notin backend_entered \cup lease_destroyed
    /\ \A w \in vms : vm_name[w] # j

RecordJobLeasedPrebackendAbort(j, v) ==
    /\ AbortAllowed(j, v)
    /\ lease_aborted' = lease_aborted \cup {v}
    /\ vm_allocation_aborted' = vm_allocation_aborted \cup {j}
    /\ UNCHANGED <<cidVars, rowVars, backend_entered, lease_destroyed, epoch,
                   confirmed, entered_at, hostVars>>
    /\ UNCHANGED <<now, state, submission, claimed, vm_id,
                   cleanup_pending, vm_destroyed, output_truncated, collection,
                   manifest>>

CleanupProven(j) == j \in vm_destroyed \cup vm_allocation_aborted

ConfirmJobCleanup(j) ==
    /\ state[j] \in Terminal /\ vm_id[j] # NoVm
    /\ CleanupProven(j)
    /\ cleanup_pending' = cleanup_pending \ {j}
    /\ UNCHANGED <<leaseVars, now, state, submission, claimed, vm_id,
                   vm_destroyed, vm_allocation_aborted, output_truncated,
                   collection, manifest>>

\* Mutant: a generation bound since the record was read is overlooked.
ConfirmUnallocatedBound(j) ==
    /\ state[j] \in Terminal /\ j \in claimed
    /\ cleanup_pending' = cleanup_pending \ {j}
    /\ UNCHANGED <<leaseVars, now, state, submission, claimed, vm_id,
                   vm_destroyed, vm_allocation_aborted, output_truncated,
                   collection, manifest>>

\* The reservation never became an allocation.
ConfirmUnallocatedJobCleanup(j) ==
    /\ state[j] \in Terminal /\ vm_id[j] = NoVm /\ j \in claimed
    /\ cleanup_pending' = cleanup_pending \ {j}
    /\ UNCHANGED <<leaseVars, now, state, submission, claimed, vm_id,
                   vm_destroyed, vm_allocation_aborted, output_truncated,
                   collection, manifest>>

-----------------------------------------------------------------------------
(* Evidence and the terminal decision.                                     *)

\* A batch of output that was cut short, in the guest or by the output quota;
\* a batch that fits leaves the journal as it is here.
AppendJobEvents(j) ==
    /\ state[j] \in Visible /\ collection[j] = "pending"
    /\ output_truncated' = output_truncated \cup {j}
    /\ UNCHANGED <<leaseVars, now, state, submission, claimed, vm_id,
                   cleanup_pending, vm_destroyed, vm_allocation_aborted,
                   collection, manifest>>

StageJobManifest(j, m) ==
    /\ state[j] = "running" /\ collection[j] = "pending"
    /\ manifest[j] \in {NoReceipt, m}
    /\ manifest' = [manifest EXCEPT ![j] = m]
    /\ UNCHANGED <<leaseVars, now, state, submission, claimed, vm_id,
                   cleanup_pending, vm_destroyed, vm_allocation_aborted,
                   output_truncated, collection>>

\* Mutant: a later publication replaces the first decision.
UndecidedOverwrite(j) == state[j] \in Visible

\* An identical republication is accepted and changes nothing.
Undecided(j) == state[j] \in Live

\* Mutant: a command result needs no running job, and truncation is ignored.
DecideUnchecked(j, outcome, coll, m) ==
    /\ Undecided(j)
    /\ state' = [state EXCEPT ![j] = outcome]
    /\ collection' = [collection EXCEPT ![j] = coll]
    /\ manifest' = [manifest EXCEPT ![j] = m]
    /\ UNCHANGED <<leaseVars, now, submission, claimed, vm_id,
                   cleanup_pending, vm_destroyed, vm_allocation_aborted,
                   output_truncated>>

\* finish_job_inner.  The CHECK on vm_allocation_aborted also keeps a command
\* result away from a job whose allocation was aborted.
Decide(j, outcome, coll, m) ==
    /\ Undecided(j)
    /\ outcome \in Commanded =>
          state[j] = "running" /\ j \notin vm_allocation_aborted
    /\ ~(j \in output_truncated /\ coll = "complete")
    /\ state' = [state EXCEPT ![j] = outcome]
    /\ collection' = [collection EXCEPT ![j] = coll]
    /\ manifest' = [manifest EXCEPT ![j] = m]
    /\ UNCHANGED <<leaseVars, now, submission, claimed, vm_id,
                   cleanup_pending, vm_destroyed, vm_allocation_aborted,
                   output_truncated>>

\* The final guest receipt as the caller read it.
FinishJob(j, outcome, coll, m) ==
    /\ outcome \in Terminal /\ coll \in Collections \ {"pending"}
    /\ Decide(j, outcome, coll, m)

\* Mutant: the envelope replaces the staged receipt.
FinishJobFailureDrop(j, outcome) ==
    /\ outcome \in HostFailed
    /\ Decide(j, outcome, "failed", NoReceipt)

\* A host failure carries whatever guest receipt is staged when it is decided.
FinishJobFailure(j, outcome) ==
    /\ outcome \in HostFailed
    /\ Decide(j, outcome, "failed", manifest[j])

\* Mutant: evidence and ownership are deleted under a pending cleanup.
DeleteAllowedPending(j) == state[j] \in Terminal

DeleteAllowed(j) == state[j] \in Terminal /\ j \notin cleanup_pending

\* Explicit deletion, or expire_job_evidence once retention_until has passed.
DeleteJobEvidence(j) ==
    /\ DeleteAllowed(j)
    /\ state' = [state EXCEPT ![j] = "deleted"]
    /\ manifest' = [manifest EXCEPT ![j] = NoReceipt]
    /\ UNCHANGED <<leaseVars, now, submission, claimed, vm_id,
                   cleanup_pending, vm_destroyed, vm_allocation_aborted,
                   output_truncated, collection>>

Tick ==
    /\ now < Horizon
    /\ now' = now + 1
    /\ UNCHANGED <<leaseVars, state, submission, claimed, vm_id,
                   cleanup_pending, vm_destroyed, vm_allocation_aborted,
                   output_truncated, collection, manifest>>

-----------------------------------------------------------------------------

JobStep(j) ==
    \/ \E s \in Submissions : AcceptJob(j, s)
    \/ ReplaySubmission(j)
    \/ ClaimJobVm(j)
    \/ \E v \in Vms : BindJobVmWithLease(j, v)
    \/ MarkJobRunning(j)
    \/ \E v \in Vms : RecordJobLeasedPrebackendAbort(j, v)
    \/ ConfirmJobCleanup(j)
    \/ ConfirmUnallocatedJobCleanup(j)
    \/ AppendJobEvents(j)
    \/ \E m \in Receipts : StageJobManifest(j, m)
    \/ \E o \in Outcomes, c \in Collections, m \in Receipts : FinishJob(j, o, c, m)
    \/ \E o \in Outcomes : FinishJobFailure(j, o)
    \/ DeleteJobEvidence(j)

StoreNext ==
    \/ \E j \in Jobs : JobStep(j)
    \/ \E v \in Vms : RecordJobVmDestruction(v)
    \/ Tick
    \/ LeaseNext /\ UNCHANGED jobVars

JournalSpec == JournalInit /\ [][StoreNext]_journalVars

-----------------------------------------------------------------------------
(* Properties.                                                             *)

Bound(j) == vm_id[j] # NoVm

\* One submission (key, specification, deadline) is accepted at most once, also
\* after its tombstone has been purged and its key is free again: what
\* accept_job_inner calls "dropping it cannot rerun the work".
NoRerun ==
    \A i, j \in Jobs :
        /\ state[i] # "absent" /\ state[j] # "absent"
        /\ submission[i] = submission[j]
        => i = j

\* A key never has two rows (submission_key is UNIQUE), so a replay finds the
\* one record it asks for.
KeyHasOneRow ==
    \A i, j \in In(Journaled) : submission[i].key = submission[j].key => i = j

\* Everything not yet released stays within the budget, terminal jobs whose VM
\* may still exist included.
WithinBudget ==
    /\ Cardinality(Holding) <= MaxJobs
    /\ \A r \in Resources : Charged(Holding, r) <= Budget(r)

\* A job that bound a generation gives up its ownership only with a receipt
\* that the generation is gone or never was, whatever order claims, late binds,
\* decisions, confirmations and deletions come in.
ReleaseHasReceipt ==
    \A j \in Jobs : Bound(j) /\ j \notin cleanup_pending => CleanupProven(j)

\* An allocation abort is final: the generation it fences never enters a
\* backend, never becomes a VM row and is never reported destroyed, so exactly
\* one of the two receipts exists.
AbortIsFinal ==
    \A j \in vm_allocation_aborted :
        /\ Bound(j) /\ j \notin vm_destroyed
        /\ vm_id[j] \notin backend_entered \cup lease_destroyed \cup vms
        /\ vm_id[j] \in leases => vm_id[j] \in lease_aborted

\* A generation belongs to one job, and the job keeps the row its generation
\* holds: a bound lease or VM row carries the job's name.
OneJobPerGeneration ==
    /\ \A i, j \in Jobs : Bound(i) /\ vm_id[i] = vm_id[j] => i = j
    /\ \A j \in Jobs : Bound(j) =>
          /\ vm_id[j] \in used
          /\ vm_id[j] \in Owners => vm_name[vm_id[j]] = j

\* A command result is only published for a job that ran in a bound VM, and
\* truncated output is never reported complete.
ResultIsHonest ==
    \A j \in Jobs :
        /\ state[j] \in Commanded => Bound(j) /\ j \notin vm_allocation_aborted
        /\ j \in output_truncated => collection[j] # "complete"

\* The first terminal decision wins: outcome, collection status and manifest
\* of a decided job never change again, except that released evidence may be
\* deleted.
DecisionIsFinal ==
    [][\A j \in In(Terminal) :
          \/ /\ state'[j] = state[j] /\ collection'[j] = collection[j]
             /\ manifest'[j] = manifest[j]
          \/ state'[j] = "deleted" /\ j \notin cleanup_pending]_journalVars

\* The journal implements the promise of JobPromise: a tombstone and a purged
\* row are forgotten jobs, and cleanup_pending is what a job may still own.
Promised ==
    [j \in Jobs |-> CASE state[j] = "absent" -> "none"
                     [] state[j] \in Live -> "accepted"
                     [] state[j] \in {"deleted", "purged"} -> "forgotten"
                     [] OTHER -> state[j]]

Promise == INSTANCE JobPromise
    WITH Results <- Commanded, Failures <- HostFailed,
         promise <- Promised, holding <- cleanup_pending

KeepsPromise == Promise!PromiseSpec
=============================================================================
