-------------------------- MODULE JobJournalProofs --------------------------
(***************************************************************************)
(* Proofs about the lease store, for any number of generations, machines,  *)
(* CIDs and reboots, and about the job journal that is built on it, for    *)
(* any sets of jobs, keys, VMs and machines, any clock and any limits.     *)
(***************************************************************************)
EXTENDS JobJournal, FiniteSetTheorems, WellFoundedInduction, TLAPS

\* What boot evidence says of the machine: no recorded boot lies in the future,
\* and evidence written after an entry names a boot of its machine that is not
\* older than the entry.  RebootReceiptSound is not inductive without it.
BootEvidence ==
    /\ \A v \in Vms : epoch[v] # NoIdentity => epoch[v].boot <= boot_of[epoch[v].host]
    /\ \A v \in backend_entered :
          /\ entered_at[v] # NoIdentity
          /\ entered_at[v].boot <= boot_of[entered_at[v].host]
          /\ epoch[v] # NoIdentity /\ epoch[v].host = entered_at[v].host
               => entered_at[v].boot <= epoch[v].boot
    /\ \A v \in confirmed : v \in backend_entered /\ epoch[v] # NoIdentity

LeaseInv == LeaseTypeOK /\ CidOwnedOnce /\ BootEvidence /\ RebootReceiptSound

-----------------------------------------------------------------------------

\* The empty store satisfies the invariant.
LEMMA LeaseInitInv == LeaseInit => LeaseInv
  BY HostLeasesAssumption
  DEF LeaseInit, LeaseInv, LeaseTypeOK, CidOwnedOnce, BootEvidence, RebootReceiptSound,
      Owners, FirstCid

\* Planning a lease (insert_host_resource_lease) takes a CID nobody owns.
LEMMA BeginLeaseInv ==
  ASSUME NEW v \in Vms, NEW name \in Names, LeaseInv, BeginLease(v, name)
  PROVE  LeaseInv'
<1>1. PICK r \in Readings : InsertLease(v, name, r)
  BY DEF BeginLease
<1>2. PICK c \in freed_cids \cup {next_cid} : PickCid(c) /\ cid' = [cid EXCEPT ![v] = c]
  BY <1>1 DEF InsertLease
<1>3. r \in Identity \cup {NoIdentity} /\ (r # NoIdentity => r.boot <= boot_of[r.host])
  BY DEF Readings, Current, Identity, LeaseInv, LeaseTypeOK
<1>fresh. /\ c \in Nat /\ FirstCid <= c /\ c < next_cid'
      /\ c \notin freed_cids' /\ freed_cids' \subseteq freed_cids
      /\ next_cid' \in Nat /\ next_cid <= next_cid'
      /\ \A w \in Owners : cid[w] # c
  <2>1. CASE LowestFreed(c) /\ freed_cids' = freed_cids \ {c} /\ UNCHANGED next_cid
    BY <2>1 DEF LowestFreed, LeaseInv, LeaseTypeOK, CidOwnedOnce
  <2>2. CASE freed_cids = {} /\ c = next_cid /\ next_cid' = next_cid + 1 /\ UNCHANGED freed_cids
    <3>1. \A w \in Owners : cid[w] \in Nat /\ cid[w] < next_cid
      BY DEF Owners, LeaseInv, LeaseTypeOK, CidOwnedOnce
    <3> QED BY <2>2, <3>1 DEF LeaseInv, LeaseTypeOK, CidOwnedOnce, FirstCid
  <2> QED BY <1>2, <2>1, <2>2 DEF PickCid
<1>4. LeaseTypeOK'
  BY <1>1, <1>2, <1>fresh, <1>3 DEF InsertLease, LeaseInv, LeaseTypeOK, hostVars
<1>5. CidOwnedOnce'
  <2>1. Owners' = Owners \cup {v} /\ v \notin Owners /\ v \notin vms
    BY <1>1 DEF InsertLease, Owners, LeaseInv, LeaseTypeOK
  <2>2. cid'[v] = c /\ \A w \in Owners : cid'[w] = cid[w]
    BY <1>2, <2>1 DEF LeaseInv, LeaseTypeOK, Owners
  <2>3. (leases \cap vms)' = {}
    BY <1>1, <2>1 DEF InsertLease, LeaseInv, CidOwnedOnce
  <2>4. \A w \in Owners : cid[w] \in Nat
    BY DEF Owners, LeaseInv, LeaseTypeOK
  <2>5. \A w \in Owners' : FirstCid <= cid'[w] /\ cid'[w] < next_cid' /\ cid'[w] \notin freed_cids'
    BY <2>1, <2>2, <2>4, <1>fresh DEF LeaseInv, LeaseTypeOK, CidOwnedOnce, FirstCid
  <2>6. \A d \in freed_cids' : FirstCid <= d /\ d < next_cid'
    BY <1>fresh DEF LeaseInv, LeaseTypeOK, CidOwnedOnce, FirstCid
  <2>7. \A u, w \in Owners' : cid'[u] = cid'[w] => u = w
    BY <2>1, <2>2, <1>fresh DEF LeaseInv, CidOwnedOnce
  <2>8. FirstCid <= next_cid'
    BY <1>fresh DEF LeaseInv, LeaseTypeOK, CidOwnedOnce, FirstCid
  <2> QED BY <2>3, <2>5, <2>6, <2>7, <2>8 DEF CidOwnedOnce
<1>6. BootEvidence' /\ RebootReceiptSound'
  BY <1>1, <1>3 DEF InsertLease, LeaseInv, LeaseTypeOK, BootEvidence, RebootReceiptSound, hostVars
<1> QED BY <1>4, <1>5, <1>6 DEF LeaseInv

\* Entering a backend records or revokes the baseline of its boot.
LEMMA EnterBackendInv ==
  ASSUME NEW v \in Vms, LeaseInv, EnterBackend(v)
  PROVE  LeaseInv'
<1>1. PICK r \in Readings : PrepareEntry(v, r)
  BY DEF EnterBackend
<1>2. r \in {Current, NoIdentity} /\ Current \in Identity
  BY DEF Readings, Current, Identity, LeaseInv, LeaseTypeOK
<1>3. LeaseTypeOK' /\ CidOwnedOnce'
  BY <1>1, <1>2 DEF EnterBackend, EntryEligible, PrepareEntry, LeaseInv, LeaseTypeOK,
      CidOwnedOnce, Owners, cidVars, rowVars, hostVars
<1>4. BootEvidence' /\ RebootReceiptSound'
  BY <1>1, <1>2, HostLeasesAssumption DEF EnterBackend, EntryEligible, PrepareEntry, LeaseInv,
      LeaseTypeOK, BootEvidence, RebootReceiptSound, Current, Identity, hostVars
<1> QED BY <1>3, <1>4 DEF LeaseInv

\* A reboot is confirmed only for a machine whose boot number has moved past
\* that of the entry.
LEMMA ConfirmRebootInv ==
  ASSUME NEW v \in Vms, LeaseInv, ConfirmReboot(v)
  PROVE  LeaseInv'
<1>1. PICK r \in Readings : RebootProven(v, r)
  BY DEF ConfirmReboot
<1>2. r = Current /\ Current \in Identity
  BY <1>1 DEF Readings, RebootProven, Current, Identity, LeaseInv, LeaseTypeOK
<1>3. LeaseTypeOK' /\ CidOwnedOnce'
  BY <1>1 DEF ConfirmReboot, RebootProven, LeaseInv, LeaseTypeOK, CidOwnedOnce, Owners,
      cidVars, rowVars, hostVars
<1>4. BootEvidence'
  BY <1>1 DEF ConfirmReboot, RebootProven, LeaseInv, LeaseTypeOK, BootEvidence, hostVars
<1>5. RebootReceiptSound'
  BY <1>1, <1>2 DEF ConfirmReboot, RebootProven, LeaseInv, LeaseTypeOK, BootEvidence,
      RebootReceiptSound, Current, Identity, hostVars
<1> QED BY <1>3, <1>4, <1>5 DEF LeaseInv

\* A generation that gives its CID back leaves every other owner as it was.
LEMMA FreeCidInv ==
  ASSUME NEW v \in Owners, LeaseTypeOK, CidOwnedOnce, FreeCid(v), UNCHANGED next_cid,
         Owners' = Owners \ {v}, (leases \cap vms)' = {}
  PROVE  /\ freed_cids' \subseteq Nat /\ cid' \in [Vms -> Nat]
         /\ vm_name' \in [Vms -> Names \cup {NoName}]
         /\ CidOwnedOnce'
<1>1. v \in Vms /\ cid[v] \in Nat
  BY DEF Owners, LeaseTypeOK
<1>2. \A w \in Owners' : w \in Owners /\ w # v /\ w \in Vms /\ cid'[w] = cid[w] /\ cid[w] \in Nat
  BY <1>1 DEF FreeCid, Owners, LeaseTypeOK
<1>3. freed_cids' \subseteq Nat /\ cid' \in [Vms -> Nat] /\ vm_name' \in [Vms -> Names \cup {NoName}]
  BY <1>1 DEF FreeCid, LeaseTypeOK
<1>4. \A w \in Owners' : FirstCid <= cid'[w] /\ cid'[w] < next_cid' /\ cid'[w] \notin freed_cids'
  BY <1>1, <1>2 DEF FreeCid, CidOwnedOnce
<1>5. \A u, w \in Owners' : cid'[u] = cid'[w] => u = w
  BY <1>2 DEF CidOwnedOnce
<1>6. \A c \in freed_cids' : FirstCid <= c /\ c < next_cid'
  BY <1>1 DEF FreeCid, CidOwnedOnce
<1> QED BY <1>3, <1>4, <1>5, <1>6 DEF CidOwnedOnce

\* The end of a lease moves its CID to a VM row or to the free list.
LEMMA EndLeaseInv ==
  ASSUME NEW v \in Vms, LeaseInv, CommitVm(v) \/ ReleaseLease(v) \/ RetireVm(v)
  PROVE  LeaseInv'
<1>1. CASE CommitVm(v)
  <2>1. LeaseTypeOK' /\ CidOwnedOnce'
    BY <1>1 DEF CommitVm, DeleteLeaseRow, LeaseInv, LeaseTypeOK, CidOwnedOnce, Owners,
        cidVars, hostVars
  <2>2. BootEvidence' /\ RebootReceiptSound'
    BY <1>1 DEF CommitVm, DeleteLeaseRow, LeaseInv, LeaseTypeOK, BootEvidence,
        RebootReceiptSound, hostVars
  <2> QED BY <2>1, <2>2 DEF LeaseInv
<1>2. CASE ReleaseLease(v)
  <2>owner. v \in Owners /\ Owners' = Owners \ {v} /\ (leases \cap vms)' = {}
    BY <1>2 DEF ReleaseLease, ReleaseAllowed, DeleteLeaseRow, LeaseInv, CidOwnedOnce, Owners
  <2>freed. /\ freed_cids' \subseteq Nat /\ cid' \in [Vms -> Nat]
        /\ vm_name' \in [Vms -> Names \cup {NoName}] /\ CidOwnedOnce'
    BY <1>2, <2>owner, FreeCidInv DEF ReleaseLease, LeaseInv
  <2>1. LeaseTypeOK' /\ CidOwnedOnce'
    BY <1>2, <2>freed DEF ReleaseLease, DeleteLeaseRow, LeaseInv, LeaseTypeOK, hostVars
  <2>2. BootEvidence' /\ RebootReceiptSound'
    BY <1>2 DEF ReleaseLease, DeleteLeaseRow, LeaseInv, LeaseTypeOK, BootEvidence,
        RebootReceiptSound, hostVars
  <2> QED BY <2>1, <2>2 DEF LeaseInv
<1>3. CASE RetireVm(v)
  <2>owner. v \in Owners /\ Owners' = Owners \ {v} /\ (leases \cap vms)' = {}
    BY <1>3 DEF RetireVm, LeaseInv, CidOwnedOnce, Owners
  <2>freed. /\ freed_cids' \subseteq Nat /\ cid' \in [Vms -> Nat]
        /\ vm_name' \in [Vms -> Names \cup {NoName}] /\ CidOwnedOnce'
    BY <1>3, <2>owner, FreeCidInv DEF RetireVm, LeaseInv
  <2>1. LeaseTypeOK' /\ CidOwnedOnce'
    BY <1>3, <2>freed DEF RetireVm, LeaseInv, LeaseTypeOK, flagVars, hostVars
  <2>2. BootEvidence' /\ RebootReceiptSound'
    BY <1>3 DEF RetireVm, LeaseInv, LeaseTypeOK, BootEvidence, RebootReceiptSound,
        flagVars, hostVars
  <2> QED BY <2>1, <2>2 DEF LeaseInv
<1> QED BY <1>1, <1>2, <1>3

\* Start-up and the machines: a base only removes free CIDs, evidence written
\* by StateStore::open is of the present boot, and a reboot only moves forward.
LEMMA EnvironmentInv ==
  ASSUME LeaseInv, EnvironmentStep
  PROVE  LeaseInv'
<1>1. CASE \E b \in Bases : EnsureCidBase(b)
  <2>1. PICK b \in Bases : EnsureCidBase(b)
    BY <1>1
  <2>2. b \in Nat
    BY HostLeasesAssumption
  <2>floor. /\ next_cid' \in Nat /\ next_cid <= next_cid' /\ cid_base' \in Nat
        /\ freed_cids' \subseteq freed_cids
    BY <2>1, <2>2 DEF EnsureCidBase, LeaseInv, LeaseTypeOK, FirstCid
  <2>types. LeaseTypeOK'
    BY <2>1, <2>floor DEF EnsureCidBase, LeaseInv, LeaseTypeOK, rowVars, flagVars, hostVars
  <2>same. Owners' = Owners /\ cid' = cid /\ (leases \cap vms)' = leases \cap vms
        /\ \A w \in Owners : cid[w] \in Nat
    BY <2>1 DEF EnsureCidBase, Owners, rowVars, LeaseInv, LeaseTypeOK
  <2>cids. CidOwnedOnce'
    BY <2>floor, <2>same DEF CidOwnedOnce, LeaseInv, LeaseTypeOK, FirstCid
  <2>3. LeaseTypeOK' /\ CidOwnedOnce'
    BY <2>types, <2>cids
  <2>4. BootEvidence' /\ RebootReceiptSound'
    BY <2>1 DEF EnsureCidBase, LeaseInv, LeaseTypeOK, BootEvidence, RebootReceiptSound,
        rowVars, flagVars, hostVars
  <2> QED BY <2>3, <2>4 DEF LeaseInv
<1>2. CASE \E h \in Hosts : OpenStore(h)
  <2>1. PICK h \in Hosts : OpenStore(h)
    BY <1>2
  <2> DEFINE Opened == [host |-> h, boot |-> boot_of[h]]
  <2>2. Opened \in Identity /\ Opened.host = h /\ Opened.boot = boot_of[h]
    BY DEF Identity, LeaseInv, LeaseTypeOK
  <2>3. PICK r \in {Opened, NoIdentity} :
           epoch' = [v \in Vms |-> IF v \in leases /\ epoch[v] = NoIdentity THEN r ELSE epoch[v]]
    BY <2>1 DEF OpenStore
  <2> HIDE DEF Opened
  <2>4. LeaseTypeOK' /\ CidOwnedOnce'
    BY <2>1, <2>2, <2>3 DEF OpenStore, LeaseInv, LeaseTypeOK, CidOwnedOnce, Owners,
        cidVars, rowVars
  <2>5. BootEvidence'
    BY <2>1, <2>2, <2>3 DEF OpenStore, LeaseInv, LeaseTypeOK, BootEvidence, Identity
  <2>6. RebootReceiptSound'
    BY <2>1, <2>3 DEF OpenStore, LeaseInv, LeaseTypeOK, BootEvidence, RebootReceiptSound
  <2> QED BY <2>4, <2>5, <2>6 DEF LeaseInv
<1>3. CASE \E h \in Hosts : Reboot(h)
  <2>1. PICK h \in Hosts : Reboot(h)
    BY <1>3
  <2>2. boot_of' \in [Hosts -> Nat] /\ \A k \in Hosts : boot_of[k] <= boot_of'[k]
    BY <2>1 DEF Reboot, LeaseInv, LeaseTypeOK
  <2>3. LeaseTypeOK' /\ CidOwnedOnce'
    BY <2>1, <2>2 DEF Reboot, LeaseInv, LeaseTypeOK, CidOwnedOnce, Owners,
        cidVars, rowVars, flagVars
  <2>4. BootEvidence'
    BY <2>1, <2>2 DEF Reboot, LeaseInv, LeaseTypeOK, BootEvidence, Identity, flagVars
  <2>5. RebootReceiptSound'
    BY <2>1, <2>2 DEF Reboot, LeaseInv, LeaseTypeOK, BootEvidence, RebootReceiptSound,
        Identity, flagVars
  <2> QED BY <2>3, <2>4, <2>5 DEF LeaseInv
<1> QED BY <1>1, <1>2, <1>3 DEF EnvironmentStep

\* Every step of the store preserves the invariant.
LEMMA LeaseNextInv ==
  ASSUME LeaseInv, [LeaseNext]_leaseVars
  PROVE  LeaseInv'
<1>1. CASE EnvironmentStep
  BY <1>1, EnvironmentInv
<1>2. CASE \E v \in Vms, n \in Names : BeginLease(v, n)
  BY <1>2, BeginLeaseInv
<1>3. CASE \E v \in Vms : LeaseStep(v)
  <2>1. PICK v \in Vms : LeaseStep(v)
    BY <1>3
  <2>2. CASE RecordLeaseDestruction(v)
    <3>1. LeaseTypeOK' /\ CidOwnedOnce'
      BY <2>2 DEF RecordLeaseDestruction, LeaseInv, LeaseTypeOK, CidOwnedOnce, Owners,
          cidVars, rowVars, hostVars
    <3>2. BootEvidence' /\ RebootReceiptSound'
      BY <2>2 DEF RecordLeaseDestruction, LeaseInv, BootEvidence, RebootReceiptSound, hostVars
    <3> QED BY <3>1, <3>2 DEF LeaseInv
  <2> QED
    BY <2>1, <2>2, EnterBackendInv, ConfirmRebootInv, EndLeaseInv DEF LeaseStep
<1>4. CASE UNCHANGED leaseVars
  BY <1>4 DEF leaseVars, cidVars, rowVars, flagVars, hostVars, LeaseInv, LeaseTypeOK,
      CidOwnedOnce, Owners, BootEvidence, RebootReceiptSound
<1> QED BY <1>1, <1>2, <1>3, <1>4 DEF LeaseNext

\* The invariant holds of every behaviour of the lease store.
THEOREM LeaseInvariant == LeaseSpec => []LeaseInv
  BY LeaseInitInv, LeaseNextInv, PTL DEF LeaseSpec

\* Type correctness of the lease store.
THEOREM LeaseTypes == LeaseSpec => []LeaseTypeOK
<1>1. LeaseInv => LeaseTypeOK
  BY DEF LeaseInv
<1> QED BY <1>1, LeaseInvariant, PTL

\* A CID has one owner, whatever was planned, committed, released, retired and
\* recycled before (allocate_cid, ensure_cid_base, retire_vm).
THEOREM CidsOwnedOnce == LeaseSpec => []CidOwnedOnce
<1>1. LeaseInv => CidOwnedOnce
  BY DEF LeaseInv
<1> QED BY <1>1, LeaseInvariant, PTL

\* A reboot receipt of the machine that entered the backend is sound: that
\* machine has rebooted since (confirm_lease_reboot_on).
THEOREM RebootReceiptsSound == LeaseSpec => []RebootReceiptSound
<1>1. LeaseInv => RebootReceiptSound
  BY DEF LeaseInv
<1> QED BY <1>1, LeaseInvariant, PTL

-----------------------------------------------------------------------------
(* The job journal. *)

\* A tombstone is dropped only after its deadline, so the submission it stood
\* for is no longer in time.
PurgedPast == \A j \in Jobs : state[j] = "purged" => Expired(j)

\* An undecided job with a claim still holds it, a preparing one has a claim and
\* a running one is bound; a pending cleanup keeps its record, and only a bound
\* job is ever destroyed.
LiveHolds ==
    \A j \in Jobs :
        /\ state[j] \in Live /\ j \in claimed => j \in cleanup_pending
        /\ state[j] = "preparing" => j \in claimed
        /\ state[j] = "running" => Bound(j)
        /\ j \in cleanup_pending => state[j] \in Visible
        /\ j \in vm_destroyed => Bound(j)

SubmissionInv == KeyHasOneRow /\ NoRerun /\ PurgedPast
OwnershipInv == ReleaseHasReceipt /\ AbortIsFinal /\ OneJobPerGeneration /\ ResultIsHonest
                  /\ LiveHolds

JournalInv == LeaseInv /\ JobTypeOK /\ SubmissionInv /\ OwnershipInv

\* Any transaction of the journal, with every outcome: StoreNext without the
\* bound on the outcomes that are published.
JobTransaction(j) ==
    \/ \E s \in Submissions : AcceptJob(j, s)
    \/ \E v \in Vms : BindJobVmWithLease(j, v) \/ RecordJobLeasedPrebackendAbort(j, v)
    \/ \E o \in Terminal, c \in Collections, m \in Receipts \cup {NoReceipt} : Decide(j, o, c, m)
    \/ ReplaySubmission(j) \/ ClaimJobVm(j) \/ MarkJobRunning(j)
    \/ ConfirmJobCleanup(j) \/ ConfirmUnallocatedJobCleanup(j)
    \/ AppendJobEvents(j) \/ DeleteJobEvidence(j)
    \/ \E m \in Receipts : StageJobManifest(j, m)

Transaction ==
    \/ \E j \in Jobs : JobTransaction(j)
    \/ \E v \in Vms : RecordJobVmDestruction(v)
    \/ Tick
    \/ LeaseNext /\ UNCHANGED jobVars

-----------------------------------------------------------------------------

\* The empty journal satisfies the invariant.
LEMMA JournalInitInv == JournalInit => JournalInv
<1> SUFFICES ASSUME JournalInit PROVE JournalInv
  OBVIOUS
<1>1. LeaseInv
  BY LeaseInitInv DEF JournalInit
<1>2. JobTypeOK
  BY DEF JournalInit, JobInit, JobTypeOK, JobStates, Journaled, Visible, Live, Collections
<1>3. SubmissionInv
  BY DEF JournalInit, JobInit, SubmissionInv, KeyHasOneRow, NoRerun, PurgedPast, In, Journaled,
      Visible, Live, Terminal, Commanded, HostFailed
<1>4. OwnershipInv
  BY DEF JournalInit, JobInit, OwnershipInv, ReleaseHasReceipt, AbortIsFinal,
      OneJobPerGeneration, ResultIsHonest, LiveHolds, Bound, Live, Commanded
<1> QED BY <1>1, <1>2, <1>3, <1>4 DEF JournalInv

\* A step that accepts nothing and drops no live tombstone keeps submissions
\* apart.
LEMMA SubmissionsKept ==
  ASSUME JobTypeOK, SubmissionInv, UNCHANGED submission,
         now' \in Nat, now <= now',
         \A j \in Jobs :
            /\ state'[j] \in Journaled => state[j] \in Journaled
            /\ state'[j] # "absent" => state[j] # "absent"
            /\ state'[j] = "purged" => state[j] = "purged" \/ Expired(j)
  PROVE  SubmissionInv'
<1>1. \A j \in Jobs : submission[j].deadline \in Nat
  <2>1. \A x \in Submissions : x.deadline \in Nat
    BY JobJournalAssumption DEF Submissions
  <2>2. NoSubmission.deadline \in Nat
    BY DEF NoSubmission
  <2> QED BY <2>1, <2>2 DEF JobTypeOK
<1>2. PurgedPast'
  BY <1>1 DEF SubmissionInv, PurgedPast, Expired, JobTypeOK
<1>3. KeyHasOneRow'
  BY DEF SubmissionInv, KeyHasOneRow, In
<1>4. NoRerun'
  BY DEF SubmissionInv, NoRerun
<1> QED BY <1>2, <1>3, <1>4 DEF SubmissionInv

\* accept_job_inner takes a submission that no row and no dropped tombstone has.
LEMMA AcceptJobInv ==
  ASSUME NEW j \in Jobs, NEW s \in Submissions, JournalInv, AcceptJob(j, s)
  PROVE  JournalInv'
<1> USE DEF JournalInv
<1>1. LeaseInv'
  BY LeaseNextInv DEF AcceptJob
<1>2. state' \in [Jobs -> JobStates] /\ state'[j] = "accepted" /\ submission'[j] = s
      /\ \A i \in Jobs \ {j} : submission'[i] = submission[i]
           /\ state'[i] = IF i \in PurgedTombstones THEN "purged" ELSE state[i]
  BY DEF AcceptJob, Purged, JobTypeOK, JobStates, Journaled, Visible, Live
<1>3. j \notin claimed /\ vm_id[j] = NoVm
  BY DEF AcceptJob, JobTypeOK
<1>4. JobTypeOK'
  BY <1>2, <1>3 DEF AcceptJob, JobTypeOK
<1>5. \A i \in Jobs \ {j} :
         submission[i].key = s.key => state[i] \notin Journaled \/ i \in PurgedTombstones
  BY DEF AcceptJob, SameKey, In
<1>6. \A i \in PurgedTombstones : Expired(i)
  BY DEF PurgedTombstones
<1>7. now' = now /\ s.deadline > now /\ s.deadline \in Nat /\ now \in Nat
  BY JobJournalAssumption DEF AcceptJob, InTime, JobTypeOK, Submissions
<1>8. KeyHasOneRow'
  BY <1>2, <1>5 DEF KeyHasOneRow, SubmissionInv, In, Journaled, Visible, Live, Terminal,
      Commanded, HostFailed
<1>9. NoRerun'
  <2>1. \A i \in Jobs \ {j} : state[i] # "absent" => submission[i] # s
    <3> SUFFICES ASSUME NEW i \in Jobs \ {j}, state[i] # "absent", submission[i] = s
                 PROVE FALSE
      OBVIOUS
    <3>1. state[i] \notin Journaled \/ i \in PurgedTombstones
      BY <1>5
    <3>2. Expired(i)
      BY <3>1, <1>6 DEF SubmissionInv, PurgedPast, JobTypeOK, JobStates
    <3> QED BY <3>2, <1>7 DEF Expired
  <2> QED BY <1>2, <2>1 DEF NoRerun, SubmissionInv, PurgedTombstones, In
<1>10. PurgedPast'
  BY <1>2, <1>6, <1>7 DEF PurgedPast, SubmissionInv, Expired
<1>11. ReleaseHasReceipt' /\ AbortIsFinal' /\ OneJobPerGeneration' /\ ResultIsHonest'
  BY <1>2, <1>3 DEF AcceptJob, OwnershipInv, ReleaseHasReceipt, AbortIsFinal,
      OneJobPerGeneration, ResultIsHonest, Bound, CleanupProven, Commanded,
      Owners, leaseVars, rowVars, flagVars
<1>12. LiveHolds'
  BY <1>2, <1>3 DEF AcceptJob, OwnershipInv, LiveHolds, Bound, PurgedTombstones, In, Visible,
      Live, Terminal, Commanded, HostFailed
<1> QED BY <1>1, <1>4, <1>8, <1>9, <1>10, <1>11, <1>12 DEF SubmissionInv, OwnershipInv

\* Binding a generation and planning its lease in one transaction.
LEMMA BindInv ==
  ASSUME NEW j \in Jobs, NEW v \in Vms, JournalInv, BindJobVmWithLease(j, v)
  PROVE  JournalInv'
<1> USE DEF JournalInv
<1>1. LeaseInv'
  BY BeginLeaseInv, JobJournalAssumption DEF BindJobVmWithLease
<1>2. PICK r \in Readings : InsertLease(v, j, r)
  BY DEF BindJobVmWithLease, BeginLease
<1>3. v \notin used /\ v \notin Owners /\ v \notin lease_aborted
  BY <1>2 DEF InsertLease, LeaseInv, LeaseTypeOK, Owners
<1>4. JobTypeOK'
  BY DEF BindJobVmWithLease, BindAllowed, JobTypeOK, JobStates, Journaled, Visible, Live,
      Terminal, Commanded, HostFailed
<1>5. SubmissionInv'
  BY SubmissionsKept DEF BindJobVmWithLease, JobTypeOK, Journaled, Visible, Live
<1>6. state[j] \in Visible /\ vm_id[j] = NoVm /\ j \notin vm_allocation_aborted
  BY DEF BindJobVmWithLease, BindAllowed
<1>7. vm_id' = [vm_id EXCEPT ![j] = v] /\ claimed' = claimed \cup {j}
      /\ cleanup_pending' = cleanup_pending \cup {j}
  BY DEF BindJobVmWithLease
<1>8. ReleaseHasReceipt'
  BY <1>7 DEF BindJobVmWithLease, OwnershipInv, ReleaseHasReceipt, Bound, CleanupProven,
      JobTypeOK
<1>9. OneJobPerGeneration'
  <2>1. \A i \in Jobs : vm_id[i] # v
    BY DEF BindJobVmWithLease, BindAllowed
  <2>2. v \in used' /\ used \subseteq used' /\ vm_name'[v] = j
        /\ \A w \in Vms \ {v} : vm_name'[w] = vm_name[w]
    BY <1>2 DEF InsertLease, LeaseInv, LeaseTypeOK
  <2>3. Owners' = Owners \cup {v}
    BY <1>2 DEF InsertLease, Owners
  <2> QED BY <1>7, <2>1, <2>2, <2>3 DEF OwnershipInv, OneJobPerGeneration, Bound, JobTypeOK
<1>10. AbortIsFinal'
  <2>1. \A i \in vm_allocation_aborted : i # j /\ vm_id'[i] = vm_id[i] /\ vm_id[i] # v
    BY <1>6, <1>7, <1>3 DEF OwnershipInv, AbortIsFinal, OneJobPerGeneration, JobTypeOK
  <2> QED
    BY <1>2, <2>1 DEF BindJobVmWithLease, InsertLease, OwnershipInv, AbortIsFinal, Bound
<1>11. ResultIsHonest'
  BY <1>6, <1>7, JobJournalAssumption DEF BindJobVmWithLease, OwnershipInv, ResultIsHonest, Bound,
      Commanded, JobTypeOK
<1>12. LiveHolds'
  BY <1>6, <1>7, JobJournalAssumption DEF BindJobVmWithLease, OwnershipInv, LiveHolds, Bound,
      Live, Visible, JobTypeOK
<1> QED BY <1>1, <1>4, <1>5, <1>8, <1>9, <1>10, <1>11, <1>12 DEF OwnershipInv

\* The abort fences a lease that has not entered a backend, and only then.
LEMMA AbortInv ==
  ASSUME NEW j \in Jobs, NEW v \in Vms, JournalInv, RecordJobLeasedPrebackendAbort(j, v)
  PROVE  JournalInv'
<1> USE DEF JournalInv
<1>1. v \in leases /\ v \notin vms /\ v \notin backend_entered \cup lease_destroyed
      /\ vm_id[j] = v /\ j \notin vm_destroyed /\ state[j] \in HostFailed \cup {"preparing"}
  BY DEF RecordJobLeasedPrebackendAbort, AbortAllowed, LeaseInv, CidOwnedOnce
<1>2. LeaseInv'
  BY <1>1 DEF RecordJobLeasedPrebackendAbort, LeaseInv, LeaseTypeOK, CidOwnedOnce,
      BootEvidence, RebootReceiptSound, Owners, cidVars, rowVars, hostVars
<1>3. JobTypeOK'
  BY DEF RecordJobLeasedPrebackendAbort, JobTypeOK
<1>4. SubmissionInv'
  BY SubmissionsKept DEF RecordJobLeasedPrebackendAbort, JobTypeOK
<1>5. AbortIsFinal'
  BY <1>1, JobJournalAssumption DEF RecordJobLeasedPrebackendAbort, OwnershipInv, AbortIsFinal,
      Bound, rowVars
<1>6. ResultIsHonest'
  BY <1>1 DEF RecordJobLeasedPrebackendAbort, OwnershipInv, ResultIsHonest, Bound, Commanded,
      HostFailed
<1>7. ReleaseHasReceipt' /\ OneJobPerGeneration' /\ LiveHolds'
  BY DEF RecordJobLeasedPrebackendAbort, OwnershipInv, ReleaseHasReceipt, OneJobPerGeneration,
      LiveHolds, Bound, CleanupProven, Owners, rowVars
<1> QED BY <1>2, <1>3, <1>4, <1>5, <1>6, <1>7 DEF OwnershipInv

\* finish_job and finish_job_failure decide a live job, a result only a running one.
LEMMA DecideInv ==
  ASSUME NEW j \in Jobs, NEW o \in Terminal, NEW c \in Collections,
         NEW m \in Receipts \cup {NoReceipt}, JournalInv, Decide(j, o, c, m)
  PROVE  JournalInv'
<1> USE DEF JournalInv
<1>1. LeaseInv'
  BY LeaseNextInv DEF Decide
<1>2. state[j] \in Live /\ state' = [state EXCEPT ![j] = o]
  BY DEF Decide, Undecided
<1>3. JobTypeOK'
  BY <1>2 DEF Decide, JobTypeOK, JobStates, Journaled, Visible, Live, Terminal, Commanded,
      HostFailed
<1>4. SubmissionInv'
  BY <1>2, SubmissionsKept DEF Decide, JobTypeOK, Journaled, Visible, Live, Terminal, Commanded,
      HostFailed
<1>5. AbortIsFinal' /\ ReleaseHasReceipt' /\ OneJobPerGeneration'
  BY DEF Decide, OwnershipInv, ReleaseHasReceipt, OneJobPerGeneration, AbortIsFinal, Bound,
      CleanupProven, Owners, leaseVars, rowVars, flagVars
<1>6. LiveHolds'
  BY <1>2 DEF Decide, OwnershipInv, LiveHolds, Bound, Live, Visible, Terminal, Commanded,
      HostFailed, JobTypeOK
<1>7. ResultIsHonest'
  BY <1>2 DEF Decide, OwnershipInv, ResultIsHonest, LiveHolds, Bound, JobTypeOK
<1> QED BY <1>1, <1>3, <1>4, <1>5, <1>6, <1>7 DEF OwnershipInv

\* The other transactions on a job's row.
LEMMA RowInv ==
  ASSUME NEW j \in Jobs, JournalInv,
         \/ ReplaySubmission(j) \/ ClaimJobVm(j) \/ MarkJobRunning(j)
         \/ ConfirmJobCleanup(j) \/ ConfirmUnallocatedJobCleanup(j)
         \/ AppendJobEvents(j) \/ DeleteJobEvidence(j)
         \/ \E m \in Receipts : StageJobManifest(j, m)
  PROVE  JournalInv'
<1> USE DEF JournalInv
<1>0. UNCHANGED leaseVars /\ UNCHANGED <<now, submission, vm_id, vm_destroyed,
                                        vm_allocation_aborted>>
  BY DEF ReplaySubmission, ClaimJobVm, MarkJobRunning, ConfirmJobCleanup,
      ConfirmUnallocatedJobCleanup, AppendJobEvents, DeleteJobEvidence, StageJobManifest
<1>1. LeaseInv'
  BY <1>0, LeaseNextInv
<1>2. AbortIsFinal' /\ OneJobPerGeneration'
  BY <1>0 DEF OwnershipInv, OneJobPerGeneration, AbortIsFinal, Bound, Owners, leaseVars, rowVars,
      flagVars
<1>3. CASE ReplaySubmission(j)
  <2>1. state' \in [Jobs -> JobStates]
        /\ \A i \in Jobs : state'[i] # state[i] => state[i] = "deleted" /\ state'[i] = "purged"
                                                     /\ Expired(i)
    BY <1>3 DEF ReplaySubmission, Purged, PurgedTombstones, In, JobTypeOK, JobStates
  <2>2. JobTypeOK'
    BY <1>3, <2>1 DEF ReplaySubmission, JobTypeOK
  <2>3. SubmissionInv'
    BY <1>3, <2>1, SubmissionsKept DEF ReplaySubmission, JobTypeOK, Journaled
  <2>4. ReleaseHasReceipt' /\ ResultIsHonest' /\ LiveHolds'
    BY <1>3, <2>1 DEF ReplaySubmission, OwnershipInv, ReleaseHasReceipt, ResultIsHonest,
        LiveHolds, Bound, CleanupProven, Visible, Live, Terminal, Commanded, HostFailed
  <2> QED BY <1>1, <1>2, <2>2, <2>3, <2>4 DEF OwnershipInv
<1>4. CASE ClaimJobVm(j)
  <2>1. JobTypeOK'
    BY <1>4 DEF ClaimJobVm, JobTypeOK, JobStates, Journaled, Visible, Live
  <2>2. SubmissionInv'
    BY <1>4, SubmissionsKept DEF ClaimJobVm, JobTypeOK, Journaled, Visible, Live
  <2>3. ReleaseHasReceipt' /\ ResultIsHonest' /\ LiveHolds'
    BY <1>4 DEF ClaimJobVm, OwnershipInv, ReleaseHasReceipt, ResultIsHonest,
        LiveHolds, Bound, CleanupProven, Visible, Live, Commanded, JobTypeOK
  <2> QED BY <1>1, <1>2, <2>1, <2>2, <2>3 DEF OwnershipInv
<1>5. CASE MarkJobRunning(j)
  <2>1. JobTypeOK'
    BY <1>5 DEF MarkJobRunning, RunAllowed, JobTypeOK, JobStates, Journaled, Visible, Live
  <2>2. SubmissionInv'
    BY <1>5, SubmissionsKept DEF MarkJobRunning, RunAllowed, JobTypeOK, Journaled, Visible, Live
  <2>3. ReleaseHasReceipt' /\ ResultIsHonest' /\ LiveHolds'
    BY <1>5 DEF MarkJobRunning, RunAllowed, OwnershipInv, ReleaseHasReceipt, ResultIsHonest,
        LiveHolds, Bound, CleanupProven, Visible, Live, Commanded, JobTypeOK
  <2> QED BY <1>1, <1>2, <2>1, <2>2, <2>3 DEF OwnershipInv
<1>6. CASE ConfirmJobCleanup(j) \/ ConfirmUnallocatedJobCleanup(j)
  <2>1. JobTypeOK'
    BY <1>6 DEF ConfirmJobCleanup, ConfirmUnallocatedJobCleanup, JobTypeOK
  <2>2. SubmissionInv'
    BY <1>6, SubmissionsKept DEF ConfirmJobCleanup, ConfirmUnallocatedJobCleanup, JobTypeOK
  <2>3. ReleaseHasReceipt' /\ ResultIsHonest' /\ LiveHolds'
    BY <1>6 DEF ConfirmJobCleanup, ConfirmUnallocatedJobCleanup, OwnershipInv,
        ReleaseHasReceipt, ResultIsHonest, LiveHolds, Bound, CleanupProven, Live, Terminal,
        Commanded, HostFailed
  <2> QED BY <1>1, <1>2, <2>1, <2>2, <2>3 DEF OwnershipInv
<1>7. CASE AppendJobEvents(j) \/ \E m \in Receipts : StageJobManifest(j, m)
  <2>1. JobTypeOK'
    BY <1>7 DEF AppendJobEvents, StageJobManifest, JobTypeOK
  <2>2. SubmissionInv'
    BY <1>7, SubmissionsKept DEF AppendJobEvents, StageJobManifest, JobTypeOK
  <2>3. ReleaseHasReceipt' /\ ResultIsHonest' /\ LiveHolds'
    BY <1>7 DEF AppendJobEvents, StageJobManifest, OwnershipInv, ReleaseHasReceipt,
        ResultIsHonest, LiveHolds, Bound, CleanupProven
  <2> QED BY <1>1, <1>2, <2>1, <2>2, <2>3 DEF OwnershipInv
<1>8. CASE DeleteJobEvidence(j)
  <2>1. JobTypeOK'
    BY <1>8 DEF DeleteJobEvidence, DeleteAllowed, JobTypeOK, JobStates, Journaled
  <2>2. SubmissionInv'
    BY <1>8, SubmissionsKept DEF DeleteJobEvidence, DeleteAllowed, JobTypeOK, Journaled, Visible,
        Terminal, Commanded, HostFailed
  <2>3. ReleaseHasReceipt' /\ ResultIsHonest' /\ LiveHolds'
    BY <1>8 DEF DeleteJobEvidence, DeleteAllowed, OwnershipInv, ReleaseHasReceipt,
        ResultIsHonest, LiveHolds, Bound, CleanupProven, Live, Commanded, JobTypeOK
  <2> QED BY <1>1, <1>2, <2>1, <2>2, <2>3 DEF OwnershipInv
<1> QED BY <1>3, <1>4, <1>5, <1>6, <1>7, <1>8

\* A planned generation is never planned again, keeps its name as long as a row
\* has it, and stays out of a backend once its lease is fenced.
LEMMA GenerationKept ==
  ASSUME LeaseInv, LeaseNext, NEW w \in used
  PROVE  /\ w \in used'
         /\ w \in Owners' => w \in Owners /\ vm_name'[w] = vm_name[w]
         /\ /\ w \notin backend_entered \cup lease_destroyed \cup vms
            /\ w \in leases => w \in lease_aborted
            => /\ w \notin (backend_entered \cup lease_destroyed \cup vms)'
               /\ w \in leases' => w \in lease_aborted'
<1>0. w \in Vms
  BY DEF LeaseInv, LeaseTypeOK
<1>1. CASE EnvironmentStep
  BY <1>1 DEF EnvironmentStep, EnsureCidBase, OpenStore, Reboot, Owners, cidVars, rowVars,
      flagVars
<1>2. CASE \E v \in Vms, n \in Names : BeginLease(v, n)
  BY <1>0, <1>2 DEF BeginLease, InsertLease, Owners, LeaseInv, LeaseTypeOK
<1>3. CASE \E v \in Vms : EnterBackend(v) \/ ConfirmReboot(v) \/ RecordLeaseDestruction(v)
  BY <1>3 DEF EnterBackend, EntryEligible, ConfirmReboot, RecordLeaseDestruction, Owners, rowVars
<1>4. CASE \E v \in Vms : CommitVm(v) \/ ReleaseLease(v) \/ RetireVm(v)
  BY <1>0, <1>4 DEF CommitVm, ReleaseLease, ReleaseAllowed, RetireVm, FreeCid, DeleteLeaseRow,
      Owners, flagVars, LeaseInv, LeaseTypeOK, CidOwnedOnce
<1> QED BY <1>1, <1>2, <1>3, <1>4 DEF LeaseNext, LeaseStep

\* What the lease store does on its own leaves the job rows true.
LEMMA LeaseSideInv ==
  ASSUME JournalInv, LeaseNext, UNCHANGED jobVars
  PROVE  JournalInv'
<1> USE DEF JournalInv
<1>1. LeaseInv'
  BY LeaseNextInv
<1>2. JobTypeOK'
  BY DEF jobVars, JobTypeOK
<1>3. SubmissionInv'
  BY SubmissionsKept DEF jobVars, JobTypeOK
<1>4. ReleaseHasReceipt' /\ ResultIsHonest' /\ LiveHolds'
  BY DEF jobVars, OwnershipInv, ReleaseHasReceipt, ResultIsHonest, LiveHolds, Bound, CleanupProven
<1>5. \A j \in Jobs : Bound(j) => vm_id[j] \in used
  BY DEF OwnershipInv, OneJobPerGeneration
<1>6. OneJobPerGeneration'
  BY <1>5, GenerationKept DEF jobVars, OwnershipInv, OneJobPerGeneration, Bound
<1>7. AbortIsFinal'
  BY <1>5, GenerationKept DEF jobVars, OwnershipInv, AbortIsFinal, Bound, JobTypeOK
<1> QED BY <1>1, <1>2, <1>3, <1>4, <1>6, <1>7 DEF OwnershipInv

\* The journal's own steps are transactions.
LEMMA StoreStepsTransact ==
  ASSUME JournalInv, StoreNext
  PROVE  Transaction
<1>1. ASSUME NEW j \in Jobs, JobStep(j)
      PROVE  JobTransaction(j)
  <2>1. CASE \E o \in Outcomes, c \in Collections, m \in Receipts : FinishJob(j, o, c, m)
    BY <2>1 DEF FinishJob, JobTransaction
  <2>2. CASE \E o \in Outcomes : FinishJobFailure(j, o)
    <3>1. manifest[j] \in Receipts \cup {NoReceipt} /\ "failed" \in Collections
      BY DEF JournalInv, JobTypeOK, Collections
    <3> QED BY <2>2, <3>1 DEF FinishJobFailure, Terminal, JobTransaction
  <2> QED BY <1>1, <2>1, <2>2 DEF JobStep, JobTransaction
<1> QED BY <1>1 DEF StoreNext, Transaction

\* Every transaction preserves the invariant.
LEMMA TransactionInv ==
  ASSUME JournalInv, [Transaction]_journalVars
  PROVE  JournalInv'
<1> USE DEF JournalInv
<1>1. CASE \E j \in Jobs : JobTransaction(j)
  BY <1>1, AcceptJobInv, BindInv, AbortInv, DecideInv, RowInv DEF JobTransaction
<1>2. CASE \E v \in Vms : RecordJobVmDestruction(v)
  <2>1. PICK v \in Vms : RecordJobVmDestruction(v)
    BY <1>2
  <2>2. LeaseInv'
    BY <2>1, LeaseNextInv DEF RecordJobVmDestruction
  <2>3. JobTypeOK'
    BY <2>1 DEF RecordJobVmDestruction, JobTypeOK, In
  <2>4. SubmissionInv'
    BY <2>1, SubmissionsKept DEF RecordJobVmDestruction, JobTypeOK
  <2>5. ReleaseHasReceipt' /\ ResultIsHonest' /\ LiveHolds' /\ OneJobPerGeneration'
    BY <2>1, JobJournalAssumption DEF RecordJobVmDestruction, OwnershipInv, ReleaseHasReceipt,
        ResultIsHonest, LiveHolds, OneJobPerGeneration, Bound, CleanupProven, Owners, leaseVars,
        rowVars
  <2>6. AbortIsFinal'
    BY <2>1 DEF RecordJobVmDestruction, OwnershipInv, AbortIsFinal, Bound, leaseVars, rowVars,
        flagVars
  <2> QED BY <2>2, <2>3, <2>4, <2>5, <2>6 DEF OwnershipInv
<1>3. CASE Tick
  <2>1. LeaseInv'
    BY <1>3, LeaseNextInv DEF Tick
  <2>2. JobTypeOK'
    BY <1>3 DEF Tick, JobTypeOK
  <2>3. SubmissionInv'
    BY <1>3, SubmissionsKept DEF Tick, JobTypeOK
  <2>4. OwnershipInv'
    BY <1>3 DEF Tick, OwnershipInv, ReleaseHasReceipt, ResultIsHonest, LiveHolds, AbortIsFinal,
        OneJobPerGeneration, Bound, CleanupProven, Owners, leaseVars, rowVars, flagVars
  <2> QED BY <2>1, <2>2, <2>3, <2>4
<1>4. CASE LeaseNext /\ UNCHANGED jobVars
  BY <1>4, LeaseSideInv
<1>5. CASE UNCHANGED journalVars
  <2>1. LeaseInv'
    BY <1>5, LeaseNextInv DEF journalVars
  <2>2. JobTypeOK'
    BY <1>5 DEF journalVars, jobVars, JobTypeOK
  <2>3. SubmissionInv'
    BY <1>5, SubmissionsKept DEF journalVars, jobVars, JobTypeOK
  <2>4. OwnershipInv'
    BY <1>5 DEF journalVars, jobVars, OwnershipInv, ReleaseHasReceipt, ResultIsHonest,
        LiveHolds, AbortIsFinal, OneJobPerGeneration, Bound, CleanupProven, Owners, leaseVars,
        rowVars, flagVars
  <2> QED BY <2>1, <2>2, <2>3, <2>4
<1> QED BY <1>1, <1>2, <1>3, <1>4, <1>5 DEF Transaction

\* The invariant holds of every behaviour of the journal.
THEOREM JournalInvariant == JournalSpec => []JournalInv
<1>1. JournalInv /\ [StoreNext]_journalVars => JournalInv'
  BY StoreStepsTransact, TransactionInv
<1> QED BY <1>1, JournalInitInv, PTL DEF JournalSpec

-----------------------------------------------------------------------------

\* Type correctness of the journal and of the lease store below it.
THEOREM JournalTypes == JournalSpec => []TypeOK
<1>1. JournalInv => TypeOK
  BY DEF JournalInv, LeaseInv, TypeOK
<1> QED BY <1>1, JournalInvariant, PTL

\* accept_job_inner never takes one submission twice, whatever was deleted and
\* purged in between; a key never has two rows.
THEOREM SubmissionsRunOnce == JournalSpec => [](NoRerun /\ KeyHasOneRow)
<1>1. JournalInv => NoRerun /\ KeyHasOneRow
  BY DEF JournalInv, SubmissionInv
<1> QED BY <1>1, JournalInvariant, PTL

\* confirm_job_cleanup and confirm_unallocated_job_cleanup never release a bound
\* job without a receipt, late binds included.
THEOREM ReleasesHaveReceipts == JournalSpec => []ReleaseHasReceipt
<1>1. JournalInv => ReleaseHasReceipt
  BY DEF JournalInv, OwnershipInv
<1> QED BY <1>1, JournalInvariant, PTL

\* record_job_leased_prebackend_abort and enter_host_resource_lease exclude each
\* other, so an allocation abort is final.
THEOREM AbortsAreFinal == JournalSpec => []AbortIsFinal
<1>1. JournalInv => AbortIsFinal
  BY DEF JournalInv, OwnershipInv
<1> QED BY <1>1, JournalInvariant, PTL

\* A generation belongs to one job, whose name its lease or VM row carries.
THEOREM GenerationsHaveOneJob == JournalSpec => []OneJobPerGeneration
<1>1. JournalInv => OneJobPerGeneration
  BY DEF JournalInv, OwnershipInv
<1> QED BY <1>1, JournalInvariant, PTL

\* finish_job_inner publishes a command result only for a job that ran, and
\* never calls truncated output complete.
THEOREM ResultsAreHonest == JournalSpec => []ResultIsHonest
<1>1. JournalInv => ResultIsHonest
  BY DEF JournalInv, OwnershipInv
<1> QED BY <1>1, JournalInvariant, PTL

\* A terminal row changes only by the deletion of released evidence.
LEMMA DecisionKept ==
  ASSUME JournalInv, [Transaction]_journalVars, NEW i \in In(Terminal)
  PROVE  \/ /\ state'[i] = state[i] /\ collection'[i] = collection[i]
            /\ manifest'[i] = manifest[i]
         \/ state'[i] = "deleted" /\ i \notin cleanup_pending
<1>0. i \in Jobs /\ state[i] \in Terminal /\ JobTypeOK
  BY DEF In, JournalInv
<1> DEFINE Kept == state'[i] = state[i] /\ collection'[i] = collection[i]
                   /\ manifest'[i] = manifest[i]
<1>1. CASE UNCHANGED <<state, collection, manifest>>
  BY <1>1
<1>2. CASE \E j \in Jobs : JobTransaction(j)
  <2>1. PICK j \in Jobs : JobTransaction(j)
    BY <1>2
  <2>2. CASE \E s \in Submissions : AcceptJob(j, s)
    BY <1>0, <2>2 DEF AcceptJob, Purged, PurgedTombstones, In, Terminal, Commanded, HostFailed,
        JobTypeOK
  <2>3. CASE ReplaySubmission(j)
    BY <1>0, <2>3 DEF ReplaySubmission, Purged, PurgedTombstones, In, Terminal, Commanded,
        HostFailed
  <2>4. CASE ClaimJobVm(j) \/ MarkJobRunning(j)
    BY <1>0, <2>4 DEF ClaimJobVm, MarkJobRunning, RunAllowed, Terminal, Commanded, HostFailed,
        JobTypeOK
  <2>5. CASE \E v \in Vms : BindJobVmWithLease(j, v)
    BY <1>0, <2>5 DEF BindJobVmWithLease, Terminal, Commanded, HostFailed, JobTypeOK
  <2>6. CASE \E m \in Receipts : StageJobManifest(j, m)
    BY <1>0, <2>6 DEF StageJobManifest, Terminal, Commanded, HostFailed, JobTypeOK
  <2>7. ASSUME NEW o, NEW c, NEW m, Decide(j, o, c, m)
        PROVE  Kept
    BY <1>0, <2>7 DEF Decide, Undecided, Live, Terminal, Commanded, HostFailed, JobTypeOK
  <2>8. CASE DeleteJobEvidence(j)
    BY <1>0, <2>8 DEF DeleteJobEvidence, DeleteAllowed, JobTypeOK
  <2>9. CASE ConfirmJobCleanup(j) \/ ConfirmUnallocatedJobCleanup(j) \/ AppendJobEvents(j)
              \/ \E v \in Vms : RecordJobLeasedPrebackendAbort(j, v)
    BY <2>9 DEF ConfirmJobCleanup, ConfirmUnallocatedJobCleanup, AppendJobEvents,
        RecordJobLeasedPrebackendAbort
  <2> QED
    BY <2>1, <2>2, <2>3, <2>4, <2>5, <2>6, <2>7, <2>8, <2>9
    DEF JobTransaction
<1> QED
  BY <1>1, <1>2 DEF Transaction, RecordJobVmDestruction, Tick, journalVars, jobVars

\* finish_job_inner: the first terminal decision wins, for good.
THEOREM DecisionsAreFinal == JournalSpec => DecisionIsFinal
<1>1. JournalInv /\ [StoreNext]_journalVars =>
        [\A j \in In(Terminal) :
           \/ /\ state'[j] = state[j] /\ collection'[j] = collection[j]
              /\ manifest'[j] = manifest[j]
           \/ state'[j] = "deleted" /\ j \notin cleanup_pending]_journalVars
  BY DecisionKept, StoreStepsTransact
<1> QED BY <1>1, JournalInvariant, PTL DEF JournalSpec, DecisionIsFinal

-----------------------------------------------------------------------------

\* The empty journal has promised nothing.
LEMMA PromiseStarts == JournalInit => Promise!PromiseInit
  BY DEF JournalInit, JobInit, Promise!PromiseInit, Promised, Live

\* Every transaction is a step of the promise or does not show in it.
LEMMA PromiseSteps ==
  ASSUME JournalInv, [Transaction]_journalVars
  PROVE  [Promise!PromiseNext]_(Promise!promiseVars)
<1> DEFINE Kept == UNCHANGED <<Promised, cleanup_pending>>
<1>0. JobTypeOK
  BY DEF JournalInv
<1>1. UNCHANGED state => UNCHANGED Promised
  BY DEF Promised
<1>2. CASE \E j \in Jobs : JobTransaction(j)
  <2>1. PICK j \in Jobs : JobTransaction(j)
    BY <1>2
  <2>2. CASE \E s \in Submissions : AcceptJob(j, s)
    <3>1. state'[j] = "accepted" /\ state[j] = "absent" /\ UNCHANGED cleanup_pending
      BY <1>0, <2>2 DEF AcceptJob, Purged
    <3>2. \A i \in Jobs \ {j} :
             state'[i] = state[i] \/ (state[i] = "deleted" /\ state'[i] = "purged")
      BY <1>0, <2>2 DEF AcceptJob, Purged, PurgedTombstones, In
    <3>3. Promised[j] = "none" /\ Promised'[j] = "accepted"
      BY <3>1 DEF Promised, Live
    <3>4. \A i \in Jobs \ {j} : Promised'[i] = Promised[i]
      BY <3>2 DEF Promised, Live
    <3>5. Promised = [i \in Jobs |-> Promised[i]] /\ Promised' = [i \in Jobs |-> Promised'[i]]
      BY DEF Promised
    <3>6. Promise!Accept(j)
      BY <3>1, <3>3, <3>4, <3>5 DEF Promise!Accept
    <3> QED BY <3>6 DEF Promise!PromiseNext
  <2>3. CASE ReplaySubmission(j)
    <3>1. Kept
      BY <2>3 DEF ReplaySubmission, Purged, PurgedTombstones, In, Promised, Live
    <3> QED BY <3>1 DEF Promise!promiseVars
  <2>4. CASE ClaimJobVm(j)
    <3>1. Promise!Acquire(j)
      BY <1>0, <2>4 DEF ClaimJobVm, Promised, Promise!Acquire, Live, JobTypeOK
    <3> QED BY <3>1 DEF Promise!PromiseNext
  <2>5. CASE \E v \in Vms : BindJobVmWithLease(j, v)
    <3>1. UNCHANGED Promised
      BY <1>0, <2>5 DEF BindJobVmWithLease, Promised, Live, JobTypeOK
    <3>2. CASE j \in cleanup_pending
      BY <2>5, <3>1, <3>2 DEF BindJobVmWithLease, Promise!promiseVars
    <3>3. CASE j \notin cleanup_pending
      <4>1. Promise!Acquire(j)
        BY <2>5, <3>1, <3>3 DEF BindJobVmWithLease, BindAllowed, Promised, Promise!Acquire, Live
      <4> QED BY <4>1 DEF Promise!PromiseNext
    <3> QED BY <3>2, <3>3
  <2>6. CASE MarkJobRunning(j)
    <3>1. Kept
      BY <1>0, <2>6 DEF MarkJobRunning, RunAllowed, Promised, Live, JobTypeOK
    <3> QED BY <3>1 DEF Promise!promiseVars
  <2>7. ASSUME NEW o \in Terminal, NEW c, NEW m, Decide(j, o, c, m)
        PROVE  Promise!PromiseNext
    <3>1. o \in Commanded => j \in cleanup_pending
      BY <1>0, <2>7 DEF Decide, JournalInv, OwnershipInv, LiveHolds, Live, JobTypeOK, Bound
    <3>2. Promise!Decide(j, o)
      BY <1>0, <2>7, <3>1 DEF Decide, Undecided, Promise!Decide, Promised, Live, Terminal,
          Commanded, HostFailed, JobTypeOK
    <3> QED BY <3>2 DEF Promise!PromiseNext, Terminal
  <2>8. CASE ConfirmJobCleanup(j) \/ ConfirmUnallocatedJobCleanup(j)
    <3>1. Promise!Release(j)
      BY <1>0, <2>8 DEF ConfirmJobCleanup, ConfirmUnallocatedJobCleanup, Promised,
          Promise!Release, Live, Terminal, Commanded, HostFailed, JobTypeOK
    <3> QED BY <3>1 DEF Promise!PromiseNext
  <2>9. CASE DeleteJobEvidence(j)
    <3>1. Promise!Forget(j)
      BY <1>0, <2>9 DEF DeleteJobEvidence, DeleteAllowed, Promised, Promise!Forget, Live,
          Terminal, Commanded, HostFailed, JobTypeOK
    <3> QED BY <3>1 DEF Promise!PromiseNext
  <2>10. CASE AppendJobEvents(j) \/ (\E m \in Receipts : StageJobManifest(j, m))
               \/ \E v \in Vms : RecordJobLeasedPrebackendAbort(j, v)
    BY <1>1, <2>10 DEF AppendJobEvents, StageJobManifest, RecordJobLeasedPrebackendAbort,
        Promise!promiseVars
  <2> QED
    BY <2>1, <2>2, <2>3, <2>4, <2>5, <2>6, <2>7, <2>8, <2>9, <2>10 DEF JobTransaction
<1>3. CASE UNCHANGED <<state, cleanup_pending>>
  BY <1>1, <1>3 DEF Promise!promiseVars
<1> QED
  BY <1>2, <1>3 DEF Transaction, RecordJobVmDestruction, Tick, journalVars, jobVars

\* The journal implements JobPromise, for every set of jobs and every limit.
THEOREM JournalKeepsPromise == JournalSpec => KeepsPromise
<1>1. JournalInv /\ [StoreNext]_journalVars => [Promise!PromiseNext]_(Promise!promiseVars)
  BY PromiseSteps, StoreStepsTransact
<1> QED
  BY <1>1, PromiseStarts, JournalInvariant, PTL
  DEF JournalSpec, KeepsPromise, Promise!PromiseSpec

-----------------------------------------------------------------------------
(* The budget: the sum MapThenSumSet computes.                             *)

\* A set of naturals that is not empty has a least member.
LEMMA NatLeast ==
  ASSUME NEW T, T \subseteq Nat, T # {}
  PROVE  \E n \in T : \A m \in T : n <= m
<1>1. \E n \in T : \A m \in T : ~ (<<m, n>> \in OpToRel(<, Nat))
  BY NatLessThanWellFounded, WFMin, Zenon
<1>2. PICK n \in T : \A m \in T : ~ (<<m, n>> \in OpToRel(<, Nat))
  BY <1>1
<1>3. ASSUME NEW m \in T PROVE n <= m
  <2>1. m \in Nat /\ n \in Nat
    OBVIOUS
  <2>2. m < n => <<m, n>> \in OpToRel(<, Nat)
    BY <2>1 DEF OpToRel
  <2>3. ~ (m < n)
    BY <1>2, <2>2, Zenon
  <2> QED BY <2>1, <2>3
<1> QED BY <1>3

\* The element a fold takes first.
FoldFirst(s) == CHOOSE x \in s : TRUE

\* F is the fold of the weights w over the subsets of S.
IsFold(F, w, S) ==
    F = [s \in SUBSET S |-> IF s = {} THEN 0 ELSE w[FoldFirst(s)] + F[s \ {FoldFirst(s)}]]

\* F adds the weights of a subset of S up, in whatever order.
IsSum(F, w, S) ==
    /\ F \in [SUBSET S -> Nat] /\ F[{}] = 0
    /\ \A s \in SUBSET S : \A x \in s : F[s] = w[x] + F[s \ {x}]

\* The first element of a set is one of its elements.
LEMMA FirstIn == ASSUME NEW s, s # {} PROVE FoldFirst(s) \in s
  BY DEF FoldFirst

\* A subset without one of its elements is a smaller one.
LEMMA SmallerSubset ==
  ASSUME NEW S, IsFiniteSet(S), NEW s \in SUBSET S, NEW x \in s
  PROVE  /\ s \ {x} \in SUBSET S
         /\ Cardinality(s) \in Nat /\ Cardinality(s \ {x}) \in Nat
         /\ Cardinality(s \ {x}) = Cardinality(s) - 1
<1>1. IsFiniteSet(s)
  BY FS_Subset
<1>2. IsFiniteSet(s \ {x}) /\ Cardinality(s \ {x}) = Cardinality(s) - 1
  BY <1>1, FS_RemoveElement
<1> QED BY <1>1, <1>2, FS_CardinalityType

\* The subsets of S with at most n elements.
SubsetsTo(S, n) == {s \in SUBSET S : Cardinality(s) <= n}

\* The fold as far as subsets with n elements.
IsFoldTo(F, w, S, n) ==
    /\ F \in [SubsetsTo(S, n) -> Nat]
    /\ \A s \in SubsetsTo(S, n) :
          F[s] = IF s = {} THEN 0 ELSE w[FoldFirst(s)] + F[s \ {FoldFirst(s)}]

\* It exists for the empty set.
LEMMA FoldsToZero ==
  ASSUME NEW S, IsFiniteSet(S), NEW w \in [S -> Nat]
  PROVE  \E F : IsFoldTo(F, w, S, 0)
<1> DEFINE F == [s \in SubsetsTo(S, 0) |-> 0]
<1>1. ASSUME NEW s \in SubsetsTo(S, 0) PROVE s = {}
  <2>1. s \in SUBSET S /\ IsFiniteSet(s) /\ Cardinality(s) <= 0
    BY FS_Subset DEF SubsetsTo
  <2>2. Cardinality(s) = 0
    BY <2>1, FS_CardinalityType
  <2> QED BY <2>1, <2>2, FS_EmptySet
<1>2. IsFoldTo(F, w, S, 0)
  BY <1>1 DEF IsFoldTo
<1> QED BY <1>2

\* And for one element more.
LEMMA FoldsToNext ==
  ASSUME NEW S, IsFiniteSet(S), NEW w \in [S -> Nat], NEW n \in Nat,
         NEW G, IsFoldTo(G, w, S, n)
  PROVE  \E F : IsFoldTo(F, w, S, n + 1)
<1> DEFINE F == [s \in SubsetsTo(S, n + 1) |->
                    IF s = {} THEN 0 ELSE w[FoldFirst(s)] + G[s \ {FoldFirst(s)}]]
<1>1. ASSUME NEW s \in SubsetsTo(S, n + 1), s # {}
      PROVE  /\ FoldFirst(s) \in S /\ s \ {FoldFirst(s)} \in SubsetsTo(S, n)
  <2>1. FoldFirst(s) \in s /\ s \in SUBSET S /\ Cardinality(s) <= n + 1
    BY <1>1, FirstIn DEF SubsetsTo
  <2>2. /\ s \ {FoldFirst(s)} \in SUBSET S /\ Cardinality(s) \in Nat
        /\ Cardinality(s \ {FoldFirst(s)}) \in Nat
        /\ Cardinality(s \ {FoldFirst(s)}) = Cardinality(s) - 1
    BY <2>1, SmallerSubset
  <2> QED BY <2>1, <2>2 DEF SubsetsTo
<1>2. SubsetsTo(S, n) \subseteq SubsetsTo(S, n + 1)
  <2>1. ASSUME NEW s \in SUBSET S PROVE Cardinality(s) \in Nat
    BY FS_Subset, FS_CardinalityType
  <2> QED BY <2>1 DEF SubsetsTo
<1>3. F \in [SubsetsTo(S, n + 1) -> Nat]
  <2>1. ASSUME NEW s \in SubsetsTo(S, n + 1), s # {}
        PROVE  w[FoldFirst(s)] + G[s \ {FoldFirst(s)}] \in Nat
    <3>1. w[FoldFirst(s)] \in Nat /\ G[s \ {FoldFirst(s)}] \in Nat
      BY <1>1, <2>1 DEF IsFoldTo
    <3> QED BY <3>1
  <2> QED BY <2>1
<1>4. ASSUME NEW s \in SubsetsTo(S, n) PROVE F[s] = G[s]
  <2>1. s \in SubsetsTo(S, n + 1)
    BY <1>2
  <2>2. F[s] = IF s = {} THEN 0 ELSE w[FoldFirst(s)] + G[s \ {FoldFirst(s)}]
    BY <2>1
  <2> QED BY <2>2 DEF IsFoldTo
<1>5. ASSUME NEW s \in SubsetsTo(S, n + 1)
      PROVE  F[s] = IF s = {} THEN 0 ELSE w[FoldFirst(s)] + F[s \ {FoldFirst(s)}]
  <2>1. F[s] = IF s = {} THEN 0 ELSE w[FoldFirst(s)] + G[s \ {FoldFirst(s)}]
    OBVIOUS
  <2>2. s # {} => F[s \ {FoldFirst(s)}] = G[s \ {FoldFirst(s)}]
    BY <1>1, <1>4
  <2> HIDE DEF F
  <2> QED BY <2>1, <2>2
<1> HIDE DEF F
<1>6. IsFoldTo(F, w, S, n + 1)
  BY <1>3, <1>5 DEF IsFoldTo
<1> QED BY <1>6

\* So the fold over a finite set exists: the recursive function defines one.
LEMMA FoldExists ==
  ASSUME NEW S, IsFiniteSet(S), NEW w \in [S -> Nat]
  PROVE  \E F \in [SUBSET S -> Nat] : IsFold(F, w, S)
<1> DEFINE Bad == {n \in Nat : ~ \E F : IsFoldTo(F, w, S, n)}
<1>1. Bad = {}
  <2> SUFFICES ASSUME Bad # {} PROVE FALSE
    OBVIOUS
  <2>1. Bad \subseteq Nat
    OBVIOUS
  <2>2. PICK n \in Bad : \A m \in Bad : n <= m
    <3> HIDE DEF Bad
    <3> QED BY <2>1, NatLeast
  <2>3. n # 0
    BY FoldsToZero
  <2>4. n \in Nat /\ n - 1 \in Nat /\ (n - 1) + 1 = n /\ ~ (n <= n - 1)
    BY <2>3
  <2>5. n - 1 \notin Bad
    <3> HIDE DEF Bad
    <3> QED BY <2>2, <2>4
  <2>6. PICK G : IsFoldTo(G, w, S, n - 1)
    BY <2>4, <2>5
  <2>7. \E F : IsFoldTo(F, w, S, (n - 1) + 1)
    BY <2>4, <2>6, FoldsToNext
  <2> QED BY <2>4, <2>7
<1>2. Cardinality(S) \in Nat
  BY FS_CardinalityType
<1>3. PICK F : IsFoldTo(F, w, S, Cardinality(S))
  BY <1>1, <1>2
<1>4. SubsetsTo(S, Cardinality(S)) = SUBSET S
  BY FS_Subset DEF SubsetsTo
<1>5. IsFold(F, w, S) /\ F \in [SUBSET S -> Nat]
  BY <1>3, <1>4 DEF IsFoldTo, IsFold
<1> QED BY <1>5

\* A fold of naturals is a natural.
LEMMA FoldType ==
  ASSUME NEW S, IsFiniteSet(S), NEW w \in [S -> Nat], NEW F, IsFold(F, w, S)
  PROVE  F \in [SUBSET S -> Nat]
<1>1. F[{}] = 0 /\ \A s \in SUBSET S : s # {} => F[s] = w[FoldFirst(s)] + F[s \ {FoldFirst(s)}]
  BY DEF IsFold
<1> DEFINE Odd == {s \in SUBSET S : F[s] \notin Nat}
           Sizes == {Cardinality(s) : s \in Odd}
<1>2. \A s \in SUBSET S : Cardinality(s) \in Nat
  BY FS_Subset, FS_CardinalityType
<1>3. Odd = {}
  <2> SUFFICES ASSUME Odd # {} PROVE FALSE
    OBVIOUS
  <2>1. Sizes \subseteq Nat /\ Sizes # {}
    BY <1>2
  <2>2. PICK n \in Sizes : \A m \in Sizes : n <= m
    <3> HIDE DEF Sizes
    <3> QED BY <2>1, NatLeast
  <2>3. PICK s \in Odd : n = Cardinality(s)
    OBVIOUS
  <2>4. s \in SUBSET S /\ F[s] \notin Nat
    OBVIOUS
  <2>5. s # {}
    <3> SUFFICES ASSUME s = {} PROVE FALSE
      OBVIOUS
    <3>1. F[s] = 0
      BY <1>1, Zenon
    <3> QED BY <2>4, <3>1
  <2>6. FoldFirst(s) \in s /\ F[s] = w[FoldFirst(s)] + F[s \ {FoldFirst(s)}]
    BY <1>1, <2>4, <2>5, FirstIn
  <2>7. /\ s \ {FoldFirst(s)} \in SUBSET S
        /\ Cardinality(s) \in Nat /\ Cardinality(s \ {FoldFirst(s)}) \in Nat
        /\ Cardinality(s \ {FoldFirst(s)}) = Cardinality(s) - 1
    BY <2>4, <2>6, SmallerSubset
  <2>8. F[s \ {FoldFirst(s)}] \in Nat
    <3>1. s \ {FoldFirst(s)} \in Odd => Cardinality(s \ {FoldFirst(s)}) \in Sizes
      OBVIOUS
    <3>2. s \ {FoldFirst(s)} \notin Odd
      <4> HIDE DEF Odd, Sizes
      <4> QED BY <2>2, <2>3, <2>7, <3>1
    <3> QED BY <2>7, <3>2
  <2>9. w[FoldFirst(s)] \in Nat
    BY <2>4, <2>6
  <2> QED BY <2>4, <2>6, <2>8, <2>9
<1> QED BY <1>3 DEF IsFold

\* A fold does not depend on the order in which it takes the elements.
LEMMA FoldAdds ==
  ASSUME NEW S, IsFiniteSet(S), NEW w \in [S -> Nat],
         NEW F \in [SUBSET S -> Nat], IsFold(F, w, S)
  PROVE  IsSum(F, w, S)
<1>1. F[{}] = 0 /\ \A s \in SUBSET S : s # {} => F[s] = w[FoldFirst(s)] + F[s \ {FoldFirst(s)}]
  BY DEF IsFold
<1> DEFINE Odd == {s \in SUBSET S : \E x \in s : F[s] # w[x] + F[s \ {x}]}
           Sizes == {Cardinality(s) : s \in Odd}
<1>2. \A s \in SUBSET S : Cardinality(s) \in Nat
  BY FS_Subset, FS_CardinalityType
<1>3. Odd = {}
  <2> SUFFICES ASSUME Odd # {} PROVE FALSE
    OBVIOUS
  <2>1. Sizes \subseteq Nat /\ Sizes # {}
    BY <1>2
  <2>2. PICK n \in Sizes : \A m \in Sizes : n <= m
    <3> HIDE DEF Sizes
    <3> QED BY <2>1, NatLeast
  <2>3. PICK s \in Odd : n = Cardinality(s)
    OBVIOUS
  <2>4. PICK x \in s : F[s] # w[x] + F[s \ {x}]
    OBVIOUS
  <2>5. s \in SUBSET S /\ s # {}
    OBVIOUS
  <2>6. ASSUME NEW t \in SUBSET S, Cardinality(t) < Cardinality(s), NEW y \in t
        PROVE  F[t] = w[y] + F[t \ {y}]
    <3>1. t \notin Odd
      <4>1. Cardinality(t) \in Nat /\ Cardinality(s) \in Nat
        BY <1>2, <2>5
      <4>2. t \in Odd => Cardinality(t) \in Sizes
        OBVIOUS
      <4> HIDE DEF Odd, Sizes
      <4> QED BY <2>2, <2>3, <2>6, <4>1, <4>2
    <3> QED BY <3>1
  <2> HIDE DEF Odd, Sizes
  <2> DEFINE c == FoldFirst(s)
  <2>7. c \in s /\ F[s] = w[c] + F[s \ {c}]
    BY <1>1, <2>5, FirstIn
  <2> HIDE DEF c
  <2>8. x # c
    BY <2>4, <2>7
  <2>9. /\ s \ {c} \in SUBSET S /\ s \ {x} \in SUBSET S
        /\ Cardinality(s \ {c}) < Cardinality(s) /\ Cardinality(s \ {x}) < Cardinality(s)
    BY <2>4, <2>5, <2>7, SmallerSubset
  <2>10. F[s \ {c}] = w[x] + F[(s \ {c}) \ {x}]
    BY <2>6, <2>8, <2>9
  <2>11. F[s \ {x}] = w[c] + F[(s \ {x}) \ {c}]
    BY <2>6, <2>7, <2>8, <2>9
  <2>12. (s \ {c}) \ {x} = (s \ {x}) \ {c} /\ (s \ {x}) \ {c} \in SUBSET S
    BY <2>5
  <2>13. w[x] \in Nat /\ w[c] \in Nat /\ F[(s \ {x}) \ {c}] \in Nat
    BY <2>5, <2>7, <2>12
  <2>14. PICK a, b, d : a = F[s \ {c}] /\ b = F[s \ {x}] /\ d = F[(s \ {x}) \ {c}]
    OBVIOUS
  <2>15. F[s] = w[c] + a /\ a = w[x] + d /\ b = w[c] + d
    BY <2>7, <2>10, <2>11, <2>12, <2>14, Zenon
  <2>16. d \in Nat /\ w[x] \in Nat /\ w[c] \in Nat
    BY <2>13, <2>14
  <2>17. F[s] = w[x] + b
    BY <2>15, <2>16
  <2> QED BY <2>4, <2>14, <2>17, Zenon
<1> QED BY <1>1, <1>3 DEF IsSum

\* A sum over a smaller set with the same weights agrees with the larger one.
LEMMA AddsAgree ==
  ASSUME NEW S, NEW R, IsFiniteSet(R), R \subseteq S, NEW w, NEW u, NEW F, NEW G,
         IsSum(F, w, S), IsSum(G, u, R),
         \A x \in R : w[x] = u[x]
  PROVE  F[R] = G[R]
<1> DEFINE Odd == {s \in SUBSET R : F[s] # G[s]}
           Sizes == {Cardinality(s) : s \in Odd}
<1>2. \A s \in SUBSET R : Cardinality(s) \in Nat
  BY FS_Subset, FS_CardinalityType
<1>3. Odd = {}
  <2> SUFFICES ASSUME Odd # {} PROVE FALSE
    OBVIOUS
  <2>1. Sizes \subseteq Nat /\ Sizes # {}
    BY <1>2
  <2>2. PICK n \in Sizes : \A m \in Sizes : n <= m
    <3> HIDE DEF Sizes
    <3> QED BY <2>1, NatLeast
  <2>3. PICK s \in Odd : n = Cardinality(s)
    OBVIOUS
  <2>4. s \in SUBSET R /\ F[s] # G[s]
    OBVIOUS
  <2>5. s # {}
    BY <2>4 DEF IsSum
  <2>6. PICK x \in s : TRUE
    BY <2>5
  <2>7. /\ s \ {x} \in SUBSET R
        /\ Cardinality(s) \in Nat /\ Cardinality(s \ {x}) \in Nat
        /\ Cardinality(s \ {x}) = Cardinality(s) - 1
    BY <2>4, SmallerSubset
  <2>8. F[s \ {x}] = G[s \ {x}]
    <3>1. s \ {x} \in Odd => Cardinality(s \ {x}) \in Sizes
      OBVIOUS
    <3>2. s \ {x} \notin Odd
      <4> HIDE DEF Odd, Sizes
      <4> QED BY <2>2, <2>3, <2>7, <3>1
    <3> QED BY <2>7, <3>2
  <2>9. F[s] = w[x] + F[s \ {x}] /\ G[s] = u[x] + G[s \ {x}] /\ w[x] = u[x]
    BY <2>4 DEF IsSum
  <2> QED BY <2>4, <2>8, <2>9
<1> QED BY <1>3

\* A smaller set weighs no more.
LEMMA AddsLess ==
  ASSUME NEW S, IsFiniteSet(S), NEW w \in [S -> Nat], NEW F, IsSum(F, w, S),
         NEW R, R \subseteq S
  PROVE  F[R] <= F[S]
<1> DEFINE Odd == {s \in SUBSET S : R \subseteq s /\ ~ (F[R] <= F[s])}
           Sizes == {Cardinality(s) : s \in Odd}
<1>2. \A s \in SUBSET S : Cardinality(s) \in Nat
  BY FS_Subset, FS_CardinalityType
<1>3. Odd = {}
  <2> SUFFICES ASSUME Odd # {} PROVE FALSE
    OBVIOUS
  <2>1. Sizes \subseteq Nat /\ Sizes # {}
    BY <1>2
  <2>2. PICK n \in Sizes : \A m \in Sizes : n <= m
    <3> HIDE DEF Sizes
    <3> QED BY <2>1, NatLeast
  <2>3. PICK s \in Odd : n = Cardinality(s)
    OBVIOUS
  <2>4. s \in SUBSET S /\ R \subseteq s /\ ~ (F[R] <= F[s])
    OBVIOUS
  <2>5. F[R] \in Nat /\ F[s] \in Nat
    BY <2>4 DEF IsSum
  <2>6. PICK x \in s : x \notin R
    BY <2>4, <2>5
  <2>7. /\ s \ {x} \in SUBSET S
        /\ Cardinality(s) \in Nat /\ Cardinality(s \ {x}) \in Nat
        /\ Cardinality(s \ {x}) = Cardinality(s) - 1
    BY <2>4, SmallerSubset
  <2>8. F[R] <= F[s \ {x}]
    <3>1. s \ {x} \in Odd => Cardinality(s \ {x}) \in Sizes
      OBVIOUS
    <3>2. s \ {x} \notin Odd
      <4> HIDE DEF Odd, Sizes
      <4> QED BY <2>2, <2>3, <2>7, <3>1
    <3> QED BY <2>4, <2>6, <2>7, <3>2
  <2>9. F[s] = w[x] + F[s \ {x}] /\ w[x] \in Nat /\ F[s \ {x}] \in Nat
    BY <2>4, <2>7 DEF IsSum
  <2> QED BY <2>4, <2>5, <2>8, <2>9
<1> QED BY <1>3

\* What a set of jobs is charged under the submissions sub.
ChargeOf(sub, S, r) == MapThenSumSet(LAMBDA j : Charge(sub[j].spec, r), S)

\* MapThenSumSet adds the charges up.
LEMMA TotalAdds ==
  ASSUME NEW S, IsFiniteSet(S), NEW sub, NEW r, NEW w \in [S -> Nat],
         \A j \in S : w[j] = Charge(sub[j].spec, r)
  PROVE  \E F : IsSum(F, w, S) /\ ChargeOf(sub, S, r) = F[S]
<1> DEFINE Rec(F) == F = [s \in SUBSET S |->
                            IF s = {} THEN 0
                            ELSE Charge(sub[CHOOSE x \in s : TRUE].spec, r)
                                   + F[s \ {CHOOSE x \in s : TRUE}]]
           C == CHOOSE F : Rec(F)
<1>1. ChargeOf(sub, S, r) = C[S]
  BY DEF ChargeOf, MapThenSumSet, MapThenFoldSet
<1>2. ASSUME NEW F PROVE Rec(F) <=> IsFold(F, w, S)
  <2>1. ASSUME NEW s \in SUBSET S, s # {}
        PROVE  Charge(sub[CHOOSE x \in s : TRUE].spec, r) = w[FoldFirst(s)]
    <3>1. FoldFirst(s) \in S
      BY <2>1, FirstIn
    <3> QED BY <3>1 DEF FoldFirst
  <2> QED BY <2>1 DEF IsFold, FoldFirst
<1>3. PICK G \in [SUBSET S -> Nat] : IsFold(G, w, S)
  BY FoldExists
<1>4. Rec(C)
  <2>1. Rec(G)
    BY <1>2, <1>3
  <2> HIDE DEF Rec
  <2> QED BY <2>1
<1> HIDE DEF C
<1>5. IsFold(C, w, S)
  BY <1>2, <1>4
<1>6. IsSum(C, w, S)
  BY <1>5, FoldType, FoldAdds
<1> QED BY <1>1, <1>6

-----------------------------------------------------------------------------

\* What the budget needs besides itself: finitely many jobs hold capacity, and
\* every job that has been accepted has the submission it was accepted with.
BudgetInv ==
    /\ IsFiniteSet(Holding)
    /\ \A j \in Jobs : state[j] # "absent" => submission[j] \in Submissions
    /\ WithinBudget

\* What each job of S is charged under the submissions sub.
Charges(sub, S, r) == [j \in S |-> Charge(sub[j].spec, r)]

\* The charges of jobs with a submission are naturals that add up.
LEMMA ChargesAdd ==
  ASSUME NEW S, IsFiniteSet(S), NEW sub, NEW r \in Resources,
         \A j \in S : sub[j] \in Submissions
  PROVE  /\ Charges(sub, S, r) \in [S -> Nat]
         /\ \E F : IsSum(F, Charges(sub, S, r), S) /\ ChargeOf(sub, S, r) = F[S]
<1> DEFINE w == Charges(sub, S, r)
<1>1. ASSUME NEW j \in S PROVE Charge(sub[j].spec, r) \in Nat
  BY BudgetAssumption DEF Submissions
<1>2. w \in [S -> Nat]
  BY <1>1 DEF Charges
<1>3. \A j \in S : w[j] = Charge(sub[j].spec, r)
  BY DEF Charges
<1> HIDE DEF w
<1>4. \E F : IsSum(F, w, S) /\ ChargeOf(sub, S, r) = F[S]
  BY <1>2, <1>3, TotalAdds
<1> QED BY <1>2, <1>4 DEF w

\* Fewer jobs with the same submissions are charged no more.
LEMMA ChargeShrinks ==
  ASSUME NEW S, IsFiniteSet(S), NEW T, T \subseteq S, NEW sub, NEW r \in Resources,
         \A j \in S : sub[j] \in Submissions
  PROVE  /\ ChargeOf(sub, T, r) \in Nat /\ ChargeOf(sub, S, r) \in Nat
         /\ ChargeOf(sub, T, r) <= ChargeOf(sub, S, r)
<1> DEFINE w == Charges(sub, S, r)
           u == Charges(sub, T, r)
<1>1. IsFiniteSet(T)
  BY FS_Subset
<1>2. w \in [S -> Nat] /\ \E F : IsSum(F, w, S) /\ ChargeOf(sub, S, r) = F[S]
  BY ChargesAdd
<1>3. u \in [T -> Nat] /\ \E F : IsSum(F, u, T) /\ ChargeOf(sub, T, r) = F[T]
  BY <1>1, ChargesAdd
<1>4. \A x \in T : w[x] = u[x]
  BY DEF Charges
<1> HIDE DEF w, u
<1>5. PICK F : IsSum(F, w, S) /\ ChargeOf(sub, S, r) = F[S]
  BY <1>2
<1>6. PICK G : IsSum(G, u, T) /\ ChargeOf(sub, T, r) = G[T]
  BY <1>3
<1>7. F[T] = G[T]
  BY <1>1, <1>4, <1>5, <1>6, AddsAgree
<1>8. F[T] <= F[S] /\ F[T] \in Nat /\ F[S] \in Nat
  BY <1>2, <1>5, AddsLess DEF IsSum
<1> QED BY <1>5, <1>6, <1>7, <1>8

\* A new job adds its own charge to that of the others.
LEMMA ChargeGrows ==
  ASSUME NEW S, IsFiniteSet(S), NEW j, j \notin S, NEW sub, NEW new, NEW r \in Resources,
         \A i \in S : sub[i] \in Submissions /\ new[i] = sub[i], new[j] \in Submissions
  PROVE  ChargeOf(new, S \cup {j}, r) = Charge(new[j].spec, r) + ChargeOf(sub, S, r)
<1> DEFINE T == S \cup {j}
           w == Charges(new, T, r)
           u == Charges(sub, S, r)
<1>1. IsFiniteSet(T) /\ \A i \in T : new[i] \in Submissions
  BY FS_AddElement
<1>2. w \in [T -> Nat] /\ \E F : IsSum(F, w, T) /\ ChargeOf(new, T, r) = F[T]
  <2> HIDE DEF T
  <2> QED BY <1>1, ChargesAdd
<1>3. u \in [S -> Nat] /\ \E F : IsSum(F, u, S) /\ ChargeOf(sub, S, r) = F[S]
  BY ChargesAdd
<1>4. (\A x \in S : w[x] = u[x]) /\ w[j] = Charge(new[j].spec, r)
  BY DEF Charges
<1>5. T \ {j} = S /\ j \in T /\ S \subseteq T
  OBVIOUS
<1> HIDE DEF w, u, T
<1>6. PICK F : IsSum(F, w, T) /\ ChargeOf(new, T, r) = F[T]
  BY <1>2
<1>7. PICK G : IsSum(G, u, S) /\ ChargeOf(sub, S, r) = G[S]
  BY <1>3
<1>8. F[S] = G[S]
  BY <1>4, <1>5, <1>6, <1>7, AddsAgree
<1>9. F[T] = w[j] + F[T \ {j}]
  BY <1>5, <1>6 DEF IsSum
<1>10. ChargeOf(new, T, r) = Charge(new[j].spec, r) + ChargeOf(sub, S, r)
  BY <1>4, <1>5, <1>6, <1>7, <1>8, <1>9
<1> QED BY <1>10 DEF T

\* The model's sum is the one of the lemmas, before and after a step.
LEMMA ChargedTotal ==
  ASSUME NEW r
  PROVE  /\ Charged(Holding, r) = ChargeOf(submission, Holding, r)
         /\ Charged(Holding, r)' = ChargeOf(submission', Holding', r)
  BY DEF Charged, ChargeOf, MapThenSumSet, MapThenFoldSet

\* A step that accepts no job releases capacity at most.
LEMMA BudgetKept ==
  ASSUME BudgetInv, JobTypeOK, UNCHANGED submission, Holding' \subseteq Holding,
         \A j \in Jobs : state'[j] # "absent" => state[j] # "absent"
  PROVE  BudgetInv'
<1>1. IsFiniteSet(Holding')
  BY FS_Subset DEF BudgetInv
<1>2. \A j \in Holding : submission[j] \in Submissions
  BY DEF BudgetInv, Holding, In, Live, JobTypeOK
<1>3. \A j \in Jobs : state'[j] # "absent" => submission'[j] \in Submissions
  BY DEF BudgetInv
<1>4. Cardinality(Holding') <= MaxJobs
  <2>1. Cardinality(Holding') <= Cardinality(Holding) /\ Cardinality(Holding) <= MaxJobs
    BY FS_Subset DEF BudgetInv, WithinBudget
  <2>2. Cardinality(Holding') \in Nat /\ Cardinality(Holding) \in Nat /\ MaxJobs \in Nat
    BY <1>1, FS_CardinalityType, JobJournalAssumption DEF BudgetInv
  <2> QED BY <2>1, <2>2
<1>5. ASSUME NEW r \in Resources PROVE Charged(Holding, r)' <= Budget(r)
  <2>1. /\ ChargeOf(submission, Holding', r) \in Nat /\ ChargeOf(submission, Holding, r) \in Nat
        /\ ChargeOf(submission, Holding', r) <= ChargeOf(submission, Holding, r)
    BY <1>2, ChargeShrinks DEF BudgetInv
  <2>2. Charged(Holding, r) <= Budget(r) /\ Budget(r) \in Nat
    BY BudgetAssumption DEF BudgetInv, WithinBudget
  <2>3. /\ Charged(Holding, r) = ChargeOf(submission, Holding, r)
        /\ Charged(Holding, r)' = ChargeOf(submission, Holding', r)
    BY ChargedTotal
  <2> QED BY <2>1, <2>2, <2>3
<1> QED BY <1>1, <1>3, <1>4, <1>5 DEF BudgetInv, WithinBudget

\* accept_job_inner admits a job only where its charge still fits.
LEMMA BudgetAccepts ==
  ASSUME NEW j \in Jobs, NEW s \in Submissions, BudgetInv, JobTypeOK, AcceptJob(j, s)
  PROVE  BudgetInv'
<1>1. /\ state'[j] = "accepted" /\ submission'[j] = s
      /\ \A i \in Jobs \ {j} : submission'[i] = submission[i]
           /\ state'[i] = IF i \in PurgedTombstones THEN "purged" ELSE state[i]
  BY DEF AcceptJob, Purged, JobTypeOK
<1>2. j \notin Holding
  BY DEF AcceptJob, Holding, In, Live, JobTypeOK
<1>3. Holding' = Holding \cup {j}
  BY <1>1 DEF AcceptJob, Holding, In, Live, PurgedTombstones, JobTypeOK
<1>4. IsFiniteSet(Holding) /\ IsFiniteSet(Holding')
  BY <1>3, FS_AddElement DEF BudgetInv
<1>5. \A i \in Holding : submission[i] \in Submissions /\ submission'[i] = submission[i]
  BY <1>1, <1>2 DEF BudgetInv, Holding, In, Live, JobTypeOK
<1>6. \A i \in Jobs : state'[i] # "absent" => submission'[i] \in Submissions
  BY <1>1 DEF BudgetInv, PurgedTombstones, In
<1>7. Cardinality(Holding') <= MaxJobs
  <2>1. Cardinality(Holding') = Cardinality(Holding) + 1
    BY <1>2, <1>3, <1>4, FS_AddElement
  <2>2. Cardinality(Holding) \in Nat /\ Cardinality(Holding) < MaxJobs /\ MaxJobs \in Nat
    BY <1>4, FS_CardinalityType, JobJournalAssumption DEF AcceptJob, BudgetAdmits
  <2> QED BY <2>1, <2>2
<1>8. ASSUME NEW r \in Resources PROVE Charged(Holding, r)' <= Budget(r)
  <2>1. ChargeOf(submission', Holding \cup {j}, r)
           = Charge(submission'[j].spec, r) + ChargeOf(submission, Holding, r)
    BY <1>1, <1>2, <1>4, <1>5, ChargeGrows
  <2>2. Charged(Holding, r) + Charge(s.spec, r) <= Budget(r) /\ Budget(r) \in Nat
    BY BudgetAssumption DEF AcceptJob, BudgetAdmits
  <2>3. /\ Charged(Holding, r) = ChargeOf(submission, Holding, r)
        /\ Charged(Holding, r)' = ChargeOf(submission', Holding', r)
    BY ChargedTotal
  <2>4. ChargeOf(submission, Holding, r) \in Nat
    BY <1>4, <1>5, ChargeShrinks
  <2>5. Charge(s.spec, r) \in Nat
    BY BudgetAssumption DEF Submissions
  <2> QED BY <1>1, <1>3, <2>1, <2>2, <2>3, <2>4, <2>5
<1> QED BY <1>4, <1>6, <1>7, <1>8 DEF BudgetInv, WithinBudget

\* Every transaction keeps what holds capacity within the budget: a claim and a
\* bind turn one way of holding it into the other.
LEMMA BudgetTransaction ==
  ASSUME JournalInv, BudgetInv, [Transaction]_journalVars
  PROVE  BudgetInv'
<1> USE DEF JournalInv
<1>1. ASSUME NEW j \in Jobs, JobTransaction(j), ~ \E s \in Submissions : AcceptJob(j, s)
      PROVE  /\ UNCHANGED submission /\ Holding' \subseteq Holding
             /\ \A i \in Jobs : state'[i] # "absent" => state[i] # "absent"
  <2>1. CASE \E v \in Vms : BindJobVmWithLease(j, v)
    BY <2>1 DEF BindJobVmWithLease, BindAllowed, Holding, In, Live, Visible, JobTypeOK
  <2>2. CASE \E o \in Terminal, c \in Collections, m \in Receipts \cup {NoReceipt} :
               Decide(j, o, c, m)
    BY <2>2 DEF Decide, Undecided, Holding, In, Live, Terminal, Commanded, HostFailed, JobTypeOK
  <2>3. CASE ReplaySubmission(j)
    BY <2>3 DEF ReplaySubmission, Purged, PurgedTombstones, Holding, In, Live, JobTypeOK
  <2>4. CASE ClaimJobVm(j) \/ MarkJobRunning(j)
    BY <2>4 DEF ClaimJobVm, MarkJobRunning, RunAllowed, Holding, In, Live, JobTypeOK
  <2>5. CASE ConfirmJobCleanup(j) \/ ConfirmUnallocatedJobCleanup(j)
    BY <2>5 DEF ConfirmJobCleanup, ConfirmUnallocatedJobCleanup, Holding, In
  <2>6. CASE DeleteJobEvidence(j)
    BY <2>6 DEF DeleteJobEvidence, DeleteAllowed, Holding, In, Live, Terminal, Commanded,
        HostFailed, JobTypeOK
  <2>7. CASE AppendJobEvents(j) \/ (\E m \in Receipts : StageJobManifest(j, m))
               \/ \E v \in Vms : RecordJobLeasedPrebackendAbort(j, v)
    BY <2>7 DEF AppendJobEvents, StageJobManifest, RecordJobLeasedPrebackendAbort, Holding, In
  <2> QED BY <1>1, <2>1, <2>2, <2>3, <2>4, <2>5, <2>6, <2>7 DEF JobTransaction
<1>2. CASE \E j \in Jobs : \E s \in Submissions : AcceptJob(j, s)
  BY <1>2, BudgetAccepts
<1>3. CASE \E j \in Jobs : JobTransaction(j) /\ ~ \E s \in Submissions : AcceptJob(j, s)
  BY <1>1, <1>3, BudgetKept
<1>4. CASE UNCHANGED <<state, submission, cleanup_pending>>
  <2>1. Holding' \subseteq Holding
    BY <1>4 DEF Holding, In
  <2> QED BY <1>4, <2>1, BudgetKept
<1> QED
  BY <1>2, <1>3, <1>4 DEF Transaction, RecordJobVmDestruction, Tick, journalVars, jobVars

\* The empty journal holds nothing.
LEMMA BudgetStarts == JournalInit => BudgetInv
<1> SUFFICES ASSUME JournalInit PROVE BudgetInv
  OBVIOUS
<1>1. Holding = {}
  BY DEF JournalInit, JobInit, Holding, In, Live
<1>2. IsFiniteSet(Holding) /\ Cardinality(Holding) <= MaxJobs
  BY <1>1, FS_EmptySet, JobJournalAssumption
<1>3. ASSUME NEW r \in Resources PROVE Charged(Holding, r) <= Budget(r)
  <2>1. ChargeOf(submission, {}, r) = 0
    <3>1. PICK F : IsSum(F, Charges(submission, {}, r), {}) /\ ChargeOf(submission, {}, r) = F[{}]
      BY FS_EmptySet, ChargesAdd
    <3> QED BY <3>1 DEF IsSum
  <2>2. Charged(Holding, r) = ChargeOf(submission, Holding, r)
    BY ChargedTotal
  <2>3. Budget(r) \in Nat
    BY BudgetAssumption
  <2> QED BY <1>1, <2>1, <2>2, <2>3
<1> QED BY <1>2, <1>3 DEF BudgetInv, WithinBudget, JournalInit, JobInit

\* Whatever has been accepted and not been released stays within max_jobs and
\* the configured budget, the terminal jobs included whose VM may still exist.
THEOREM CapacityHolds == JournalSpec => []WithinBudget
<1>1. JournalInv /\ BudgetInv /\ [StoreNext]_journalVars => BudgetInv'
  BY StoreStepsTransact, BudgetTransaction
<1>2. BudgetInv => WithinBudget
  BY DEF BudgetInv
<1> QED BY <1>1, <1>2, BudgetStarts, JournalInvariant, PTL DEF JournalSpec
=============================================================================
