----------------------------- MODULE HostLeases -----------------------------
(***************************************************************************)
(* Creation leases, VM rows and the vsock CID allocator of the state store *)
(* (crates/husker-state/src/lib.rs, boot_epoch.rs).                        *)
(*                                                                         *)
(* A VM generation (a fresh UUID) is first a creation lease, which owns a  *)
(* CID before any host work starts, and then either a row of `vms` (the    *)
(* lease is transferred) or nothing (the lease is released and the CID     *)
(* freed).  Every method is one immediate SQLite transaction, so every     *)
(* action below is one atomic step; a refused call changes nothing and is  *)
(* not an action.  TAP names and guest addresses of a lease follow its CID *)
(* and are not kept apart from it.                                         *)
(***************************************************************************)
EXTENDS Naturals, FiniteSets

CONSTANTS
    Vms,         \* VM generations (UUIDs); one is never planned twice
    Names,       \* VM names
    NoName,
    Hosts,       \* machines the database file may be opened on
    NoIdentity,  \* boot_epoch::current() could not read an identity
    Bases,       \* configured values of cid_base
    MaxCid,      \* bound: CIDs the allocator hands out are below it
    MaxBoot      \* bound: times each host reboots

FirstCid == 3    \* CIDs 0-2 are reserved by vsock

Identity == [host : Hosts, boot : Nat]

ASSUME HostLeasesAssumption ==
    /\ NoName \notin Names
    /\ NoIdentity \notin Identity
    /\ Bases \subseteq Nat
    /\ MaxCid \in Nat
    /\ MaxBoot \in Nat

VARIABLES
    next_cid,         \* cid_allocator.next_cid
    freed_cids,       \* table freed_cids
    leases,           \* rows of host_resource_leases, by planned vm_id
    vms,              \* rows of vms
    used,             \* history: every generation ever planned
    cid,              \* vsock_cid of a lease or VM row, 0 without one
    vm_name,          \* vm_name of a lease or VM row
    backend_entered,  \* leases with backend_entered = 1
    lease_destroyed,  \* leases with vm_destroyed = 1
    lease_aborted,    \* leases with allocation_aborted = 1
    epoch,            \* creation_lease_boot_epochs: (host_id, boot_id)
    confirmed,        \* epochs with confirmed = 1
    entered_at,       \* history: where and in which boot a backend was entered
    cid_base,         \* history: base of the last ensure_cid_base
    here,             \* the machine the daemon runs on
    boot_of           \* the current boot of every machine

cidVars  == <<next_cid, freed_cids, cid_base>>
rowVars  == <<leases, vms, used, cid, vm_name>>
flagVars == <<backend_entered, lease_destroyed, lease_aborted, epoch,
              confirmed, entered_at>>
hostVars == <<here, boot_of>>
leaseVars == <<cidVars, rowVars, flagVars, hostVars>>

LeaseTypeOK ==
    /\ next_cid \in Nat
    /\ freed_cids \subseteq Nat
    /\ leases \subseteq Vms
    /\ vms \subseteq Vms
    /\ used \subseteq Vms
    /\ cid \in [Vms -> Nat]
    /\ vm_name \in [Vms -> Names \cup {NoName}]
    /\ backend_entered \subseteq Vms
    /\ lease_destroyed \subseteq Vms
    /\ lease_aborted \subseteq Vms
    /\ epoch \in [Vms -> Identity \cup {NoIdentity}]
    /\ confirmed \subseteq Vms
    /\ entered_at \in [Vms -> Identity \cup {NoIdentity}]
    /\ cid_base \in Nat
    /\ here \in Hosts
    /\ boot_of \in [Hosts -> Nat]
    \* flags and boot evidence belong to a lease row
    /\ backend_entered \cup lease_destroyed \cup lease_aborted \cup confirmed
         \subseteq leases
    /\ leases \cup vms \subseteq used

LeaseInit ==
    /\ next_cid = FirstCid
    /\ freed_cids = {}
    /\ leases = {} /\ vms = {} /\ used = {}
    /\ cid = [v \in Vms |-> 0]
    /\ vm_name = [v \in Vms |-> NoName]
    /\ backend_entered = {} /\ lease_destroyed = {} /\ lease_aborted = {}
    /\ epoch = [v \in Vms |-> NoIdentity]
    /\ confirmed = {}
    /\ entered_at = [v \in Vms |-> NoIdentity]
    /\ cid_base = FirstCid
    /\ here \in Hosts
    /\ boot_of = [h \in Hosts |-> 0]

\* Identity of the running kernel, when it can be read at all.
Current == [host |-> here, boot |-> boot_of[here]]
Readings == {Current, NoIdentity}

-----------------------------------------------------------------------------
(* The allocator: the lowest freed CID first, else the counter.            *)

LowestFreed(c) == c \in freed_cids /\ \A d \in freed_cids : c <= d

\* Mutant: a freed CID is handed out but stays in the free list.
PickCidKeepFreed(c) ==
    \/ LowestFreed(c) /\ UNCHANGED <<freed_cids, next_cid>>
    \/ /\ freed_cids = {} /\ c = next_cid /\ c < MaxCid
       /\ next_cid' = next_cid + 1
       /\ UNCHANGED freed_cids

PickCid(c) ==
    \/ LowestFreed(c) /\ freed_cids' = freed_cids \ {c} /\ UNCHANGED next_cid
    \/ /\ freed_cids = {} /\ c = next_cid /\ c < MaxCid
       /\ next_cid' = next_cid + 1
       /\ UNCHANGED freed_cids

\* insert_host_resource_lease: vm_name is UNIQUE among leases, and the boot in
\* which the lease is planned is observed when it is readable.
InsertLease(v, name, reading) ==
    /\ v \notin used
    /\ \A w \in leases : vm_name[w] # name
    /\ \E c \in freed_cids \cup {next_cid} :
          PickCid(c) /\ cid' = [cid EXCEPT ![v] = c]
    /\ leases' = leases \cup {v}
    /\ used' = used \cup {v}
    /\ vm_name' = [vm_name EXCEPT ![v] = name]
    /\ epoch' = [epoch EXCEPT ![v] = reading]
    /\ UNCHANGED <<vms, backend_entered, lease_destroyed, lease_aborted,
                   confirmed, entered_at, cid_base, hostVars>>

BeginLease(v, name) == \E r \in Readings : InsertLease(v, name, r)

-----------------------------------------------------------------------------
(* Entering the backend: from here on a process may exist.                 *)

\* Mutant: an aborted lease may still enter.
EntryEligibleAborted(v) ==
    v \in leases /\ v \notin backend_entered \cup lease_destroyed

EntryEligible(v) ==
    /\ v \in leases
    /\ v \notin backend_entered \cup lease_destroyed \cup lease_aborted

\* Mutant: the stale baseline survives an entry whose boot is unreadable.
PrepareEntryKeepBaseline(v, reading) ==
    /\ v \notin confirmed
    /\ epoch[v] # NoIdentity /\ reading # NoIdentity => epoch[v] = reading
    /\ epoch' = [epoch EXCEPT ![v] = IF reading = NoIdentity THEN @ ELSE reading]

\* boot_epoch::prepare_entry_on: a lease from an earlier boot is refused, and
\* an unreadable identity revokes the baseline.
PrepareEntry(v, reading) ==
    /\ v \notin confirmed
    /\ epoch[v] # NoIdentity /\ reading # NoIdentity => epoch[v] = reading
    /\ epoch' = [epoch EXCEPT ![v] = reading]

EnterBackend(v) ==
    /\ EntryEligible(v)
    /\ \E r \in Readings : PrepareEntry(v, r)
    /\ backend_entered' = backend_entered \cup {v}
    /\ entered_at' = [entered_at EXCEPT ![v] = Current]
    /\ UNCHANGED <<cidVars, rowVars, lease_destroyed, lease_aborted,
                   confirmed, hostVars>>

\* confirm_lease_reboot_on: same machine, different boot, entered lease.
RebootProven(v, reading) ==
    /\ v \in leases \cap backend_entered
    /\ epoch[v] # NoIdentity /\ reading # NoIdentity
    /\ reading.host = epoch[v].host
    /\ reading.boot # epoch[v].boot

ConfirmReboot(v) ==
    /\ \E r \in Readings : RebootProven(v, r)
    /\ confirmed' = confirmed \cup {v}
    /\ UNCHANGED <<cidVars, rowVars, backend_entered, lease_destroyed,
                   lease_aborted, epoch, entered_at, hostVars>>

RecordLeaseDestruction(v) ==
    /\ v \in leases \cap backend_entered
    /\ lease_destroyed' = lease_destroyed \cup {v}
    /\ UNCHANGED <<cidVars, rowVars, backend_entered, lease_aborted, epoch,
                   confirmed, entered_at, hostVars>>

-----------------------------------------------------------------------------
(* The end of a lease: transferred to a VM row, or released.               *)

\* Mutant: without the cascade the reboot receipt outlives its lease.
DeleteLeaseRowNoCascade(v) ==
    /\ leases' = leases \ {v}
    /\ backend_entered' = backend_entered \ {v}
    /\ lease_destroyed' = lease_destroyed \ {v}
    /\ lease_aborted' = lease_aborted \ {v}
    /\ UNCHANGED <<confirmed, epoch>>

\* The lease row is deleted and its boot evidence with it (ON DELETE CASCADE).
DeleteLeaseRow(v) ==
    /\ leases' = leases \ {v}
    /\ backend_entered' = backend_entered \ {v}
    /\ lease_destroyed' = lease_destroyed \ {v}
    /\ lease_aborted' = lease_aborted \ {v}
    /\ confirmed' = confirmed \ {v}
    /\ epoch' = [epoch EXCEPT ![v] = NoIdentity]

\* The generation gives its CID back and is no row's identity any more.
FreeCid(v) ==
    /\ freed_cids' = freed_cids \cup {cid[v]}
    /\ cid' = [cid EXCEPT ![v] = 0]
    /\ vm_name' = [vm_name EXCEPT ![v] = NoName]

\* commit_vm_from_host_resource_lease; vms.name is UNIQUE.
CommitVm(v) ==
    /\ v \in leases \cap backend_entered
    /\ v \notin lease_destroyed
    /\ \A w \in vms : vm_name[w] # vm_name[v]
    /\ vms' = vms \cup {v}
    /\ DeleteLeaseRow(v)
    /\ UNCHANGED <<cidVars, used, cid, vm_name, entered_at, hostVars>>

ReleaseAllowed(v) ==
    /\ v \in leases
    /\ v \in backend_entered => v \in lease_destroyed \cup confirmed

ReleaseLease(v) ==
    /\ ReleaseAllowed(v)
    /\ FreeCid(v)
    /\ DeleteLeaseRow(v)
    /\ UNCHANGED <<next_cid, cid_base, vms, used, entered_at, hostVars>>

\* retire_vm (templates of a pool are refused there; pools are not modelled).
RetireVm(v) ==
    /\ v \in vms
    /\ vms' = vms \ {v}
    /\ FreeCid(v)
    /\ UNCHANGED <<next_cid, cid_base, leases, used, flagVars, hostVars>>

-----------------------------------------------------------------------------
(* Daemon start-up and the machine below.                                  *)

EnsureCidBase(b) ==
    LET base == IF b < FirstCid THEN FirstCid ELSE b
    IN  /\ freed_cids' = {c \in freed_cids : c >= base}
        /\ next_cid' = IF next_cid < base THEN base ELSE next_cid
        /\ cid_base' = base
        /\ UNCHANGED <<rowVars, flagVars, hostVars>>

\* StateStore::open on machine h: leases without boot evidence are observed in
\* the boot of that machine, when it is readable.
OpenStore(h) ==
    /\ here' = h
    /\ \E r \in {[host |-> h, boot |-> boot_of[h]], NoIdentity} :
          epoch' = [v \in Vms |-> IF v \in leases /\ epoch[v] = NoIdentity
                                  THEN r ELSE epoch[v]]
    /\ UNCHANGED <<cidVars, rowVars, backend_entered, lease_destroyed,
                   lease_aborted, confirmed, entered_at, boot_of>>

Reboot(h) ==
    /\ boot_of[h] < MaxBoot
    /\ boot_of' = [boot_of EXCEPT ![h] = @ + 1]
    /\ UNCHANGED <<cidVars, rowVars, flagVars, here>>

EnvironmentStep ==
    \/ \E b \in Bases : EnsureCidBase(b)
    \/ \E h \in Hosts : OpenStore(h) \/ Reboot(h)

LeaseStep(v) ==
    \/ EnterBackend(v)
    \/ ConfirmReboot(v)
    \/ RecordLeaseDestruction(v)
    \/ CommitVm(v)
    \/ ReleaseLease(v)
    \/ RetireVm(v)

LeaseNext ==
    \/ \E v \in Vms : LeaseStep(v) \/ \E n \in Names : BeginLease(v, n)
    \/ EnvironmentStep

LeaseSpec == LeaseInit /\ [][LeaseNext]_leaseVars

-----------------------------------------------------------------------------
(* Properties.                                                             *)

Owners == leases \cup vms

\* A CID has one owner: no two leases or VM rows share one, none of them is in
\* the free list or still to be handed out by the counter, and a generation is
\* never a lease and a VM at once.  (insert_host_resource_lease,
\* commit_vm_from_host_resource_lease, release_host_resource_lease, retire_vm
\* and ensure_cid_base all move CIDs between these places.)
CidOwnedOnce ==
    /\ leases \cap vms = {}
    /\ FirstCid <= next_cid
    /\ \A v \in Owners : FirstCid <= cid[v] /\ cid[v] < next_cid
                           /\ cid[v] \notin freed_cids
    /\ \A v, w \in Owners : cid[v] = cid[w] => v = w
    /\ \A c \in freed_cids : FirstCid <= c /\ c < next_cid

\* A reboot receipt is sound: the machine on which the backend was entered has
\* rebooted since, so the allocation cannot be alive.  Evidence that
\* StateStore::open wrote on another machine for an entry without evidence is
\* the one exception (see EveryRebootReceiptSound).
RebootReceiptSound ==
    \A v \in confirmed :
        epoch[v].host = entered_at[v].host
          => entered_at[v].boot < boot_of[entered_at[v].host]

\* boot_epoch.rs says of the receipt: "Missing identity, another host, and a
\* daemon restart in the same boot never authorize resource release."
EveryRebootReceiptSound ==
    \A v \in confirmed : entered_at[v].boot < boot_of[entered_at[v].host]

\* ensure_cid_base says that the allocator "cannot hand out a CID outside the
\* intended range" once the floor is raised.
LeasedAboveBase ==
    [][\A v \in leases' \ leases : cid'[v] >= cid_base]_leaseVars
=============================================================================
