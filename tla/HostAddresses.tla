---------------------------- MODULE HostAddresses ---------------------------
(***************************************************************************)
(* Who owns a guest address: the in-memory IpAllocator of husker-net, the   *)
(* creation leases and VM rows that name an address durably, and the orders *)
(* in which creation, rollback, destruction, reclamation, a crash and the   *)
(* next start move it between them.                                         *)
(***************************************************************************)
EXTENDS Integers, FiniteSets

CONSTANTS
  HaVms,         \* VMs (creations, forks) that may exist at once
  HaMaxIndex,    \* IpAllocator.max_index: the subnet's usable addresses
  HaMaxAllocs,   \* bound on allocations
  HaMaxCrashes   \* bound on crashes

ASSUME HaAssumption == HaMaxIndex \in Nat \ {0}

VARIABLES
  haAlloc,    \* AllocatorState: next_index, freed, reserved
  haLease,    \* the address a creation lease names, or HaNone
  haRow,      \* the address a VM row names, or HaNone
  haHeld,     \* the address a running creation holds in memory
  haTask,     \* what the VM's task is doing
  haDaemon,   \* "up", "down" or "refused": startup bailed out
  haCount,    \* allocations and crashes so far
  haTorn      \* addresses handed out again while a row still named them

haVars == <<haAlloc, haLease, haRow, haHeld, haTask, haDaemon, haCount, haTorn>>

HaNone == -1
HaIndexes == 0..(HaMaxIndex - 1)
HaFresh == [next |-> 0, freed |-> {}, reserved |-> {}]

HaInit ==
  /\ haAlloc = HaFresh
  /\ haLease = [v \in HaVms |-> HaNone] /\ haRow = haLease /\ haHeld = haLease
  /\ haTask = [v \in HaVms |-> "idle"]
  /\ haDaemon = "up" /\ haCount = [allocs |-> 0, crashes |-> 0] /\ haTorn = {}

HaLeast(S) == CHOOSE i \in S : \A j \in S : i <= j

(***************************************************************************)
(* IpAllocator.                                                             *)
(***************************************************************************)

HaFreshOnes(a) == (a.next..(HaMaxIndex - 1)) \ a.reserved

\* What allocate would hand out: a freed address first, else the next fresh one.
HaOffer(a) == IF a.freed # {} THEN HaLeast(a.freed)
              ELSE IF HaFreshOnes(a) # {} THEN HaLeast(HaFreshOnes(a))
              ELSE HaNone

\* Advancing past reserved addresses consumes their reservation: they lie
\* below the high-water mark from then on.
HaAllocated(a) ==
  LET i == HaOffer(a) IN
  IF a.freed # {} THEN [a EXCEPT !.freed = @ \ {i}]
  ELSE [a EXCEPT !.next = i + 1, !.reserved = {r \in @ : r > i}]

\* release: whether it is accepted, and what it leaves.
HaReleasable(a, i) == IF i < a.next THEN i \notin a.freed ELSE i \in a.reserved
HaReleased(a, i) ==
  IF ~HaReleasable(a, i) THEN a
  ELSE IF i < a.next THEN [a EXCEPT !.freed = @ \union {i}]
  ELSE [a EXCEPT !.reserved = @ \ {i}]

HaReserved(a, i) == IF i < a.next THEN [a EXCEPT !.freed = @ \ {i}]
                    ELSE [a EXCEPT !.reserved = @ \union {i}]

\* Every address allocate could still hand out.
HaFree(a) == a.freed \union HaFreshOnes(a)

(***************************************************************************)
(* Creation (create_vm and fork_vm), up to the commit of the row.           *)
(***************************************************************************)

HaMem == <<haLease, haRow>>

HaAllocate(v) ==
  /\ haDaemon = "up" /\ haTask[v] = "idle" /\ haLease[v] = HaNone /\ haRow[v] = HaNone
  /\ haCount.allocs < HaMaxAllocs /\ HaOffer(haAlloc) # HaNone
  /\ haAlloc' = HaAllocated(haAlloc)
  /\ haHeld' = [haHeld EXCEPT ![v] = HaOffer(haAlloc)]
  /\ haTask' = [haTask EXCEPT ![v] = "allocated"]
  /\ haCount' = [haCount EXCEPT !.allocs = @ + 1]
  /\ haTorn' = IF \E w \in HaVms : haRow[w] = HaOffer(haAlloc)
               THEN haTorn \union {HaOffer(haAlloc)} ELSE haTorn
  /\ UNCHANGED <<HaMem, haDaemon>>

\* begin_host_resource_lease and set_host_resource_lease_network.
HaLeaseAddress(v) ==
  /\ haDaemon = "up" /\ haTask[v] = "allocated"
  /\ haLease' = [haLease EXCEPT ![v] = haHeld[v]]
  /\ haTask' = [haTask EXCEPT ![v] = "leased"]
  /\ UNCHANGED <<haAlloc, haRow, haHeld, haDaemon, haCount, haTorn>>

\* The row is inserted and the lease completed in one transaction.
HaCommit(v) ==
  /\ haDaemon = "up" /\ haTask[v] = "leased"
  /\ haRow' = [haRow EXCEPT ![v] = haLease[v]]
  /\ haLease' = [haLease EXCEPT ![v] = HaNone]
  /\ haHeld' = [haHeld EXCEPT ![v] = HaNone]
  /\ haTask' = [haTask EXCEPT ![v] = "idle"]
  /\ UNCHANGED <<haAlloc, haDaemon, haCount, haTorn>>

\* Mutant: the rollback returns the address while the lease still names it.
HaRollbackAddressFirst(v) ==
  /\ haDaemon = "up" /\ haTask[v] \in {"allocated", "leased"}
  /\ haTask' = [haTask EXCEPT ![v] = "returning"]
  /\ haAlloc' = HaReleased(haAlloc, haHeld[v])
  /\ UNCHANGED <<haLease, haRow, haHeld, haDaemon, haCount, haTorn>>

\* Rollback releases the durable owner first ...
HaRollback(v) ==
  /\ haDaemon = "up" /\ haTask[v] \in {"allocated", "leased"}
  /\ haLease' = [haLease EXCEPT ![v] = HaNone]
  /\ haTask' = [haTask EXCEPT ![v] = "returning"]
  /\ UNCHANGED <<haAlloc, haRow, haHeld, haDaemon, haCount, haTorn>>

\* ... and then the address; NotAllocated is tolerated.
HaReturn(v) ==
  /\ haDaemon = "up" /\ haTask[v] = "returning"
  /\ haAlloc' = HaReleased(haAlloc, haHeld[v])
  /\ haHeld' = [haHeld EXCEPT ![v] = HaNone]
  /\ haTask' = [haTask EXCEPT ![v] = "idle"]
  /\ UNCHANGED <<haLease, haRow, haDaemon, haCount, haTorn>>

\* Kernel cleanup failed: the lease is kept for recovery, address and all.
HaRollbackFails(v) ==
  /\ haDaemon = "up" /\ haTask[v] = "leased"
  /\ haHeld' = [haHeld EXCEPT ![v] = HaNone]
  /\ haTask' = [haTask EXCEPT ![v] = "stuck"]
  /\ UNCHANGED <<haAlloc, haLease, haRow, haDaemon, haCount, haTorn>>

(***************************************************************************)
(* release_vm_host_network, called by destroy_vm and by the reclaimers: the *)
(* address is returned first and the row retired (or its fields cleared)    *)
(* afterwards.  A release the allocator refuses keeps the row.              *)
(***************************************************************************)

HaReleaseRow(v) ==
  /\ haDaemon = "up" /\ haTask[v] \in {"idle", "retained"} /\ haRow[v] # HaNone
  /\ HaReleasable(haAlloc, haRow[v])
  /\ haAlloc' = HaReleased(haAlloc, haRow[v])
  /\ haTask' = [haTask EXCEPT ![v] = "retiring"]
  /\ UNCHANGED <<HaMem, haHeld, haDaemon, haCount, haTorn>>

HaRetire(v) ==
  /\ haDaemon = "up" /\ haTask[v] = "retiring"
  /\ haRow' = [haRow EXCEPT ![v] = HaNone]
  /\ haTask' = [haTask EXCEPT ![v] = "idle"]
  /\ UNCHANGED <<haAlloc, haLease, haHeld, haDaemon, haCount, haTorn>>

HaRetireFails(v) ==
  /\ haDaemon = "up" /\ haTask[v] = "retiring"
  /\ haTask' = [haTask EXCEPT ![v] = "retained"]
  /\ UNCHANGED <<haAlloc, HaMem, haHeld, haDaemon, haCount, haTorn>>

(***************************************************************************)
(* Crash and start.                                                         *)
(***************************************************************************)

HaCrash ==
  /\ haDaemon = "up" /\ haCount.crashes < HaMaxCrashes
  /\ haDaemon' = "down" /\ haAlloc' = HaFresh
  /\ haHeld' = [v \in HaVms |-> HaNone]
  /\ haTask' = [v \in HaVms |-> "idle"]
  /\ haCount' = [haCount EXCEPT !.crashes = @ + 1]
  /\ UNCHANGED <<HaMem, haTorn>>

HaDurable(i) == Cardinality({v \in HaVms : haRow[v] = i}) +
                Cardinality({v \in HaVms : haLease[v] = i})
HaLeased == {haLease[v] : v \in HaVms} \ {HaNone}
HaOwned == ({haRow[v] : v \in HaVms} \union HaLeased) \ {HaNone}

\* The allocator is seeded from the rows, then from the leases; a lease whose
\* address another durable owner names stops the start.
HaSeeded == [next |-> HaFresh.next, freed |-> HaFresh.freed,
             reserved |-> UNION {HaReserved(HaFresh, i).reserved : i \in HaOwned}]

HaStart ==
  /\ haDaemon = "down"
  /\ haDaemon' = IF \E i \in HaLeased : HaDurable(i) > 1 THEN "refused" ELSE "up"
  /\ haAlloc' = HaSeeded
  /\ haTask' = [v \in HaVms |-> IF haLease[v] # HaNone THEN "stuck" ELSE "idle"]
  /\ UNCHANGED <<HaMem, haHeld, haCount, haTorn>>

\* recover_one_host_resource_lease: never an address another owner names; the
\* lease goes before the address is returned.
HaRecover(v) ==
  /\ haDaemon = "up" /\ haTask[v] = "stuck" /\ haLease[v] # HaNone
  /\ HaDurable(haLease[v]) = 1
  /\ haLease' = [haLease EXCEPT ![v] = HaNone]
  /\ haHeld' = [haHeld EXCEPT ![v] = haLease[v]]
  /\ haTask' = [haTask EXCEPT ![v] = "returning"]
  /\ UNCHANGED <<haAlloc, haRow, haDaemon, haCount, haTorn>>

HaNext ==
  \/ \E v \in HaVms :
       \/ HaAllocate(v) \/ HaLeaseAddress(v) \/ HaCommit(v)
       \/ HaRollback(v) \/ HaReturn(v) \/ HaRollbackFails(v)
       \/ HaReleaseRow(v) \/ HaRetire(v) \/ HaRetireFails(v) \/ HaRecover(v)
  \/ HaCrash \/ HaStart

HaOwners(i) == {v \in HaVms : haRow[v] = i \/ haLease[v] = i \/
                              (haHeld[v] = i /\ haTask[v] # "returning")}
HaReturning(i) == \E v \in HaVms : haRow[v] = i /\ haTask[v] \in {"retiring", "retained"}

\* A guest address has one owner (row, lease or running creation), the running
\* allocator offers no address that has one, and a restart always finds the
\* durable owners distinct: except for an address whose row a destroy or a
\* reclaim has returned and not yet retired, and what that lets happen.
HaOwnedOnce ==
  /\ \A i \in HaIndexes \ haTorn :
       /\ Cardinality(HaOwners(i)) <= 1
       /\ haDaemon = "up" /\ HaOwners(i) # {} /\ ~HaReturning(i)
            => i \notin HaFree(haAlloc)
  /\ haDaemon = "refused" => haTorn # {}
=============================================================================
