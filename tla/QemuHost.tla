------------------------------ MODULE QemuHost ------------------------------
(***************************************************************************)
(* The Linux backends' bookkeeping for one VM: the dispatcher that routes  *)
(* a UUID to the backend that made it (husker-vmm/src/dispatch.rs), and    *)
(* the QEMU backend behind it (qemu.rs) with its file-system helpers, QMP  *)
(* connection (qmp.rs), cgroup (cgroup.rs) and stop contract               *)
(* (guest_stop.rs).  Creation and destruction of one VM are serialised by  *)
(* the core's name lock; stop, pause, resume and info are not.  Every      *)
(* creation and destruction may be cancelled at an await.                  *)
(***************************************************************************)
EXTENDS Naturals, FiniteSets

CONSTANTS
  QmShares,     \* host shares of the VM, one virtiofsd helper each
  QmRequests,   \* backend requirements callers present to the selector
  QmMaxCalls    \* bound on the calls explored

ASSUME QmShareAssumption == QmShares \in Nat

VARIABLES
  qmRoute,      \* the dispatcher's route of the UUID
  qmInst,       \* the QEMU backend's instance
  qmProcs,      \* processes alive: QmMain and the helpers' numbers
  qmCpu,        \* what QEMU does with the guest's CPUs
  qmMaker,      \* where create_vm stands
  qmCaller,     \* where each other call stands
  qmCalls

qmVars == <<qmRoute, qmInst, qmProcs, qmCpu, qmMaker, qmCaller, qmCalls>>

QmMain == 0          \* QEMU itself; helper n serves share n
QmCallers == {"destroy", "stop", "pause", "resume"}
QmNoInstance == [reg |-> FALSE, info |-> "none", child |-> FALSE, helpers |-> {},
                 files |-> FALSE, cgroup |-> FALSE]

QmInit ==
  /\ qmRoute = "none" /\ qmInst = QmNoInstance /\ qmProcs = {}
  /\ qmCpu = "halted" /\ qmMaker = "idle"
  /\ qmCaller = [c \in QmCallers |-> "idle"]
  /\ qmCalls = 0

-----------------------------------------------------------------------------
(* Selection. *)

\* select_vmm_kind: UEFI needs QEMU, EFI and macOS boots are refused, and an
\* unpinned direct boot with host shares takes QEMU.
QmSelect(r, default) ==
  CASE r.boot = "uefi" -> IF r.requested = "firecracker" THEN "refused" ELSE "qemu"
    [] r.boot \in {"efi", "macos"} -> "refused"
    [] r.requested = "none" /\ r.shares -> "qemu"
    [] r.requested = "none" -> default
    [] OTHER -> r.requested

\* build_args: an offline VM takes no TAP, and only direct and UEFI boots have
\* a command line; every other device follows the configuration.
QmBuildable(r) == ~(r.offline /\ r.tap) /\ r.boot \in {"direct", "uefi"}

-----------------------------------------------------------------------------
(* create_vm. *)

\* The route is recorded before the backend is entered.
QmRouteCreate ==
  /\ qmMaker = "idle" /\ qmCaller["destroy"] = "idle"
  /\ qmRoute = "none" /\ qmCalls < QmMaxCalls
  /\ \E r \in QmRequests : QmSelect(r, "firecracker") = "qemu"
  /\ qmRoute' = "qemu"
  /\ qmMaker' = "routed"
  /\ qmCalls' = qmCalls + 1
  /\ UNCHANGED <<qmInst, qmProcs, qmCpu, qmCaller>>

\* create: the arguments are built, the cgroup is made, and the instance is
\* registered before any file or child of it exists.
QmRegister ==
  /\ qmMaker = "routed"
  /\ \E r \in QmRequests : QmSelect(r, "firecracker") = "qemu" /\ QmBuildable(r)
  /\ ~qmInst.reg
  /\ qmInst' = [QmNoInstance EXCEPT !.reg = TRUE, !.info = "creating", !.cgroup = TRUE]
  /\ qmMaker' = "helpers"
  /\ UNCHANGED <<qmRoute, qmProcs, qmCpu, qmCaller, qmCalls>>

\* boot_tracked, one share: the helper is spawned and recorded in one step,
\* then its socket is awaited.
QmSpawnHelper ==
  /\ qmMaker = "helpers" /\ qmInst.reg
  /\ Cardinality(qmInst.helpers) < QmShares
  /\ LET n == Cardinality(qmInst.helpers) + 1 IN
     /\ qmInst' = [qmInst EXCEPT !.helpers = @ \cup {n}, !.files = TRUE]
     /\ qmProcs' = qmProcs \cup {n}
  /\ UNCHANGED <<qmRoute, qmCpu, qmMaker, qmCaller, qmCalls>>

\* boot_tracked, QEMU itself: capture and child are recorded with the spawn,
\* then the QMP socket is awaited.
QmSpawn ==
  /\ qmMaker = "helpers" /\ qmInst.reg
  /\ Cardinality(qmInst.helpers) = QmShares
  /\ qmInst' = [qmInst EXCEPT !.child = TRUE, !.files = TRUE]
  /\ qmProcs' = qmProcs \cup {QmMain}
  /\ qmCpu' = "running"
  /\ qmMaker' = "booting"
  /\ UNCHANGED <<qmRoute, qmCaller, qmCalls>>

QmBooted ==
  /\ qmMaker = "booting" /\ qmInst.reg
  /\ qmInst' = [qmInst EXCEPT !.info = "running"]
  /\ qmMaker' = "idle"
  /\ UNCHANGED <<qmRoute, qmProcs, qmCpu, qmCaller, qmCalls>>

\* Any step of the boot fails: the instance stays registered, failed.
QmBootFails ==
  /\ qmMaker \in {"routed", "helpers", "booting"}
  /\ qmInst' = IF qmInst.reg /\ qmMaker # "routed"
               THEN [qmInst EXCEPT !.info = "failed"] ELSE qmInst
  /\ qmMaker' = "idle"
  /\ UNCHANGED <<qmRoute, qmProcs, qmCpu, qmCaller, qmCalls>>

\* The caller's future is dropped between two steps.
QmCancelCreate ==
  /\ qmMaker # "idle"
  /\ qmMaker' = "idle"
  /\ UNCHANGED <<qmRoute, qmInst, qmProcs, qmCpu, qmCaller, qmCalls>>

-----------------------------------------------------------------------------
(* The processes themselves (external): a guest that powers off ends QEMU. *)

QmProcessExits(p) ==
  /\ p \in qmProcs
  /\ qmProcs' = qmProcs \ {p}
  /\ qmCpu' = IF p = QmMain THEN "halted" ELSE qmCpu
  /\ UNCHANGED <<qmRoute, qmInst, qmMaker, qmCaller, qmCalls>>

-----------------------------------------------------------------------------
(* destroy_vm and abort_create. *)

\* terminate_child: on success the child is reaped.  The stages of destroy, in
\* its order; each may fail and leaves the rest for the retry.  The map lock
\* is held throughout, so no other call sees the middle.
QmStages == <<"qemu", "helpers", "files", "cgroup", "done">>
QmGone(upto) == (IF upto >= 2 THEN {QmMain} ELSE {})
                \cup (IF upto >= 3 THEN 1..QmShares ELSE {})
QmDestroy(upto) ==
  /\ qmMaker = "idle" /\ qmCaller["destroy"] = "idle"
  /\ qmRoute = "qemu" /\ qmCalls < QmMaxCalls
  /\ qmCalls' = qmCalls + 1
  /\ IF ~qmInst.reg
     THEN /\ qmCaller' = [qmCaller EXCEPT !["destroy"] = "notfound"]
          /\ UNCHANGED <<qmInst, qmProcs, qmCpu>>
     ELSE /\ qmProcs' = qmProcs \ QmGone(upto)
          /\ qmCpu' = IF upto >= 2 THEN "halted" ELSE qmCpu
          /\ qmInst' = IF QmStages[upto] = "done" THEN QmNoInstance
                       ELSE [qmInst EXCEPT !.files = (upto < 4) /\ @]
          /\ qmCaller' = [qmCaller EXCEPT !["destroy"] =
                            IF QmStages[upto] = "done" THEN "ok" ELSE "failed"]
  /\ UNCHANGED <<qmRoute, qmMaker>>

\* Mutant: the route is dropped whatever the backend answered.
QmRouteKeptAlways(result) == FALSE

\* The dispatcher keeps the route of a destruction that failed.
QmRouteKept(result) == result = "failed"

\* An abort of an unrouted UUID is done at once; otherwise it is a destroy for
\* which "not found" is success.
QmUnroute ==
  /\ qmCaller["destroy"] \in {"ok", "notfound", "failed"}
  /\ qmRoute' = IF QmRouteKept(qmCaller["destroy"]) THEN qmRoute ELSE "none"
  /\ qmCaller' = [qmCaller EXCEPT !["destroy"] = "idle"]
  /\ UNCHANGED <<qmInst, qmProcs, qmCpu, qmMaker, qmCalls>>

\* The destroying future is dropped before it could clear the route.
QmCancelDestroy ==
  /\ qmCaller["destroy"] # "idle"
  /\ qmCaller' = [qmCaller EXCEPT !["destroy"] = "idle"]
  /\ UNCHANGED <<qmRoute, qmInst, qmProcs, qmCpu, qmMaker, qmCalls>>

-----------------------------------------------------------------------------
(* stop, info, pause, resume. *)

QmRouted == qmRoute = "qemu" /\ qmInst.reg

\* settle_stopped: the exit is recorded and the cgroup removed, which kills
\* every process still in it, the helpers included.
QmSettle ==
  /\ qmInst' = [qmInst EXCEPT !.info = "stopped", !.cgroup = FALSE]
  /\ qmProcs' = IF qmInst.cgroup THEN {} ELSE qmProcs
  /\ qmCpu' = "halted"

\* stop: an exited guest settles at once, a live one is asked over QMP.
QmStop ==
  /\ qmCaller["stop"] = "idle" /\ QmRouted /\ qmInst.child
  /\ qmCalls < QmMaxCalls
  /\ qmCalls' = qmCalls + 1
  /\ IF QmMain \in qmProcs
     THEN /\ qmCaller' = [qmCaller EXCEPT !["stop"] = "grace"]
          /\ UNCHANGED <<qmInst, qmProcs, qmCpu>>
     ELSE QmSettle /\ UNCHANGED qmCaller
  /\ UNCHANGED <<qmRoute, qmMaker>>

\* The grace is over, or QMP could not be asked: the child is killed.
QmStopKills ==
  /\ qmCaller["stop"] = "grace"
  /\ qmInst.reg /\ qmInst.child /\ QmMain \in qmProcs
  /\ qmProcs' = qmProcs \ {QmMain}
  /\ qmCpu' = "halted"
  /\ UNCHANGED <<qmRoute, qmInst, qmMaker, qmCaller, qmCalls>>

\* The wait sees the exit, or that a destroy took the instance over.
QmStopEnds ==
  /\ qmCaller["stop"] = "grace"
  /\ QmMain \notin qmProcs \/ ~qmInst.reg
  /\ qmCaller' = [qmCaller EXCEPT !["stop"] = "idle"]
  /\ IF qmInst.reg THEN QmSettle ELSE UNCHANGED <<qmInst, qmProcs, qmCpu>>
  /\ UNCHANGED <<qmRoute, qmMaker, qmCalls>>

\* info: a running or paused record whose process exited is settled; when the
\* process state cannot be read the record is failed and nothing is killed.
QmInfo(readable) ==
  /\ QmRouted /\ qmInst.info \in {"running", "paused"}
  /\ IF readable
     THEN QmMain \notin qmProcs /\ QmSettle
     ELSE /\ qmInst' = [qmInst EXCEPT !.info = "failed"]
          /\ UNCHANGED <<qmProcs, qmCpu>>
  /\ UNCHANGED <<qmRoute, qmMaker, qmCaller, qmCalls>>

QmSwitched(c) == IF c = "pause" THEN "paused" ELSE "running"

\* pause and resume: one QMP connection per call.  The command may take effect
\* although its answer never arrived; only an answer lets the call go on.
QmCommand(c, answered) ==
  /\ qmCaller[c] = "idle" /\ QmRouted /\ QmMain \in qmProcs
  /\ qmCalls < QmMaxCalls
  /\ qmCalls' = qmCalls + 1
  /\ qmCpu' = QmSwitched(c)
  /\ qmCaller' = [qmCaller EXCEPT ![c] = IF answered THEN "answered" ELSE "idle"]
  /\ UNCHANGED <<qmRoute, qmInst, qmProcs, qmMaker>>

\* The state is recorded in whatever instance the UUID has by then.
QmRecord(c) ==
  /\ qmCaller[c] = "answered"
  /\ qmInst' = IF qmInst.reg THEN [qmInst EXCEPT !.info = QmSwitched(c)] ELSE qmInst
  /\ qmCaller' = [qmCaller EXCEPT ![c] = "idle"]
  /\ UNCHANGED <<qmRoute, qmProcs, qmCpu, qmMaker, qmCalls>>

QmNext ==
  \/ QmRouteCreate \/ QmRegister \/ QmSpawnHelper \/ QmSpawn \/ QmBooted
  \/ QmBootFails \/ QmCancelCreate
  \/ \E p \in {QmMain} \cup 1..QmShares : QmProcessExits(p)
  \/ \E upto \in 1..5 : QmDestroy(upto)
  \/ QmUnroute \/ QmCancelDestroy
  \/ QmStop \/ QmStopKills \/ QmStopEnds
  \/ \E readable \in BOOLEAN : QmInfo(readable)
  \/ \E c \in {"pause", "resume"} : QmRecord(c) \/ \E a \in BOOLEAN : QmCommand(c, a)

-----------------------------------------------------------------------------
\* Every QEMU or helper process alive is owned by a registered instance that a
\* routed destroy can still reach, whatever boots, destructions and
\* cancellations failed before: nothing is left running that no call can end.
QmProcessesReachable ==
  qmProcs # {} => /\ qmInst.reg /\ qmRoute = "qemu"
                  /\ QmMain \in qmProcs => qmInst.child
                  /\ qmProcs \ {QmMain} \subseteq qmInst.helpers
=============================================================================
