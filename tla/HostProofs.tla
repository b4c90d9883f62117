----------------------------- MODULE HostProofs -----------------------------
(***************************************************************************)
(* Proofs about what the host keeps for a guest, each component for its    *)
(* own steps.  The VMM backends: no process of a QEMU VM is beyond the     *)
(* reach of a destroy (QemuHost), a VZ machine is let go only after it has *)
(* stopped (VzWorker), and the follower of a serial log is told of every   *)
(* byte it does not see (SerialLog).  The network: a queued connection is  *)
(* served before its port is handed over (PortRelay), an address has one   *)
(* owner (HostAddresses), and a guest's packets get out as its network     *)
(* mode promises (HostFirewall).  The images: file, row and clones of a    *)
(* name belong together (ImageCatalog), a flattened tree is what its layers *)
(* say (OciImport), and a macOS bundle is booted from only when whole      *)
(* (MacImages).                                                            *)
(***************************************************************************)
EXTENDS QemuHost, VzWorker, SerialLog, PortRelay, HostAddresses, HostFirewall,
        ImageCatalog, OciImport, MacImages,
        FiniteSetTheorems, SequenceTheorems, WellFoundedInduction, TLAPS

-----------------------------------------------------------------------------
(* QemuHost.                                                               *)

QmHelpers == 1..QmShares

\* The types the argument needs: helpers are numbered by the shares they
\* serve, and a process is QEMU or a helper.
QmTypeOK ==
  /\ qmInst \in [reg : BOOLEAN, child : BOOLEAN, files : BOOLEAN, cgroup : BOOLEAN,
                 helpers : SUBSET QmHelpers,
                 info : {"none", "creating", "running", "paused", "stopped", "failed"}]
  /\ qmProcs \subseteq {QmMain} \cup QmHelpers
  /\ qmCaller \in [QmCallers -> {"idle", "ok", "notfound", "failed", "grace", "answered"}]

\* An instance is registered only under a route; without one nothing runs.
QmRegistered ==
  /\ qmInst.reg => qmRoute = "qemu"
  /\ ~qmInst.reg => qmProcs = {}

\* A creation excludes a destruction and works under the route it recorded; a
\* destruction that is about to drop the route has dropped the instance.
QmExclusive ==
  /\ qmMaker # "idle" => qmRoute = "qemu" /\ qmCaller["destroy"] = "idle"
  /\ qmCaller["destroy"] \in {"ok", "notfound"} => ~qmInst.reg

\* Every process is recorded in the instance.
QmRecorded ==
  /\ QmMain \in qmProcs => qmInst.child
  /\ qmProcs \ {QmMain} \subseteq qmInst.helpers

QmInv == QmTypeOK /\ QmRegistered /\ QmExclusive /\ QmRecorded

\* The helper that boot_tracked spawns next has a number of its own share.
LEMMA QmNextHelper ==
  ASSUME NEW helpers \in SUBSET QmHelpers, Cardinality(helpers) < QmShares
  PROVE  Cardinality(helpers) + 1 \in QmHelpers
<1>1. IsFiniteSet(QmHelpers)
  BY FS_Interval, QmShareAssumption DEF QmHelpers
<1>2. IsFiniteSet(helpers)
  BY <1>1, FS_Subset
<1>3. Cardinality(helpers) \in Nat
  BY <1>2, FS_CardinalityType
<1> QED
  BY <1>3, QmShareAssumption DEF QmHelpers

\* Before the first creation there is neither instance nor process.
LEMMA QmStarts == QmInit => QmInv
BY DEF QmInit, QmInv, QmTypeOK, QmRegistered, QmExclusive, QmRecorded, QmNoInstance,
       QmCallers, QmMain, QmHelpers

\* create_vm: the route precedes the instance, the instance every process.
LEMMA QmCreateSteps ==
  ASSUME QmInv,
         \/ QmRouteCreate \/ QmRegister \/ QmSpawnHelper \/ QmSpawn \/ QmBooted
         \/ QmBootFails \/ QmCancelCreate
  PROVE  QmInv'
<1> USE DEF QmInv, QmMain, QmHelpers
<1>1. CASE QmRouteCreate
  BY <1>1 DEF QmRouteCreate, QmTypeOK, QmRegistered, QmExclusive, QmRecorded
<1>2. CASE QmRegister
  BY <1>2 DEF QmRegister, QmTypeOK, QmRegistered, QmExclusive, QmRecorded, QmNoInstance
<1>3. CASE QmSpawnHelper
  <2> DEFINE n == Cardinality(qmInst.helpers) + 1
  <2>1. n \in QmHelpers
    BY <1>3, QmNextHelper DEF QmSpawnHelper, QmTypeOK
  <2>2. /\ qmMaker = "helpers" /\ qmInst.reg
        /\ qmInst' = [qmInst EXCEPT !.helpers = qmInst.helpers \cup {n}, !.files = TRUE]
        /\ qmProcs' = qmProcs \cup {n}
        /\ UNCHANGED <<qmRoute, qmMaker, qmCaller>>
    BY <1>3 DEF QmSpawnHelper
  <2> HIDE DEF n, QmHelpers
  <2>3. QmTypeOK'
    BY <2>1, <2>2 DEF QmTypeOK
  <2>4. /\ qmInst'.reg = qmInst.reg /\ qmInst'.child = qmInst.child
        /\ qmInst'.helpers = qmInst.helpers \cup {n}
    BY <2>2 DEF QmTypeOK
  <2>5. QmRegistered' /\ QmExclusive'
    BY <2>2, <2>4 DEF QmRegistered, QmExclusive
  <2>6. n # QmMain
    BY <2>1 DEF QmHelpers
  <2>7. QmRecorded'
    BY <2>2, <2>4, <2>6 DEF QmRecorded
  <2> QED
    BY <2>3, <2>5, <2>7
<1>4. CASE QmSpawn
  BY <1>4 DEF QmSpawn, QmTypeOK, QmRegistered, QmExclusive, QmRecorded, QmMain
<1>5. CASE QmBooted
  BY <1>5 DEF QmBooted, QmTypeOK, QmRegistered, QmExclusive, QmRecorded
<1>6. CASE QmBootFails
  BY <1>6 DEF QmBootFails, QmTypeOK, QmRegistered, QmExclusive, QmRecorded
<1>7. CASE QmCancelCreate
  BY <1>7 DEF QmCancelCreate, QmTypeOK, QmRegistered, QmExclusive, QmRecorded
<1> QED
  BY <1>1, <1>2, <1>3, <1>4, <1>5, <1>6, <1>7

\* destroy_vm: an instance is forgotten only when the last stage has ended QEMU
\* and every helper, and the dispatcher drops the route only after that.
LEMMA QmDestroySteps ==
  ASSUME QmInv, (\E upto \in 1..5 : QmDestroy(upto)) \/ QmUnroute \/ QmCancelDestroy
  PROVE  QmInv'
<1> USE DEF QmInv, QmMain, QmHelpers
<1>1. ASSUME NEW upto \in 1..5, QmDestroy(upto)
      PROVE  QmInv'
  <2>1. CASE ~qmInst.reg
    BY <1>1, <2>1 DEF QmDestroy, QmTypeOK, QmRegistered, QmExclusive, QmRecorded, QmCallers
  <2>2. CASE qmInst.reg /\ upto = 5
    <3>1. QmStages[upto] = "done" /\ QmGone(upto) = {QmMain} \cup QmHelpers
      BY <2>2 DEF QmStages, QmGone, QmHelpers
    <3>2. /\ qmProcs' = qmProcs \ QmGone(upto) /\ qmInst' = QmNoInstance
          /\ qmCaller' = [qmCaller EXCEPT !["destroy"] = "ok"]
          /\ qmMaker = "idle" /\ UNCHANGED <<qmRoute, qmMaker>>
      BY <1>1, <2>2, <3>1 DEF QmDestroy
    <3>3. qmProcs' = {}
      BY <3>1, <3>2 DEF QmTypeOK
    <3> QED
      BY <3>2, <3>3 DEF QmTypeOK, QmRegistered, QmExclusive, QmRecorded, QmCallers, QmNoInstance
  <2>3. CASE qmInst.reg /\ upto # 5
    <3>1. QmStages[upto] # "done"
      BY <2>3, upto \in 1..5 DEF QmStages
    <3>2. /\ qmProcs' = qmProcs \ QmGone(upto)
          /\ qmInst' = [qmInst EXCEPT !.files = (upto < 4) /\ qmInst.files]
          /\ qmCaller' = [qmCaller EXCEPT !["destroy"] = "failed"]
          /\ qmMaker = "idle" /\ UNCHANGED <<qmRoute, qmMaker>>
      BY <1>1, <2>3, <3>1 DEF QmDestroy
    <3> QED
      BY <2>3, <3>2 DEF QmTypeOK, QmRegistered, QmExclusive, QmRecorded, QmCallers
  <2> QED
    BY <2>1, <2>2, <2>3
<1>2. CASE QmUnroute
  BY <1>2 DEF QmUnroute, QmRouteKept, QmTypeOK, QmRegistered, QmExclusive, QmRecorded,
              QmCallers
<1>3. CASE QmCancelDestroy
  BY <1>3 DEF QmCancelDestroy, QmTypeOK, QmRegistered, QmExclusive, QmRecorded, QmCallers
<1> QED
  BY <1>1, <1>2, <1>3

\* stop, info, pause and resume end processes and rewrite the record; none of
\* them gives up instance or route.
LEMMA QmCallSteps ==
  ASSUME QmInv,
         \/ \E p \in {QmMain} \cup 1..QmShares : QmProcessExits(p)
         \/ QmStop \/ QmStopKills \/ QmStopEnds
         \/ \E readable \in BOOLEAN : QmInfo(readable)
         \/ \E c \in {"pause", "resume"} : QmRecord(c) \/ \E a \in BOOLEAN : QmCommand(c, a)
  PROVE  QmInv'
<1> USE DEF QmInv, QmMain, QmHelpers
<1>1. ASSUME NEW p \in {QmMain} \cup 1..QmShares, QmProcessExits(p)
      PROVE  QmInv'
  BY <1>1 DEF QmProcessExits, QmTypeOK, QmRegistered, QmExclusive, QmRecorded
<1>2. CASE QmStop
  BY <1>2, ZenonT(40)
     DEF QmStop, QmSettle, QmRouted, QmTypeOK, QmRegistered, QmExclusive, QmRecorded,
              QmCallers
<1>3. CASE QmStopKills
  BY <1>3 DEF QmStopKills, QmTypeOK, QmRegistered, QmExclusive, QmRecorded
<1>4. CASE QmStopEnds
  BY <1>4 DEF QmStopEnds, QmSettle, QmTypeOK, QmRegistered, QmExclusive, QmRecorded, QmCallers
<1>5. ASSUME NEW readable \in BOOLEAN, QmInfo(readable)
      PROVE  QmInv'
  <2>1. CASE readable
    <3>1. /\ qmInst.reg /\ qmRoute = "qemu"
          /\ qmInst' = [qmInst EXCEPT !.info = "stopped", !.cgroup = FALSE]
          /\ qmProcs' \in {{}, qmProcs}
          /\ UNCHANGED <<qmRoute, qmMaker, qmCaller>>
      BY <1>5, <2>1 DEF QmInfo, QmSettle, QmRouted
    <3> QED
      BY <3>1 DEF QmTypeOK, QmRegistered, QmExclusive, QmRecorded
  <2>2. CASE ~readable
    BY <1>5, <2>2 DEF QmInfo, QmTypeOK, QmRegistered, QmExclusive, QmRecorded
  <2> QED
    BY <2>1, <2>2
<1>6. ASSUME NEW c \in {"pause", "resume"}, QmRecord(c)
      PROVE  QmInv'
  BY <1>6 DEF QmRecord, QmSwitched, QmTypeOK, QmRegistered, QmExclusive, QmRecorded, QmCallers
<1>7. ASSUME NEW c \in {"pause", "resume"}, NEW a \in BOOLEAN, QmCommand(c, a)
      PROVE  QmInv'
  BY <1>7 DEF QmCommand, QmTypeOK, QmRegistered, QmExclusive, QmRecorded, QmCallers
<1> QED
  BY <1>1, <1>2, <1>3, <1>4, <1>5, <1>6, <1>7

\* Whatever boots, destructions and cancellations failed before, every QEMU or
\* helper process alive belongs to a registered instance that a routed destroy
\* reaches (dispatch.rs, qemu.rs).
THEOREM QemuProcessesReachable ==
  QmInit /\ [][QmNext]_qmVars => []QmProcessesReachable
<1>1. QmInit => QmInv
  BY QmStarts
<1>2. QmInv /\ [QmNext]_qmVars => QmInv'
  <2>1. ASSUME QmInv, QmNext PROVE QmInv'
    BY <2>1, QmCreateSteps, QmDestroySteps, QmCallSteps DEF QmNext
  <2>2. ASSUME QmInv, UNCHANGED qmVars PROVE QmInv'
    BY <2>2 DEF qmVars, QmInv, QmTypeOK, QmRegistered, QmExclusive, QmRecorded
  <2> QED
    BY <2>1, <2>2
<1>3. QmInv => QmProcessesReachable
  BY DEF QmInv, QmProcessesReachable, QmTypeOK, QmRegistered, QmRecorded
<1> QED
  BY <1>1, <1>2, <1>3, PTL

-----------------------------------------------------------------------------
(* AppleVz: the native backend of one VM.                                  *)

VzClosures == {"configure", "start", "stop", "pause", "resume"}
VzKinds == {"root", "volume", "seed", "net", "vsock", "balloon"}
VzInstances ==
  [reg : {"none", "held", "forgotten"}, vm : BOOLEAN, inflight : BOOLEAN,
   info : {"none", "creating", "running", "paused", "stopped", "failed"},
   start : {"none", "pending", "ok", "error"}, offline : BOOLEAN, devices : Seq(VzKinds)]

VzTypeOK ==
  /\ vzInst \in VzInstances
  /\ vzMachine \in {"none", "stopped", "starting", "running", "paused", "error"}
  /\ vzQueue \in Seq(VzClosures)
  /\ vzOp \in [VzOps -> {"idle", "configure", "start", "stopping", "grace", "forced",
                         "asked", "ok"}]

VzStartFree(queue) == \A i \in 1..Len(queue) : queue[i] # "start"
VzNetFree(devices) == \A i \in 1..Len(devices) : devices[i] # "net"

\* Nothing is under way for a VM that was not created, and creation and
\* destruction exclude each other.
VzQuiet ==
  /\ vzInst.reg = "none" => vzQueue = <<>> /\ ~vzInst.vm /\ \A o \in VzOps : vzOp[o] = "idle"
  /\ vzOp["create"] = "idle" \/ vzOp["destroy"] = "idle"

\* A forgotten machine has ended, and nothing can start it again.
VzGone ==
  vzInst.reg = "forgotten" =>
    ~VzAlive /\ VzStartFree(vzQueue) /\ vzOp["create"] = "idle"

\* An offline instance got no network device.
VzCut == vzInst.offline => VzNetFree(vzInst.devices)

VzInv == VzTypeOK /\ VzQuiet /\ VzGone /\ VzCut

\* Without a machine in hand none runs and none is about to start.  It holds
\* while the process that calls the framework lives.
VzUnmade == ~vzInst.vm => ~VzAlive /\ VzStartFree(vzQueue)

\* A closure appended to the queue, or taken from its head, brings no start.
LEMMA VzQueueSteps ==
  ASSUME NEW q \in Seq(VzClosures)
  PROVE  /\ \A c \in VzClosures : /\ Append(q, c) \in Seq(VzClosures)
                                 /\ c # "start" /\ VzStartFree(q) => VzStartFree(Append(q, c))
         /\ q # <<>> => /\ Head(q) \in VzClosures /\ Tail(q) \in Seq(VzClosures)
                         /\ VzStartFree(q) => VzStartFree(Tail(q)) /\ Head(q) # "start"
<1>1. ASSUME NEW c \in VzClosures, c # "start", VzStartFree(q)
      PROVE  VzStartFree(Append(q, c))
  BY <1>1 DEF VzStartFree
<1>2. ASSUME q # <<>>
      PROVE  /\ Head(q) \in VzClosures /\ Tail(q) \in Seq(VzClosures)
             /\ VzStartFree(q) => VzStartFree(Tail(q)) /\ Head(q) # "start"
  BY <1>2, HeadTailProperties DEF VzStartFree
<1> QED
  BY <1>1, <1>2

\* VzDevices attaches no network device to an offline VM.
LEMMA VzDeviceKinds ==
  ASSUME NEW c \in VzConfigs
  PROVE  VzDevices(c) \in Seq(VzKinds) /\ (c.offline => VzNetFree(VzDevices(c)))
<1> DEFINE Wired == VzKinds \ {"net"}
           volume == IF c.volume THEN <<"volume">> ELSE <<>>
           seed == IF c.seed THEN <<"seed">> ELSE <<>>
           balloon == IF c.balloon THEN <<"balloon">> ELSE <<>>
<1>1. /\ <<"root">> \in Seq(Wired) /\ <<"vsock">> \in Seq(Wired) /\ <<"volume">> \in Seq(Wired)
      /\ <<"seed">> \in Seq(Wired) /\ <<"balloon">> \in Seq(Wired) /\ <<>> \in Seq(Wired)
      /\ <<"net">> \in Seq(VzKinds) /\ <<>> \in Seq(VzKinds)
  BY DEF VzKinds
<1>2. VzDevices(c) = <<"root">> \o volume \o seed \o VzNet(c) \o <<"vsock">> \o balloon
  BY DEF VzDevices
<1>3. Seq(Wired) \subseteq Seq(VzKinds)
  BY SeqMonotonic DEF VzKinds
<1>4. /\ volume \in Seq(Wired) /\ seed \in Seq(Wired) /\ balloon \in Seq(Wired)
      /\ VzNet(c) \in Seq(VzKinds) /\ (c.offline => VzNet(c) \in Seq(Wired))
  BY <1>1 DEF VzNet
<1> HIDE DEF Wired, volume, seed, balloon
<1>5. ASSUME NEW S, Seq(Wired) \subseteq Seq(S), VzNet(c) \in Seq(S)
      PROVE  VzDevices(c) \in Seq(S)
  <2>1. <<"root">> \o volume \in Seq(S)
    BY <1>1, <1>4, <1>5, ConcatProperties
  <2>2. (<<"root">> \o volume) \o seed \in Seq(S)
    BY <2>1, <1>4, <1>5, ConcatProperties
  <2>3. ((<<"root">> \o volume) \o seed) \o VzNet(c) \in Seq(S)
    BY <2>2, <1>5, ConcatProperties
  <2>4. (((<<"root">> \o volume) \o seed) \o VzNet(c)) \o <<"vsock">> \in Seq(S)
    BY <2>3, <1>1, <1>5, ConcatProperties
  <2> QED
    BY <2>4, <1>2, <1>4, <1>5, ConcatProperties
<1>6. VzDevices(c) \in Seq(VzKinds)
  BY <1>3, <1>4, <1>5
<1>7. ASSUME c.offline PROVE VzDevices(c) \in Seq(Wired)
  BY <1>4, <1>5, <1>7
<1> QED
  BY <1>6, <1>7 DEF VzNetFree, Wired

\* create_vm of the native backend: the instance is new, nothing was queued
\* for it, and the machine starts only once it is in hand.
LEMMA VzCreateSteps ==
  ASSUME VzInv, VzUnmade,
         (\E c \in VzConfigs : VzCreateRegister(c)) \/ VzCreateStart \/ VzCreateSettle
  PROVE  VzInv' /\ VzUnmade'
<1> USE DEF VzInv
<1>1. ASSUME NEW c \in VzConfigs, VzCreateRegister(c)
      PROVE  VzInv' /\ VzUnmade'
  <2> DEFINE devices == VzDevices(c)
  <2>1. /\ devices \in Seq(VzKinds) /\ (c.offline => VzNetFree(devices))
        /\ c.offline \in BOOLEAN
    BY VzDeviceKinds, VzConfigAssumption
  <2> HIDE DEF devices
  <2>2. /\ vzInst' = [VzNoInstance EXCEPT !.reg = "held", !.inflight = TRUE,
                          !.info = "creating", !.offline = c.offline, !.devices = devices]
        /\ vzQueue = <<>> /\ vzQueue' = Append(vzQueue, "configure")
        /\ vzOp' = [vzOp EXCEPT !["create"] = "configure"]
        /\ vzOp["destroy"] = "idle" /\ ~vzInst.vm /\ vzMachine' = vzMachine
    BY <1>1 DEF VzCreateRegister, VzQuiet, devices
  <2>3. /\ vzInst' \in VzInstances /\ vzInst'.reg = "held" /\ ~vzInst'.vm
        /\ vzInst'.offline = c.offline /\ vzInst'.devices = devices
    BY <2>1, <2>2 DEF VzNoInstance, VzInstances
  <2>4. vzQueue' \in Seq(VzClosures) /\ VzStartFree(vzQueue')
    BY <2>2 DEF VzStartFree, VzClosures
  <2>5. VzTypeOK'
    BY <2>2, <2>3, <2>4 DEF VzTypeOK, VzOps
  <2>6. ~VzAlive'
    BY <2>2 DEF VzUnmade, VzAlive
  <2>7. VzQuiet' /\ VzGone' /\ VzCut' /\ VzUnmade'
    BY <2>1, <2>2, <2>3, <2>4, <2>6 DEF VzQuiet, VzGone, VzCut, VzUnmade, VzTypeOK, VzOps
  <2> QED
    BY <2>5, <2>7
<1>2. CASE VzCreateStart
  <2>1. /\ vzInst.reg = "held" /\ vzInst.vm /\ vzOp["create"] = "configure"
        /\ vzInst' = [vzInst EXCEPT !.start = "pending"]
        /\ vzQueue' = Append(vzQueue, "start")
        /\ vzOp' = [vzOp EXCEPT !["create"] = "start"] /\ vzMachine' = vzMachine
    BY <1>2 DEF VzCreateStart, VzHeld
  <2>2. vzQueue' \in Seq(VzClosures)
    BY <2>1, VzQueueSteps DEF VzTypeOK, VzClosures
  <2>3. /\ vzInst' \in VzInstances /\ vzInst'.reg = "held" /\ vzInst'.vm
        /\ vzInst'.offline = vzInst.offline /\ vzInst'.devices = vzInst.devices
    BY <2>1 DEF VzTypeOK, VzInstances
  <2>4. VzTypeOK'
    BY <2>1, <2>2, <2>3 DEF VzTypeOK, VzOps
  <2> QED
    BY <2>1, <2>3, <2>4 DEF VzQuiet, VzGone, VzCut, VzUnmade, VzTypeOK, VzOps
<1>3. CASE VzCreateSettle
  <2> DEFINE info == IF vzOp["create"] = "start" /\ vzInst.start = "ok"
                     THEN "running" ELSE "failed"
  <2>1. /\ vzOp["create"] # "idle" /\ vzInst' = [vzInst EXCEPT !.info = info]
        /\ vzOp' = [vzOp EXCEPT !["create"] = "idle"] /\ UNCHANGED <<vzMachine, vzQueue>>
        /\ info \in {"running", "failed"}
    BY <1>3 DEF VzCreateSettle
  <2> HIDE DEF info
  <2>2. /\ vzInst' \in VzInstances /\ vzInst'.reg = vzInst.reg /\ vzInst'.vm = vzInst.vm
        /\ vzInst'.offline = vzInst.offline /\ vzInst'.devices = vzInst.devices
    BY <2>1 DEF VzTypeOK, VzInstances
  <2>3. VzTypeOK'
    BY <2>1, <2>2 DEF VzTypeOK, VzOps
  <2>4. vzInst.reg # "none"
    BY <2>1 DEF VzQuiet, VzOps
  <2> QED
    BY <2>1, <2>2, <2>3, <2>4 DEF VzQuiet, VzGone, VzCut, VzUnmade, VzTypeOK, VzOps, VzAlive
<1> QED
  BY <1>1, <1>2, <1>3

\* What a step that leaves the machine and the devices of the instance alone,
\* and queues no start, must show of the instance and of the calls.
LEMMA VzInfoStep ==
  ASSUME VzInv, VzUnmade,
         vzInst' \in VzInstances, vzInst'.reg = vzInst.reg, vzInst'.vm = vzInst.vm,
         vzInst'.offline = vzInst.offline, vzInst'.devices = vzInst.devices,
         vzInst.reg # "none", vzMachine' = vzMachine,
         vzQueue' \in Seq(VzClosures), VzStartFree(vzQueue) => VzStartFree(vzQueue'),
         vzOp' \in [VzOps -> {"idle", "configure", "start", "stopping", "grace", "forced",
                              "asked", "ok"}],
         vzOp'["create"] = vzOp["create"],
         vzOp'["create"] = "idle" \/ vzOp'["destroy"] = "idle"
  PROVE  VzInv' /\ VzUnmade'
<1>1. VzTypeOK'
  BY DEF VzInv, VzTypeOK
<1> QED
  BY <1>1 DEF VzInv, VzTypeOK, VzQuiet, VzGone, VzCut, VzUnmade, VzAlive

\* stop, pause, resume and info of the native backend.
LEMMA VzCallSteps ==
  ASSUME VzInv, VzUnmade,
         \/ VzStopRequest \/ VzStopForce \/ VzStopSettle \/ VzInfo
         \/ \E o \in {"pause", "resume"} : VzSwitch(o)
  PROVE  VzInv' /\ VzUnmade'
<1> USE DEF VzInv
<1>0. ASSUME NEW info \in {"running", "paused", "stopped", "failed"},
             vzInst' = [vzInst EXCEPT !.info = info]
      PROVE  /\ vzInst' \in VzInstances /\ vzInst'.reg = vzInst.reg /\ vzInst'.vm = vzInst.vm
             /\ vzInst'.offline = vzInst.offline /\ vzInst'.devices = vzInst.devices
  BY <1>0 DEF VzTypeOK, VzInstances
<1>1. CASE VzStopRequest
  <2>1. vzInst.reg # "none" /\ UNCHANGED <<vzInst, vzMachine, vzQueue>>
        /\ vzOp' = [vzOp EXCEPT !["stop"] = "grace"]
    BY <1>1 DEF VzStopRequest, VzCall, VzHeld
  <2> QED
    BY <2>1, VzInfoStep DEF VzTypeOK, VzQuiet, VzOps
<1>2. CASE VzStopForce
  <2>1. /\ vzOp["stop"] = "grace" /\ vzQueue' = Append(vzQueue, "stop")
        /\ UNCHANGED <<vzInst, vzMachine>> /\ vzOp' = [vzOp EXCEPT !["stop"] = "forced"]
    BY <1>2 DEF VzStopForce
  <2>2. vzQueue' \in Seq(VzClosures) /\ (VzStartFree(vzQueue) => VzStartFree(vzQueue'))
    BY <2>1, VzQueueSteps DEF VzTypeOK, VzClosures
  <2> QED
    BY <2>1, <2>2, VzInfoStep DEF VzTypeOK, VzQuiet, VzOps
<1>3. CASE VzStopSettle
  <2>1. /\ vzOp["stop"] # "idle" /\ UNCHANGED <<vzMachine, vzQueue>>
        /\ vzOp' = [vzOp EXCEPT !["stop"] = "idle"]
        /\ vzInst' = vzInst \/ \E i \in {"stopped", "failed"} : vzInst' = [vzInst EXCEPT !.info = i]
    BY <1>3 DEF VzStopSettle
  <2>2. /\ vzInst' \in VzInstances /\ vzInst'.reg = vzInst.reg /\ vzInst'.vm = vzInst.vm
        /\ vzInst'.offline = vzInst.offline /\ vzInst'.devices = vzInst.devices
    BY <1>0, <2>1 DEF VzTypeOK
  <2> QED
    BY <2>1, <2>2, VzInfoStep DEF VzTypeOK, VzQuiet, VzOps
<1>4. CASE VzInfo
  <2>1. /\ vzInst.reg # "none" /\ UNCHANGED <<vzMachine, vzQueue, vzOp>>
        /\ \E i \in {"stopped", "failed"} : vzInst' = [vzInst EXCEPT !.info = i]
    BY <1>4 DEF VzInfo, VzHeld
  <2> QED
    BY <2>1, <1>0, VzInfoStep DEF VzTypeOK, VzQuiet
<1>5. ASSUME NEW o \in {"pause", "resume"}, VzSwitch(o)
      PROVE  VzInv' /\ VzUnmade'
  <2>1. CASE /\ VzCall(o) /\ vzQueue' = Append(vzQueue, o)
             /\ vzOp' = [vzOp EXCEPT ![o] = "asked"] /\ UNCHANGED <<vzInst, vzMachine>>
    <3>1. vzQueue' \in Seq(VzClosures) /\ (VzStartFree(vzQueue) => VzStartFree(vzQueue'))
      BY <2>1, VzQueueSteps DEF VzTypeOK, VzClosures
    <3> QED
      BY <2>1, <3>1, VzInfoStep DEF VzTypeOK, VzQuiet, VzOps, VzCall, VzHeld
  <2>2. CASE /\ vzOp[o] = "ok" /\ UNCHANGED <<vzMachine, vzQueue>>
             /\ vzInst' = [vzInst EXCEPT !.info = IF o = "pause" THEN "paused" ELSE "running"]
             /\ vzOp' = [vzOp EXCEPT ![o] = "idle"]
    <3>1. \E i \in {"paused", "running"} : vzInst' = [vzInst EXCEPT !.info = i]
      BY <2>2
    <3>2. /\ vzInst' \in VzInstances /\ vzInst'.reg = vzInst.reg /\ vzInst'.vm = vzInst.vm
          /\ vzInst'.offline = vzInst.offline /\ vzInst'.devices = vzInst.devices
      BY <1>0, <3>1
    <3> QED
      BY <2>2, <3>2, VzInfoStep DEF VzTypeOK, VzQuiet, VzOps
  <2> QED
    BY <1>5, <2>1, <2>2 DEF VzSwitch
<1> QED
  BY <1>1, <1>2, <1>3, <1>4, <1>5

\* destroy_vm: a machine that was never made, or that the framework itself
\* calls stopped with the queue drained, is forgotten.
LEMMA VzDestroySteps ==
  ASSUME VzInv, VzUnmade, VzDestroyBegin \/ VzDestroyJudge \/ VzDestroyUnseen
  PROVE  VzInv' /\ VzUnmade'
<1> USE DEF VzInv
<1>0. ASSUME vzInst' = VzForgotten(vzInst), vzOp["create"] = "idle", ~VzAlive,
             VzStartFree(vzQueue), UNCHANGED <<vzMachine, vzQueue>>,
             vzOp' \in {vzOp, [vzOp EXCEPT !["destroy"] = "idle"]}
      PROVE  VzInv' /\ VzUnmade'
  <2>1. /\ vzInst' \in VzInstances /\ vzInst'.reg = "forgotten" /\ vzInst'.vm = vzInst.vm
        /\ vzInst'.offline = vzInst.offline /\ vzInst'.devices = vzInst.devices
    BY <1>0 DEF VzTypeOK, VzInstances, VzForgotten
  <2>2. VzTypeOK'
    BY <1>0, <2>1 DEF VzTypeOK, VzOps
  <2> QED
    BY <1>0, <2>1, <2>2 DEF VzQuiet, VzGone, VzCut, VzUnmade, VzTypeOK, VzOps, VzAlive
<1>1. CASE VzDestroyBegin
  <2>1. CASE vzInst.vm
    <3>1. /\ vzInst.reg # "none" /\ vzOp["create"] = "idle"
          /\ vzQueue' = Append(vzQueue, "stop") /\ UNCHANGED <<vzInst, vzMachine>>
          /\ vzOp' = [vzOp EXCEPT !["destroy"] = "stopping"]
      BY <1>1, <2>1 DEF VzDestroyBegin, VzHeld
    <3>2. vzQueue' \in Seq(VzClosures) /\ (VzStartFree(vzQueue) => VzStartFree(vzQueue'))
      BY <3>1, VzQueueSteps DEF VzTypeOK, VzClosures
    <3> QED
      BY <3>1, <3>2, VzInfoStep DEF VzTypeOK, VzOps
  <2>2. CASE ~vzInst.vm
    <3>1. /\ vzInst' = VzForgotten(vzInst) /\ vzOp["create"] = "idle"
          /\ UNCHANGED <<vzMachine, vzQueue, vzOp>>
      BY <1>1, <2>2 DEF VzDestroyBegin
    <3> QED
      BY <1>0, <2>2, <3>1 DEF VzUnmade
  <2> QED
    BY <2>1, <2>2
<1>2. CASE VzDestroyJudge
  <2>1. /\ vzOp["create"] = "idle" /\ vzOp["destroy"] = "stopping" /\ vzQueue = <<>>
        /\ vzOp' = [vzOp EXCEPT !["destroy"] = "idle"] /\ UNCHANGED <<vzMachine, vzQueue>>
        /\ vzInst' = IF vzMachine = "stopped" THEN VzForgotten(vzInst) ELSE vzInst
    BY <1>2 DEF VzDestroyJudge, VzQuiet
  <2>2. CASE vzMachine = "stopped"
    BY <1>0, <2>1, <2>2 DEF VzAlive, VzStartFree
  <2>3. CASE vzMachine # "stopped"
    BY <2>1, <2>3, VzInfoStep DEF VzTypeOK, VzOps, VzQuiet
  <2> QED
    BY <2>2, <2>3
<1>3. CASE VzDestroyUnseen
  <2>1. /\ vzOp["destroy"] = "stopping" /\ vzOp' = [vzOp EXCEPT !["destroy"] = "idle"]
        /\ UNCHANGED <<vzInst, vzMachine, vzQueue>>
    BY <1>3 DEF VzDestroyUnseen
  <2> QED
    BY <2>1, VzInfoStep DEF VzTypeOK, VzOps, VzQuiet
<1> QED
  BY <1>1, <1>2, <1>3

\* The queue and the framework: only a start that somebody queued for a machine
\* in hand makes it live.
LEMMA VzBackgroundSteps ==
  ASSUME VzInv, VzUnmade, VzBackground
  PROVE  VzInv' /\ VzUnmade'
<1> USE DEF VzInv
<1>1. ASSUME NEW ok \in BOOLEAN, VzRunConfigure(ok)
      PROVE  VzInv' /\ VzUnmade'
  <2>1. /\ vzQueue # <<>> /\ vzQueue' = Tail(vzQueue) /\ vzOp' = vzOp
        /\ vzMachine' = IF ok THEN "stopped" ELSE vzMachine
        /\ vzInst' = IF ok THEN [vzInst EXCEPT !.inflight = FALSE, !.vm = TRUE]
                     ELSE [vzInst EXCEPT !.inflight = FALSE, !.info = "failed"]
    BY <1>1 DEF VzRunConfigure
  <2>2. vzQueue' \in Seq(VzClosures) /\ (VzStartFree(vzQueue) => VzStartFree(vzQueue'))
    BY <2>1, VzQueueSteps DEF VzTypeOK
  <2>3. /\ vzInst' \in VzInstances /\ vzInst'.reg = vzInst.reg
        /\ vzInst'.vm = (ok \/ vzInst.vm)
        /\ vzInst'.offline = vzInst.offline /\ vzInst'.devices = vzInst.devices
    <3>1. CASE ok
      BY <2>1, <3>1 DEF VzTypeOK, VzInstances
    <3>2. CASE ~ok
      BY <2>1, <3>2 DEF VzTypeOK, VzInstances
    <3> QED
      BY <3>1, <3>2
  <2>4. VzTypeOK' /\ vzInst.reg # "none"
    BY <2>1, <2>2, <2>3 DEF VzTypeOK, VzQuiet
  <2> QED
    BY <2>1, <2>2, <2>3, <2>4 DEF VzQuiet, VzGone, VzCut, VzUnmade, VzAlive
<1>2. CASE VzRunOperation
  <2> DEFINE call == Head(vzQueue)
  <2>1. /\ vzQueue # <<>> /\ call # "configure" /\ vzQueue' = Tail(vzQueue)
        /\ vzMachine' = IF ~VzAllowed(call) THEN vzMachine
                        ELSE CASE call = "start"  -> "starting"
                               [] call = "stop"   -> "stopped"
                               [] call = "pause"  -> "paused"
                               [] call = "resume" -> "running"
        /\ vzInst' \in {vzInst, [vzInst EXCEPT !.start = "error"]}
        /\ \/ vzOp' = vzOp
           \/ \E o \in {"pause", "resume"}, r \in {"ok", "idle"} : vzOp' = [vzOp EXCEPT ![o] = r]
    BY <1>2 DEF VzRunOperation
  <2>2. /\ call \in VzClosures /\ vzQueue' \in Seq(VzClosures)
        /\ VzStartFree(vzQueue) => VzStartFree(vzQueue') /\ call # "start"
    BY <2>1, VzQueueSteps DEF VzTypeOK
  <2> HIDE DEF call
  <2>3. /\ vzInst' \in VzInstances /\ vzInst'.reg = vzInst.reg /\ vzInst'.vm = vzInst.vm
        /\ vzInst'.offline = vzInst.offline /\ vzInst'.devices = vzInst.devices
    BY <2>1 DEF VzTypeOK, VzInstances
  <2>4. /\ vzMachine' \in {"none", "stopped", "starting", "running", "paused", "error"}
        /\ ~VzAlive /\ call # "start" => vzMachine' = vzMachine
    BY <2>1, <2>2 DEF VzTypeOK, VzAllowed, VzAlive, VzClosures
  <2>5. /\ vzOp' \in [VzOps -> {"idle", "configure", "start", "stopping", "grace", "forced",
                                "asked", "ok"}]
        /\ vzOp'["create"] = vzOp["create"] /\ vzOp'["destroy"] = vzOp["destroy"]
    BY <2>1 DEF VzTypeOK, VzOps
  <2>6. VzTypeOK' /\ vzInst.reg # "none"
    BY <2>1, <2>2, <2>3, <2>4, <2>5 DEF VzTypeOK, VzQuiet
  <2> QED
    BY <2>2, <2>3, <2>4, <2>5, <2>6 DEF VzQuiet, VzGone, VzCut, VzUnmade, VzAlive
<1>3. ASSUME NEW ok \in BOOLEAN, VzStartCompletes(ok)
      PROVE  VzInv' /\ VzUnmade'
  <2> DEFINE result == IF ok THEN "ok" ELSE "error"
  <2>1. /\ VzAlive /\ vzMachine' \in {"running", "stopped"} /\ UNCHANGED <<vzQueue, vzOp>>
        /\ vzInst' = [vzInst EXCEPT !.start = result] /\ result \in {"ok", "error"}
    BY <1>3 DEF VzStartCompletes, VzAlive
  <2> HIDE DEF result
  <2>2. /\ vzInst' \in VzInstances /\ vzInst'.reg = vzInst.reg /\ vzInst'.vm = vzInst.vm
        /\ vzInst'.offline = vzInst.offline /\ vzInst'.devices = vzInst.devices
    BY <2>1 DEF VzTypeOK, VzInstances
  <2>3. VzTypeOK'
    BY <2>1, <2>2 DEF VzTypeOK
  <2> QED
    BY <2>1, <2>2, <2>3 DEF VzQuiet, VzGone, VzCut, VzUnmade
<1>4. ASSUME NEW s \in {"stopped", "error"}, VzGuestEnds(s)
      PROVE  VzInv' /\ VzUnmade'
  BY <1>4 DEF VzGuestEnds, VzTypeOK, VzQuiet, VzGone, VzCut, VzUnmade, VzAlive
<1> QED
  BY <1>1, <1>2, <1>3, <1>4 DEF VzBackground

\* Neither the queue nor a call does anything for a VM that was not created.
LEMMA VzNothingMoves ==
  ASSUME VzInv, vzInst.reg = "none", ~VzAlive
  PROVE  ~VzBackground /\ ~VzProgress
BY DEF VzInv, VzQuiet, VzBackground, VzProgress, VzRunConfigure, VzRunOperation,
       VzStartCompletes, VzGuestEnds, VzCreateStart, VzCreateSettle, VzDestroyJudge,
       VzDestroyUnseen, VzAlive, VzOps

\* A forgotten instance stays forgotten, whatever the queue still holds.
LEMMA VzForgottenStays ==
  ASSUME VzInv, vzInst.reg = "forgotten", VzBackground \/ VzProgress
  PROVE  vzInst'.reg = "forgotten"
BY DEF VzInv, VzTypeOK, VzInstances, VzBackground, VzProgress, VzRunConfigure, VzRunOperation,
       VzStartCompletes, VzGuestEnds, VzCreateStart, VzCreateSettle, VzDestroyJudge,
       VzDestroyUnseen, VzForgotten, VzHeld

-----------------------------------------------------------------------------
(* VzWorker: the daemon, the child and its receipt.                        *)

WkrTypeOK ==
  /\ wkrMode \in {"direct", "child"}
  /\ wkrOwner \in [attempted : BOOLEAN, fenced : BOOLEAN, child : BOOLEAN,
                   reaped : BOOLEAN, frame : BOOLEAN]
  /\ wkrFiles \in [mine : BOOLEAN, collision : BOOLEAN, removed : BOOLEAN,
                   confirmed : BOOLEAN]
  /\ wkrStop \in [attempted : BOOLEAN, confirmed : BOOLEAN, receipt : BOOLEAN]
  /\ wkrProc \in {"none", "booting", "serving", "exited"}

\* The native backend runs: in the daemon itself or in a serving child.
WkrUp == wkrMode = "direct" \/ wkrProc = "serving"

\* A daemon that calls the framework itself owns no child and no receipt.
WkrAlone ==
  wkrMode = "direct" => /\ wkrEntry = "none" /\ wkrMaker = "idle" /\ wkrEnder = "idle"
                        /\ wkrProc = "none" /\ ~wkrStop.receipt /\ ~wkrFiles.confirmed

\* A child that does not serve has no instance; one that was sent no Create
\* frame, or has not begun to serve, has no machine either.
WkrBefore ==
  wkrMode = "child" =>
    /\ wkrProc # "serving" => vzInst = VzNoInstance
    /\ wkrProc \in {"none", "booting"} \/ ~wkrOwner.frame => vzInst.reg = "none" /\ ~VzAlive
    /\ vzInst.offline

\* A stop receipt is true, and stays true after the child has died.
WkrReceiptTrue ==
  wkrStop.receipt \/ wkrFiles.confirmed =>
    ~VzAlive /\ (vzInst.reg = "forgotten" \/ wkrProc = "exited")

\* From the kill on no child lives, and none can be launched again ...
WkrFenced ==
  wkrEnder \in {"proving", "cleaning", "forgetting"} \/ wkrEntry = "gone" =>
    wkrOwner.fenced /\ wkrProc \in {"none", "exited"}

\* ... and from the proof on no machine lives.
WkrEnded ==
  wkrEnder \in {"cleaning", "forgetting"} \/ wkrEntry = "gone" => ~VzAlive

\* launch is single use.
WkrSingle == ~wkrOwner.attempted => wkrProc = "none"

WkrOwned == WkrTypeOK /\ WkrSingle /\ WkrAlone /\ WkrBefore /\ WkrReceiptTrue /\ WkrFenced
            /\ WkrEnded
WkrInv == VzInv /\ (WkrUp => VzUnmade) /\ WkrOwned

\* A fresh daemon knows no VM.
LEMMA WkrStarts == WkrInit => WkrInv
<1> SUFFICES ASSUME WkrInit PROVE WkrInv
  OBVIOUS
<1> USE DEF WkrInit, VzNativeInit
<1>1. vzInst \in VzInstances /\ vzInst = VzNoInstance
  BY DEF VzNoInstance, VzInstances
<1>2. VzTypeOK
  BY <1>1 DEF VzTypeOK
<1>3. VzInv /\ VzUnmade
  BY <1>1, <1>2 DEF VzInv, VzNoInstance, VzQuiet, VzGone, VzCut, VzUnmade, VzAlive,
                    VzStartFree, VzNetFree, VzOps
<1>4. WkrTypeOK
  BY DEF WkrTypeOK
<1>5. WkrOwned
  BY <1>1, <1>4 DEF WkrOwned, WkrSingle, WkrAlone, WkrBefore, WkrReceiptTrue, WkrFenced,
                    WkrEnded, VzNoInstance, VzAlive
<1> QED
  BY <1>3, <1>5 DEF WkrInv

\* What holds of the native backend goes on holding while it does not move,
\* unless a child begins to serve.
LEMMA WkrStill ==
  ASSUME WkrInv, UNCHANGED vzNative
  PROVE  /\ VzInv' /\ (VzUnmade => VzUnmade') /\ (VzAlive' <=> VzAlive)
         /\ vzInst' = vzInst
BY DEF WkrInv, vzNative, VzInv, VzTypeOK, VzQuiet, VzGone, VzCut, VzUnmade, VzAlive

\* The native backend moves, for a daemon of its own or for a child that was
\* sent a Create frame.
LEMMA WkrNativeMoves ==
  ASSUME WkrInv, WkrUp, VzInv', VzUnmade', WkrTypeOK',
         UNCHANGED <<wkrMode, wkrEntry, wkrFiles, wkrEnder, wkrProc, wkrOwner>>,
         wkrMode = "direct" => wkrMaker' = wkrMaker, wkrStop'.receipt = wkrStop.receipt,
         wkrMode = "child" => wkrOwner.frame /\ vzInst'.offline,
         vzInst.reg = "forgotten" => vzInst'.reg = "forgotten"
  PROVE  WkrInv'
<1>1. WkrSingle' /\ WkrAlone' /\ WkrBefore' /\ WkrFenced'
  BY DEF WkrInv, WkrOwned, WkrSingle, WkrAlone, WkrBefore, WkrFenced, WkrUp
<1>2. WkrReceiptTrue'
  BY DEF WkrInv, WkrOwned, WkrReceiptTrue, WkrAlone, WkrUp, VzInv, VzGone, WkrTypeOK
<1>3. WkrEnded'
  BY DEF WkrInv, WkrOwned, WkrEnded, WkrFenced, WkrAlone, WkrUp
<1> QED
  BY <1>1, <1>2, <1>3 DEF WkrInv, WkrOwned

\* The child dies with its native backend; the machine, which belongs to a
\* framework helper, may go on.
LEMMA WkrDeath ==
  ASSUME WkrInv, wkrMode = "child", WkrDies
  PROVE  VzInv' /\ vzInst' = VzNoInstance /\ wkrProc' = "exited" /\ (~VzAlive => ~VzAlive')
<1>1. /\ vzInst' = VzNoInstance /\ wkrProc' = "exited" /\ vzQueue' = <<>>
      /\ vzOp' = [o \in VzOps |-> "idle"] /\ vzMachine' \in {"stopped", vzMachine}
      /\ ~VzAlive => vzMachine' = vzMachine
  BY DEF WkrDies, WkrOrphaned
<1>2. VzTypeOK'
  BY <1>1 DEF WkrInv, VzInv, VzTypeOK, VzInstances, VzNoInstance, VzOps
<1> QED
  BY <1>1, <1>2 DEF VzInv, VzNoInstance, VzQuiet, VzGone, VzCut, VzAlive, VzStartFree,
                    VzNetFree, VzOps

\* create_vm of the daemon.
LEMMA WkrCreateSteps ==
  ASSUME WkrInv,
         \/ WkrRegister \/ WkrPrepare \/ (\E s \in BOOLEAN : WkrLaunch(s))
         \/ WkrDescribe \/ WkrMarkFrame \/ WkrPublish \/ WkrCancelCreate
  PROVE  WkrInv'
<1>0. VzInv' /\ (VzUnmade => VzUnmade') /\ (VzAlive' <=> VzAlive) /\ vzInst' = vzInst
  BY WkrStill DEF WkrRegister, WkrPrepare, WkrLaunch, WkrDescribe, WkrMarkFrame, WkrPublish,
                  WkrCancelCreate
<1> USE <1>0 DEF WkrInv, WkrUp, WkrOwned, WkrTypeOK, WkrSingle, WkrAlone, WkrBefore,
                 WkrReceiptTrue, WkrFenced, WkrEnded, wkrChild
<1>1. CASE WkrRegister
  BY <1>1 DEF WkrRegister
<1>2. CASE WkrPrepare
  <2>1. /\ wkrMaker # "idle" /\ UNCHANGED <<wkrMode, wkrEntry, wkrOwner, wkrProc, wkrStop, wkrEnder>>
        /\ \/ wkrFiles' = [wkrFiles EXCEPT !.mine = TRUE]
           \/ wkrFiles' = [wkrFiles EXCEPT !.collision = TRUE]
    BY <1>2 DEF WkrPrepare
  <2>2. wkrFiles'.confirmed = wkrFiles.confirmed /\ WkrTypeOK'
    BY <2>1
  <2> QED
    BY <2>1, <2>2
<1>3. ASSUME NEW s \in BOOLEAN, WkrLaunch(s) PROVE WkrInv'
  <2>1. /\ wkrMaker = "launch" /\ ~wkrOwner.attempted /\ ~wkrOwner.fenced
        /\ UNCHANGED <<wkrMode, wkrEntry, wkrFiles, wkrStop, wkrEnder>>
        /\ wkrOwner' = [wkrOwner EXCEPT !.attempted = TRUE, !.child = s]
        /\ wkrProc' \in {"booting", wkrProc}
    BY <1>3 DEF WkrLaunch
  <2>2. /\ wkrOwner'.attempted /\ wkrOwner'.fenced = wkrOwner.fenced
        /\ wkrOwner'.frame = wkrOwner.frame /\ WkrTypeOK'
    BY <2>1
  <2>3. wkrMode = "child" /\ wkrProc = "none" /\ vzInst.reg = "none"
    BY <2>1 DEF VzNoInstance
  <2> QED
    BY <2>1, <2>2, <2>3
<1>4. CASE WkrDescribe
  BY <1>4 DEF WkrDescribe
<1>5. CASE WkrMarkFrame
  <2>1. /\ wkrMaker # "idle" /\ UNCHANGED <<wkrMode, wkrEntry, wkrFiles, wkrProc, wkrStop, wkrEnder>>
        /\ wkrOwner' = [wkrOwner EXCEPT !.frame = TRUE]
    BY <1>5 DEF WkrMarkFrame
  <2>2. /\ wkrOwner'.frame /\ wkrOwner'.fenced = wkrOwner.fenced
        /\ wkrOwner'.attempted = wkrOwner.attempted /\ WkrTypeOK'
    BY <2>1
  <2> QED
    BY <2>1, <2>2
<1>6. CASE WkrPublish
  BY <1>6 DEF WkrPublish
<1>7. CASE WkrCancelCreate
  BY <1>7 DEF WkrCancelCreate
<1> QED
  BY <1>1, <1>2, <1>3, <1>4, <1>5, <1>6, <1>7

\* The child: it boots, serves, answers and dies.
LEMMA WkrChildSteps ==
  ASSUME WkrInv,
         \/ WkrServeCreate \/ WkrBoot \/ WkrExit \/ WkrServeDestroy
         \/ (\E r \in BOOLEAN : WkrConfirmStop(r))
         \/ WkrConnect \/ WkrDisconnect \/ WkrInspect
  PROVE  WkrInv'
<1> USE DEF WkrInv, WkrOwned
<1>1. CASE WkrServeCreate
  <2>1. PICK c \in VzConfigs : WkrAccepts(c) /\ VzCreateRegister(c)
    BY <1>1 DEF WkrServeCreate
  <2>2. /\ wkrOwner.frame /\ wkrProc = "serving" /\ wkrStop' = [wkrStop EXCEPT !.attempted = TRUE]
        /\ UNCHANGED <<wkrMode, wkrEntry, wkrOwner, wkrFiles, wkrProc, wkrEnder>>
    BY <1>1 DEF WkrServeCreate
  <2>3. wkrMode = "child" /\ WkrUp
    BY <2>2 DEF WkrAlone, WkrUp, WkrTypeOK
  <2>4. VzInv' /\ VzUnmade'
    BY <2>1, <2>3, VzCreateSteps
  <2>5. wkrStop'.receipt = wkrStop.receipt /\ WkrTypeOK'
    BY <2>2 DEF WkrTypeOK
  <2>6. vzInst.reg = "none" /\ vzInst'.offline
    BY <2>1 DEF VzCreateRegister, WkrAccepts, VzNoInstance
  <2> QED
    BY <2>2, <2>3, <2>4, <2>5, <2>6, WkrNativeMoves
<1>2. CASE WkrBoot
  <2>1. /\ wkrProc = "booting" /\ wkrProc' = "serving" /\ UNCHANGED vzNative
        /\ UNCHANGED <<wkrMode, wkrEntry, wkrOwner, wkrFiles, wkrMaker, wkrEnder, wkrStop>>
    BY <1>2 DEF WkrBoot, wkrParent
  <2>2. VzInv' /\ (VzUnmade => VzUnmade') /\ (VzAlive' <=> VzAlive) /\ vzInst' = vzInst
    BY <2>1, WkrStill
  <2>3. wkrMode = "child" /\ vzInst.reg = "none" /\ ~VzAlive /\ vzInst.offline
    BY <2>1 DEF WkrAlone, WkrBefore, WkrTypeOK
  <2>4. VzUnmade
    BY <2>3 DEF VzUnmade, VzInv, VzQuiet, VzStartFree
  <2>5. WkrTypeOK' /\ WkrSingle' /\ WkrAlone' /\ WkrBefore' /\ WkrFenced' /\ WkrEnded'
    BY <2>1, <2>2, <2>3 DEF WkrTypeOK, WkrSingle, WkrAlone, WkrBefore, WkrFenced, WkrEnded
  <2>6. WkrReceiptTrue'
    BY <2>1, <2>2, <2>3 DEF WkrReceiptTrue
  <2> QED
    BY <2>2, <2>4, <2>5, <2>6
<1>3. CASE WkrExit
  <2>1. /\ wkrProc \in {"booting", "serving"} /\ WkrDies
        /\ UNCHANGED <<wkrMode, wkrEntry, wkrOwner, wkrFiles, wkrMaker, wkrEnder, wkrStop>>
    BY <1>3 DEF WkrExit, wkrParent
  <2>2. wkrMode = "child"
    BY <2>1 DEF WkrAlone, WkrTypeOK
  <2>3. VzInv' /\ vzInst' = VzNoInstance /\ wkrProc' = "exited" /\ (~VzAlive => ~VzAlive')
    BY <2>1, <2>2, WkrDeath
  <2>4. WkrTypeOK' /\ WkrSingle' /\ WkrAlone' /\ WkrFenced' /\ WkrEnded' /\ ~WkrUp'
    BY <2>1, <2>2, <2>3 DEF WkrTypeOK, WkrSingle, WkrAlone, WkrFenced, WkrEnded, WkrUp
  <2>5. WkrBefore' /\ WkrReceiptTrue'
    BY <2>1, <2>2, <2>3 DEF WkrBefore, WkrReceiptTrue, VzNoInstance
  <2> QED
    BY <2>3, <2>4, <2>5
<1>4. CASE WkrServeDestroy
  <2>1. /\ wkrProc = "serving" /\ VzDestroyBegin
        /\ wkrStop' \in {wkrStop, [wkrStop EXCEPT !.confirmed = TRUE]}
        /\ UNCHANGED <<wkrMode, wkrEntry, wkrOwner, wkrFiles, wkrMaker, wkrProc, wkrEnder>>
    BY <1>4 DEF WkrServeDestroy, wkrParent
  <2>2. wkrMode = "child" /\ WkrUp /\ vzInst.reg = "held"
    BY <2>1 DEF WkrAlone, WkrTypeOK, WkrUp, VzDestroyBegin, VzHeld
  <2>3. VzInv' /\ VzUnmade'
    BY <2>1, <2>2, VzDestroySteps
  <2>4. wkrStop'.receipt = wkrStop.receipt /\ WkrTypeOK'
    BY <2>1 DEF WkrTypeOK
  <2>5. vzInst'.offline /\ wkrOwner.frame
    <3>1. vzInst.offline /\ wkrOwner.frame
      BY <2>2 DEF WkrBefore, WkrTypeOK
    <3>2. vzInst' \in {vzInst, VzForgotten(vzInst)}
      BY <2>1 DEF VzDestroyBegin
    <3> QED
      BY <3>1, <3>2 DEF VzForgotten, VzInv, VzTypeOK, VzInstances
  <2> QED
    BY <2>1, <2>2, <2>3, <2>4, <2>5, WkrNativeMoves
<1>5. ASSUME NEW r \in BOOLEAN, WkrConfirmStop(r)
      PROVE  WkrInv'
  <2>1. /\ wkrProc = "serving" /\ vzInst.reg = "forgotten" /\ UNCHANGED vzNative
        /\ wkrStop' = [wkrStop EXCEPT !.confirmed = TRUE, !.receipt = r]
        /\ UNCHANGED <<wkrMode, wkrEntry, wkrOwner, wkrFiles, wkrMaker, wkrProc, wkrEnder>>
    BY <1>5 DEF WkrConfirmStop, wkrParent
  <2>2. VzInv' /\ (VzUnmade => VzUnmade') /\ (VzAlive' <=> VzAlive) /\ vzInst' = vzInst
    BY <2>1, WkrStill
  <2>3. ~VzAlive
    BY <2>1 DEF VzInv, VzGone
  <2>4. WkrTypeOK' /\ WkrSingle' /\ WkrAlone' /\ WkrBefore' /\ WkrFenced' /\ WkrEnded'
    BY <2>1, <2>2 DEF WkrTypeOK, WkrSingle, WkrAlone, WkrBefore, WkrFenced, WkrEnded
  <2>5. WkrReceiptTrue'
    BY <2>1, <2>2, <2>3 DEF WkrReceiptTrue
  <2> QED
    BY <2>1, <2>2, <2>4, <2>5 DEF WkrUp
<1>6. CASE WkrConnect \/ WkrDisconnect \/ WkrInspect
  <2>1. /\ UNCHANGED vzNative
        /\ UNCHANGED <<wkrMode, wkrEntry, wkrOwner, wkrFiles, wkrMaker, wkrProc, wkrEnder, wkrStop>>
    BY <1>6 DEF WkrConnect, WkrDisconnect, WkrInspect, wkrParent, wkrChild
  <2>2. VzInv' /\ (VzUnmade => VzUnmade') /\ (VzAlive' <=> VzAlive) /\ vzInst' = vzInst
    BY <2>1, WkrStill
  <2> QED
    BY <2>1, <2>2 DEF WkrUp, WkrTypeOK, WkrSingle, WkrAlone, WkrBefore, WkrFenced, WkrEnded,
                      WkrReceiptTrue
<1> QED
  BY <1>1, <1>2, <1>3, <1>4, <1>5, <1>6

\* destroy_vm of the daemon: the entry is dropped only behind a receipt, or
\* when no Create frame was ever written.
LEMMA WkrDestroySteps ==
  ASSUME WkrInv,
         \/ WkrDestroy \/ WkrAskedEnough \/ WkrKill \/ WkrProve \/ WkrCleanup
         \/ WkrForget \/ WkrCancelDestroy
  PROVE  WkrInv'
<1> USE DEF WkrInv, WkrOwned
<1>1. CASE WkrDestroy \/ WkrAskedEnough \/ WkrCancelDestroy
  <2>1. /\ UNCHANGED vzNative /\ wkrEnder' \in {"idle", "asking", "killing"}
        /\ UNCHANGED <<wkrMode, wkrEntry, wkrOwner, wkrFiles, wkrMaker, wkrProc, wkrStop>>
        /\ wkrMode = "child"
    BY <1>1 DEF WkrDestroy, WkrAskedEnough, WkrCancelDestroy, wkrChild, WkrAlone, WkrTypeOK
  <2>2. VzInv' /\ (VzUnmade => VzUnmade') /\ (VzAlive' <=> VzAlive) /\ vzInst' = vzInst
    BY <2>1, WkrStill
  <2> QED
    BY <2>1, <2>2 DEF WkrUp, WkrTypeOK, WkrSingle, WkrAlone, WkrBefore, WkrFenced, WkrEnded,
                      WkrReceiptTrue
<1>2. CASE WkrKill
  <2>1. /\ wkrEnder = "killing" /\ wkrEnder' = "proving"
        /\ wkrOwner' = [wkrOwner EXCEPT !.fenced = TRUE, !.reaped = wkrOwner.child]
        /\ UNCHANGED <<wkrMode, wkrEntry, wkrFiles, wkrMaker, wkrStop>>
    BY <1>2 DEF WkrKill
  <2>2. wkrMode = "child"
    BY <2>1 DEF WkrAlone, WkrTypeOK
  <2>3. /\ wkrOwner'.fenced /\ wkrOwner'.frame = wkrOwner.frame
        /\ wkrOwner'.attempted = wkrOwner.attempted
        /\ wkrOwner' \in [attempted : BOOLEAN, fenced : BOOLEAN, child : BOOLEAN,
                           reaped : BOOLEAN, frame : BOOLEAN]
    BY <2>1 DEF WkrTypeOK
  <2>4. CASE wkrProc \in {"booting", "serving"}
    <3>1. VzInv' /\ vzInst' = VzNoInstance /\ wkrProc' = "exited" /\ (~VzAlive => ~VzAlive')
      BY <1>2, <2>2, <2>4, WkrDeath DEF WkrKill
    <3>2. WkrTypeOK' /\ WkrSingle' /\ WkrAlone' /\ WkrFenced' /\ WkrEnded' /\ ~WkrUp'
      BY <2>1, <2>2, <2>3, <2>4, <3>1
         DEF WkrTypeOK, WkrSingle, WkrAlone, WkrFenced, WkrEnded, WkrUp
    <3>3. WkrBefore' /\ WkrReceiptTrue'
      BY <2>1, <2>2, <2>3, <3>1 DEF WkrBefore, WkrReceiptTrue, VzNoInstance
    <3> QED
      BY <3>1, <3>2, <3>3
  <2>5. CASE wkrProc \notin {"booting", "serving"}
    <3>1. UNCHANGED vzNative /\ wkrProc' = wkrProc
      BY <1>2, <2>5 DEF WkrKill
    <3>2. VzInv' /\ (VzUnmade => VzUnmade') /\ (VzAlive' <=> VzAlive) /\ vzInst' = vzInst
      BY <3>1, WkrStill
    <3>3. WkrTypeOK' /\ WkrSingle' /\ WkrAlone' /\ WkrFenced' /\ WkrEnded' /\ ~WkrUp'
      BY <2>1, <2>2, <2>3, <2>5, <3>1, <3>2
         DEF WkrTypeOK, WkrSingle, WkrAlone, WkrFenced, WkrEnded, WkrUp
    <3>4. WkrBefore' /\ WkrReceiptTrue'
      BY <2>1, <2>2, <2>3, <3>1, <3>2 DEF WkrBefore, WkrReceiptTrue
    <3> QED
      BY <3>2, <3>3, <3>4
  <2> QED
    BY <2>4, <2>5
<1>3. CASE WkrProve
  <2>1. /\ wkrEnder = "proving" /\ UNCHANGED vzNative
        /\ UNCHANGED <<wkrMode, wkrEntry, wkrOwner, wkrMaker, wkrProc, wkrStop>>
    BY <1>3 DEF WkrProve, wkrChild
  <2>2. VzInv' /\ (VzUnmade => VzUnmade') /\ (VzAlive' <=> VzAlive) /\ vzInst' = vzInst
    BY <2>1, WkrStill
  <2>3. wkrMode = "child"
    BY <2>1 DEF WkrAlone, WkrTypeOK
  <2>4. CASE WkrNeedsReceipt /\ ~wkrStop.receipt
    <3>1. wkrEnder' = "idle" /\ wkrFiles' = wkrFiles
      BY <1>3, <2>4 DEF WkrProve
    <3> QED
      BY <2>1, <2>2, <2>3, <3>1 DEF WkrUp, WkrTypeOK, WkrSingle, WkrAlone, WkrBefore,
                                    WkrFenced, WkrEnded, WkrReceiptTrue
  <2>5. CASE ~(WkrNeedsReceipt /\ ~wkrStop.receipt)
    <3>1. wkrEnder' = "cleaning" /\ wkrFiles' = [wkrFiles EXCEPT !.confirmed = wkrOwner.frame]
      BY <1>3, <2>5 DEF WkrProve
    <3>2. wkrFiles'.confirmed = wkrOwner.frame /\ WkrTypeOK'
      BY <2>1, <3>1 DEF WkrTypeOK
    <3>3. ~wkrOwner.frame \/ wkrFiles.confirmed \/ wkrStop.receipt
      BY <2>5 DEF WkrNeedsReceipt
    <3>4. ~VzAlive
      BY <2>3, <3>3 DEF WkrBefore, WkrReceiptTrue
    <3>5. WkrSingle' /\ WkrAlone' /\ WkrBefore' /\ WkrFenced' /\ WkrEnded'
      BY <2>1, <2>2, <2>3, <3>1, <3>4 DEF WkrSingle, WkrAlone, WkrBefore, WkrFenced, WkrEnded
    <3>6. WkrReceiptTrue'
      BY <2>1, <2>2, <3>2, <3>3, <3>4 DEF WkrReceiptTrue
    <3> QED
      BY <2>1, <2>2, <3>2, <3>5, <3>6 DEF WkrUp
  <2> QED
    BY <2>4, <2>5
<1>4. CASE WkrCleanup
  <2>1. /\ wkrEnder = "cleaning" /\ wkrEnder' \in {"idle", "forgetting"} /\ UNCHANGED vzNative
        /\ wkrFiles' \in {wkrFiles, [wkrFiles EXCEPT !.removed = TRUE]}
        /\ UNCHANGED <<wkrMode, wkrEntry, wkrOwner, wkrMaker, wkrProc, wkrStop>>
    BY <1>4 DEF WkrCleanup, wkrChild
  <2>2. VzInv' /\ (VzUnmade => VzUnmade') /\ (VzAlive' <=> VzAlive) /\ vzInst' = vzInst
    BY <2>1, WkrStill
  <2>3. wkrFiles'.confirmed = wkrFiles.confirmed /\ WkrTypeOK' /\ wkrMode = "child"
    BY <2>1 DEF WkrTypeOK, WkrAlone
  <2> QED
    BY <2>1, <2>2, <2>3 DEF WkrUp, WkrSingle, WkrAlone, WkrBefore, WkrFenced, WkrEnded,
                            WkrReceiptTrue
<1>5. CASE WkrForget
  <2>1. /\ wkrEnder = "forgetting" /\ wkrEnder' = "idle" /\ wkrEntry' = "gone"
        /\ UNCHANGED <<wkrMode, wkrOwner, wkrFiles, wkrMaker, wkrProc, wkrStop>>
        /\ UNCHANGED vzNative
    BY <1>5 DEF WkrForget, wkrChild
  <2>2. VzInv' /\ (VzUnmade => VzUnmade') /\ (VzAlive' <=> VzAlive) /\ vzInst' = vzInst
    BY <2>1, WkrStill
  <2>3. wkrMode = "child"
    BY <2>1 DEF WkrAlone, WkrTypeOK
  <2> QED
    BY <2>1, <2>2, <2>3 DEF WkrUp, WkrTypeOK, WkrSingle, WkrAlone, WkrBefore, WkrFenced,
                            WkrEnded, WkrReceiptTrue
<1> QED
  BY <1>1, <1>2, <1>3, <1>4, <1>5

\* The native backend behind the daemon or behind the child.
LEMMA WkrNativeSteps ==
  ASSUME WkrInv, WkrNative \/ WkrDirect
  PROVE  WkrInv'
<1> USE DEF WkrInv, WkrOwned
<1>1. /\ UNCHANGED <<wkrMode, wkrEntry, wkrOwner, wkrFiles, wkrMaker, wkrEnder, wkrProc, wkrStop>>
      /\ WkrUp
  BY DEF WkrNative, WkrDirect, wkrParent, wkrChild, WkrUp
<1>2. WkrTypeOK'
  BY <1>1 DEF WkrTypeOK
<1>3. CASE WkrNative
  <2>1. VzInv' /\ VzUnmade'
    BY <1>1, <1>3, VzBackgroundSteps, VzCreateSteps, VzDestroySteps DEF WkrNative, VzProgress
  <2>2. vzInst.reg = "forgotten" => vzInst'.reg = "forgotten"
    BY <1>3, VzForgottenStays DEF WkrNative
  <2>3. wkrMode = "child" => wkrOwner.frame
    BY <1>3, VzNothingMoves DEF WkrNative, WkrBefore, WkrTypeOK
  <2>4. vzInst'.offline = vzInst.offline
    BY <1>3 DEF WkrNative, VzBackground, VzProgress, VzRunConfigure, VzRunOperation,
                VzStartCompletes, VzGuestEnds, VzCreateStart, VzCreateSettle, VzDestroyJudge,
                VzDestroyUnseen, VzForgotten, VzInv, VzTypeOK, VzInstances
  <2> QED
    BY <1>1, <1>2, <2>1, <2>2, <2>3, <2>4, WkrNativeMoves DEF WkrBefore
<1>4. CASE WkrDirect
  <2>1. wkrMode = "direct"
    BY <1>4 DEF WkrDirect
  <2>2. VzInv' /\ VzUnmade'
    BY <1>1, <1>4, VzCreateSteps, VzDestroySteps, VzCallSteps DEF WkrDirect
  <2>3. ~wkrStop.receipt /\ ~wkrFiles.confirmed /\ wkrEntry = "none" /\ wkrEnder = "idle"
    BY <2>1 DEF WkrAlone
  <2> QED
    BY <1>1, <1>2, <2>1, <2>2, <2>3 DEF WkrUp, WkrSingle, WkrAlone, WkrBefore, WkrFenced,
                                        WkrEnded, WkrReceiptTrue
<1> QED
  BY <1>3, <1>4

\* Across lost replies, a child that dies at any moment, cancelled creations and
\* destructions, and retries: a VZ machine is released only after it has
\* stopped, with no start left in the queue, and an offline one never gets a
\* network device (apple_vz.rs, apple_vz_worker.rs, vz_worker_owner.rs).
THEOREM VzMachinesOwnedUntilStopped ==
  WkrInit /\ [][WkrNext]_wkrVars => []VzOwnedUntilStopped
<1>1. WkrInit => WkrInv
  BY WkrStarts
<1>2. WkrInv /\ [WkrNext]_wkrVars => WkrInv'
  <2>1. ASSUME WkrInv, WkrNext PROVE WkrInv'
    BY <2>1, WkrCreateSteps, WkrChildSteps, WkrDestroySteps, WkrNativeSteps DEF WkrNext
  <2>2. ASSUME WkrInv, UNCHANGED wkrVars PROVE WkrInv'
    <3>1. VzInv' /\ (VzUnmade => VzUnmade') /\ (VzAlive' <=> VzAlive) /\ vzInst' = vzInst
      BY <2>2, WkrStill DEF wkrVars, vzNative
    <3> QED
      BY <2>2, <3>1 DEF wkrVars, WkrInv, WkrOwned, WkrUp, WkrTypeOK, WkrSingle, WkrAlone,
                        WkrBefore, WkrFenced, WkrEnded, WkrReceiptTrue
  <2> QED
    BY <2>1, <2>2
<1>3. WkrInv => VzOwnedUntilStopped
  <2> SUFFICES ASSUME WkrInv PROVE VzReleaseSound /\ VzOfflineSound
    BY DEF VzOwnedUntilStopped
  <2> USE DEF WkrInv, WkrOwned
  <2>1. CASE wkrEntry = "gone"
    <3>1. vzInst = VzNoInstance /\ ~VzAlive
      BY <2>1 DEF WkrFenced, WkrEnded, WkrBefore, WkrAlone, WkrTypeOK
    <3>2. vzQueue = <<>>
      BY <3>1 DEF VzNoInstance, VzInv, VzQuiet
    <3> QED
      BY <3>1, <3>2 DEF VzReleaseSound, VzOfflineSound, VzNoInstance
  <2>2. CASE wkrEntry # "gone"
    <3>1. VzReleaseSound
      BY <2>2 DEF VzReleaseSound, VzReleased, VzInv, VzGone, VzStartFree
    <3>2. VzOfflineSound
      BY DEF VzOfflineSound, VzInv, VzCut, VzNetFree, WkrBefore
    <3> QED
      BY <3>1, <3>2
  <2> QED
    BY <2>1, <2>2
<1> QED
  BY <1>1, <1>2, <1>3, PTL

-----------------------------------------------------------------------------
(* The serial log and its follower.                                        *)

SerByte == Nat \X Nat

\* The bytes s are those of boot b at the places just after p.
SerRun(s, b, p) ==
  /\ s \in Seq(SerByte)
  /\ \A i \in 1..Len(s) : s[i] = <<b, p + i>>

\* A piece of a run is a run, from its own place.
LEMMA SerRunPiece ==
  ASSUME NEW s, NEW b \in Nat, NEW p \in Nat, SerRun(s, b, p),
         NEW j \in Nat, NEW k \in Nat, j <= k, k <= Len(s)
  PROVE /\ SerRun(SubSeq(s, j + 1, k), b, p + j)
        /\ Len(SubSeq(s, j + 1, k)) = k - j
<1> DEFINE t == SubSeq(s, j + 1, k)
<1>0. s \in Seq(SerByte) /\ Len(s) \in Nat BY DEF SerRun
<1>1. \A i \in (j + 1)..k : s[i] \in SerByte  BY <1>0
<1>2. t \in Seq(SerByte) /\ Len(t) = k - j /\ \A i \in 1..Len(t) : t[i] = s[j + i]
  <2>1. CASE j = k
    <3>1. t = << >>  BY <2>1, <1>0
    <3> QED BY <3>1, <2>1
  <2>2. CASE j < k
    <3>1. /\ t \in Seq(SerByte)
          /\ Len(t) = k - (j + 1) + 1
          /\ \A i \in 1..(k - (j + 1) + 1) : t[i] = s[j + 1 + i - 1]
      BY <2>2, <1>0, <1>1, SubSeqProperties
    <3> QED BY <3>1
  <2> QED BY <2>1, <2>2
<1>3. \A i \in 1..Len(t) : t[i] = <<b, (p + j) + i>>
  <2> TAKE i \in 1..Len(t)
  <2> HIDE DEF t
  <2>4. t[i] = s[j + i]  BY <1>2
  <2>5. i \in 1..(k - j)  BY <1>2
  <2>6. j + i \in 1..Len(s)  BY <1>0, <2>5
  <2>1. t[i] = s[j + i] /\ j + i \in 1..Len(s)  BY <2>4, <2>6
  <2>2. s[j + i] = <<b, p + (j + i)>>  BY <2>1 DEF SerRun
  <2>3. p + (j + i) = (p + j) + i  BY <1>0, <1>2
  <2> QED BY <2>1, <2>2, <2>3
<1> QED BY <1>2, <1>3 DEF SerRun

\* The end of a run is a run.
LEMMA SerRunTail ==
  ASSUME NEW s, NEW b \in Nat, NEW p \in Nat, SerRun(s, b, p),
         NEW n \in Nat, n <= Len(s)
  PROVE /\ SerRun(SerTail(s, n), b, p + (Len(s) - n))
        /\ Len(SerTail(s, n)) = n
<1>1. Len(s) \in Nat  BY DEF SerRun
<1> DEFINE j == Len(s) - n
<1>2. j \in Nat /\ j <= Len(s) /\ Len(s) <= Len(s) /\ Len(s) - j = n  BY <1>1
<1>3. SerTail(s, n) = SubSeq(s, j + 1, Len(s))  BY DEF SerTail
<1> HIDE DEF j
<1>4. SerRun(SubSeq(s, j + 1, Len(s)), b, p + j) /\ Len(SubSeq(s, j + 1, Len(s))) = Len(s) - j
  BY <1>1, <1>2, SerRunPiece, Zenon
<1> QED BY <1>1, <1>2, <1>3, <1>4 DEF j

\* Two runs that meet are one run.
LEMMA SerRunJoin ==
  ASSUME NEW s, NEW t, NEW b \in Nat, NEW p \in Nat, NEW q \in Nat,
         SerRun(s, b, p), SerRun(t, b, q), q = p + Len(s)
  PROVE SerRun(s \o t, b, p) /\ Len(s \o t) = Len(s) + Len(t)
<1>0. s \in Seq(SerByte) /\ Len(s) \in Nat /\ t \in Seq(SerByte) /\ Len(t) \in Nat
  BY DEF SerRun
<1>1. /\ s \o t \in Seq(SerByte) /\ Len(s \o t) = Len(s) + Len(t)
      /\ \A i \in 1..Len(s) + Len(t) :
            (s \o t)[i] = IF i <= Len(s) THEN s[i] ELSE t[i - Len(s)]
  BY <1>0, ConcatProperties
<1>2. \A i \in 1..Len(s \o t) : (s \o t)[i] = <<b, p + i>>
  <2> TAKE i \in 1..Len(s \o t)
  <2>1. i \in Nat /\ i \in 1..Len(s) + Len(t)  BY <1>1, <1>0
  <2>2. CASE i <= Len(s)
    BY <2>1, <2>2, <1>0, <1>1 DEF SerRun
  <2>3. CASE i > Len(s)
    <3>1. (s \o t)[i] = t[i - Len(s)] /\ i - Len(s) \in 1..Len(t)
      BY <2>1, <2>3, <1>0, <1>1
    <3>2. t[i - Len(s)] = <<b, q + (i - Len(s))>>  BY <3>1 DEF SerRun
    <3>3. q + (i - Len(s)) = p + i  BY <2>1, <1>0
    <3> QED BY <3>1, <3>2, <3>3
  <2> QED BY <2>1, <2>2, <2>3, <1>0
<1> QED BY <1>1, <1>2 DEF SerRun

\* What a long enough run leaves of the bytes before it: nothing.
LEMMA SerRunLast ==
  ASSUME NEW a \in Seq(SerByte), NEW s, NEW b \in Nat, NEW p \in Nat,
         SerRun(s, b, p), NEW n \in Nat, n <= Len(s)
  PROVE /\ SerRun(SerTail(a \o s, n), b, p + (Len(s) - n))
        /\ Len(SerTail(a \o s, n)) = n
<1> DEFINE c == a \o s
<1>0. s \in Seq(SerByte) /\ Len(s) \in Nat /\ Len(a) \in Nat  BY DEF SerRun
<1>1. /\ c \in Seq(SerByte) /\ Len(c) = Len(a) + Len(s)
      /\ \A i \in 1..Len(a) + Len(s) : c[i] = IF i <= Len(a) THEN a[i] ELSE s[i - Len(a)]
  BY <1>0, ConcatProperties
<1> HIDE DEF c
<1> DEFINE j == Len(s) - n
           m == Len(a) + j
<1>2. j \in Nat /\ j = Len(s) - n  BY <1>0
<1>3. m \in Nat /\ m = Len(a) + j  BY <1>0, <1>2
<1> HIDE DEF j, m
<1> USE <1>2, <1>3
<1>4. SerTail(c, n) = SubSeq(c, m + 1, m + n) /\ m + n = Len(c)
  BY <1>0, <1>1, <1>2, <1>3 DEF SerTail
<1> DEFINE t == SubSeq(c, m + 1, m + n)
<1>5. t \in Seq(SerByte) /\ Len(t) = n /\ \A i \in 1..n : t[i] = c[m + i]
  <2>1. CASE n = 0
    <3>1. t = << >>  BY <2>1, <1>1, <1>4
    <3> QED BY <3>1, <2>1
  <2>2. CASE n > 0
    <3>0. m + 1 \in Nat /\ m + n \in Nat  BY <1>3
    <3>1. PICK lo \in Nat, hi \in Nat : lo = m + 1 /\ hi = m + n  BY <3>0, Zenon
    <3>2. lo >= 1 /\ lo <= hi /\ hi = Len(c) /\ t = SubSeq(c, lo, hi)
      BY <2>2, <1>0, <1>3, <1>4, <3>1
    <3>3. \A i \in 1..Len(c) : c[i] \in SerByte  BY <1>1
    <3>4. lo \in Int /\ hi \in Int /\ \A i \in lo..hi : c[i] \in SerByte
      BY <3>1, <3>2, <3>3
    <3>5. /\ t \in Seq(SerByte) /\ Len(t) = hi - lo + 1
          /\ \A i \in 1..(hi - lo + 1) : t[i] = c[lo + i - 1]
      <4>1. /\ SubSeq(c, lo, hi) \in Seq(SerByte)
            /\ Len(SubSeq(c, lo, hi)) = IF lo <= hi THEN hi - lo + 1 ELSE 0
            /\ \A i \in 1..(hi - lo + 1) : SubSeq(c, lo, hi)[i] = c[lo + i - 1]
        BY ONLY <3>4, SubSeqProperties
      <4> QED BY <3>2, <4>1
    <3>6. hi - lo + 1 = n /\ \A i \in 1..n : lo + i - 1 = m + i  BY <1>0, <1>3, <3>1
    <3> QED BY <3>5, <3>6
  <2> QED BY <2>1, <2>2
<1>6. \A i \in 1..n : t[i] = <<b, (p + j) + i>>
  <2> TAKE i \in 1..n
  <2>1. t[i] = c[m + i]  BY <1>5
  <2>2. c[m + i] = s[j + i] /\ j + i \in 1..Len(s)
    <3>1. /\ m + i \in 1..Len(a) + Len(s) /\ ~(m + i <= Len(a))
          /\ (m + i) - Len(a) = j + i /\ j + i \in 1..Len(s)
      BY <1>0
    <3> QED BY <3>1, <1>1
  <2>3. s[j + i] = <<b, p + (j + i)>>  BY <2>2 DEF SerRun
  <2>4. p + (j + i) = (p + j) + i  OBVIOUS
  <2> QED BY <2>1, <2>2, <2>3, <2>4
<1> QED BY <1>2, <1>4, <1>5, <1>6 DEF SerRun, c, j

\* The same places of the same boot hold the same bytes.
LEMMA SerRunSame ==
  ASSUME NEW s, NEW t, NEW b \in Nat, NEW p \in Nat, NEW q \in Nat,
         SerRun(s, b, p), SerRun(t, b, q), p = q, Len(s) = Len(t)
  PROVE s = t
<1>0. s \in Seq(SerByte) /\ t \in Seq(SerByte)  BY DEF SerRun
<1>1. \A i \in 1..Len(s) : s[i] = t[i]  BY DEF SerRun
<1> QED BY <1>0, <1>1, SeqEqual

\* Two boots never write the same bytes.
LEMMA SerRunOther ==
  ASSUME NEW s, NEW t, NEW b \in Nat, NEW c \in Nat, NEW p \in Nat, NEW q \in Nat,
         SerRun(s, b, p), SerRun(t, c, q), b # c, Len(s) > 0, Len(t) > 0
  PROVE s # t
<1>0. Len(s) \in Nat /\ Len(t) \in Nat  BY DEF SerRun
<1>1. s[1] = <<b, p + 1>> /\ t[1] = <<c, q + 1>>  BY <1>0 DEF SerRun
<1> QED BY <1>1

\* What remembering leaves: the newest bytes shown, as one run that ends where
\* the shown bytes end.
LEMMA SerRememberJoin ==
  ASSUME NEW a, NEW s, NEW b \in Nat, NEW p \in Nat, NEW q \in Nat,
         SerRun(a, b, q), SerRun(s, b, p), p = q + Len(a)
  PROVE \E n \in Nat :
           /\ n = SerLeast(SerAnchor, Len(a) + Len(s)) /\ n <= SerAnchor
           /\ n <= p + Len(s) /\ (p + Len(s)) - n \in Nat
           /\ SerRun(SerRemember(a, s), b, (p + Len(s)) - n)
           /\ Len(SerRemember(a, s)) = n
<1> DEFINE c == a \o s
           n == SerLeast(SerAnchor, Len(c))
<1>0. Len(a) \in Nat /\ Len(s) \in Nat /\ SerAnchor \in Nat
  BY SerAssumption DEF SerRun
<1>1. SerRun(c, b, q) /\ Len(c) = Len(a) + Len(s)  BY SerRunJoin, Zenon
<1>2. SerRemember(a, s) = SerTail(c, n)  BY DEF SerRemember
<1> HIDE DEF c
<1>3. n \in Nat /\ n <= Len(c) /\ n <= SerAnchor /\ Len(c) \in Nat
  BY <1>0, <1>1 DEF SerLeast
<1>4. n = SerLeast(SerAnchor, Len(a) + Len(s))  BY <1>1
<1> HIDE DEF n
<1>5. SerRun(SerTail(c, n), b, q + (Len(c) - n)) /\ Len(SerTail(c, n)) = n
  BY <1>1, <1>3, SerRunTail, Zenon
<1>6. /\ q + (Len(c) - n) = (p + Len(s)) - n /\ n <= p + Len(s)
      /\ (p + Len(s)) - n \in Nat
  BY <1>0, <1>1, <1>3
<1> QED BY <1>2, <1>3, <1>4, <1>5, <1>6, Zenon

\* Shown bytes as long as the anchor are all that it remembers.
LEMMA SerRememberLong ==
  ASSUME NEW a \in Seq(SerByte), NEW s, NEW b \in Nat, NEW p \in Nat,
         SerRun(s, b, p), Len(s) >= SerAnchor
  PROVE /\ SerRun(SerRemember(a, s), b, (p + Len(s)) - SerAnchor)
        /\ Len(SerRemember(a, s)) = SerAnchor
<1>0. s \in Seq(SerByte) /\ Len(a) \in Nat /\ Len(s) \in Nat /\ SerAnchor \in Nat
      /\ SerAnchor <= Len(s)
  BY SerAssumption DEF SerRun
<1>1. Len(a \o s) = Len(a) + Len(s)  BY <1>0, ConcatProperties
<1>2. SerLeast(SerAnchor, Len(a \o s)) = SerAnchor  BY <1>0, <1>1 DEF SerLeast
<1>3. SerRemember(a, s) = SerTail(a \o s, SerAnchor)  BY <1>2 DEF SerRemember
<1>4. /\ SerRun(SerTail(a \o s, SerAnchor), b, p + (Len(s) - SerAnchor))
      /\ Len(SerTail(a \o s, SerAnchor)) = SerAnchor
  BY <1>0, SerRunLast, SMT
<1>5. p + (Len(s) - SerAnchor) = (p + Len(s)) - SerAnchor  BY <1>0
<1> QED BY <1>3, <1>4, <1>5, Zenon

\* Nothing is a run anywhere.
LEMMA SerRunEmpty ==
  ASSUME NEW b, NEW p
  PROVE SerRun(<<>>, b, p) /\ Len(<<>>) = 0
BY DEF SerRun

\* The follower remembers a run of boot b that ends at its place p (b = 0 when
\* it has shown nothing since the last notice), no longer than the anchor.
SerHolds(a, b, p) ==
  /\ Len(a) <= SerAnchor /\ Len(a) <= p
  /\ Len(a) > 0 <=> b > 0
  /\ SerRun(a, b, p - Len(a))

\* A follower that starts over remembers what it shows.
LEMMA SerHoldsFresh ==
  ASSUME NEW s, NEW b \in Nat \ {0}, NEW q \in Nat, SerRun(s, b, q)
  PROVE /\ s = <<>> => SerHolds(SerRemember(<<>>, s), 0, q + Len(s))
        /\ s # <<>> => /\ SerHolds(SerRemember(<<>>, s), b, q + Len(s))
                       /\ s[Len(s)] = <<b, q + Len(s)>>
<1>0. s \in Seq(SerByte) /\ Len(s) \in Nat /\ SerAnchor \in Nat \ {0}
  BY SerAssumption DEF SerRun
<1>1. SerRun(<<>>, b, q) /\ Len(<<>>) = 0 /\ q = q + Len(<<>>)  BY SerRunEmpty
<1>2. PICK n \in Nat : /\ n = SerLeast(SerAnchor, Len(<<>>) + Len(s)) /\ n <= SerAnchor
                       /\ n <= q + Len(s) /\ (q + Len(s)) - n \in Nat
                       /\ SerRun(SerRemember(<<>>, s), b, (q + Len(s)) - n)
                       /\ Len(SerRemember(<<>>, s)) = n
  BY <1>1, SerRememberJoin, Zenon
<1>3. n = 0 <=> Len(s) = 0  BY <1>0, <1>1, <1>2 DEF SerLeast
<1>4. CASE s = <<>>
  <2>1. n = 0  BY <1>3, <1>4
  <2>2. SerRemember(<<>>, s) = <<>>  BY <2>1, <1>2 DEF SerRun
  <2>3. SerRun(SerRemember(<<>>, s), 0, (q + Len(s)) - n)  BY <2>2, SerRunEmpty
  <2> QED BY <1>2, <1>4, <2>1, <2>3 DEF SerHolds
<1>5. CASE s # <<>>
  <2>1. Len(s) > 0 /\ n > 0  BY <1>0, <1>2, <1>3, <1>5
  <2>2. s[Len(s)] = <<b, q + Len(s)>>  BY <1>0, <2>1 DEF SerRun
  <2> QED BY <1>2, <1>5, <2>1, <2>2 DEF SerHolds
<1> QED BY <1>4, <1>5

\* A follower that goes on in the same boot remembers across the seam.
LEMMA SerHoldsMore ==
  ASSUME NEW a, NEW s, NEW b \in Nat \ {0}, NEW p \in Nat,
         SerHolds(a, b, p), SerRun(s, b, p)
  PROVE SerHolds(SerRemember(a, s), b, p + Len(s))
<1>0. Len(a) \in Nat /\ Len(s) \in Nat /\ SerAnchor \in Nat \ {0} /\ Len(a) > 0
  BY SerAssumption DEF SerRun, SerHolds
<1> DEFINE q == p - Len(a)
<1>1. q \in Nat /\ p = q + Len(a)  BY <1>0 DEF SerHolds
<1>2. SerRun(a, b, q)  BY DEF SerHolds
<1> HIDE DEF q
<1>3. PICK n \in Nat : /\ n = SerLeast(SerAnchor, Len(a) + Len(s)) /\ n <= SerAnchor
                       /\ n <= p + Len(s) /\ (p + Len(s)) - n \in Nat
                       /\ SerRun(SerRemember(a, s), b, (p + Len(s)) - n)
                       /\ Len(SerRemember(a, s)) = n
  BY <1>1, <1>2, SerRememberJoin, Zenon
<1>4. n > 0  BY <1>0, <1>3 DEF SerLeast
<1> QED BY <1>3, <1>4 DEF SerHolds

\* Enough new bytes of a boot push every older byte out.
LEMMA SerHoldsAll ==
  ASSUME NEW a \in Seq(SerByte), NEW s, NEW b \in Nat \ {0}, NEW p \in Nat,
         SerRun(s, b, p), Len(s) >= SerAnchor
  PROVE SerHolds(SerRemember(a, s), b, p + Len(s))
<1>0. Len(s) \in Nat /\ SerAnchor \in Nat \ {0}  BY SerAssumption DEF SerRun
<1>1. /\ SerRun(SerRemember(a, s), b, (p + Len(s)) - SerAnchor)
      /\ Len(SerRemember(a, s)) = SerAnchor
  BY SerRememberLong
<1> QED BY <1>0, <1>1 DEF SerHolds

-----------------------------------------------------------------------------
\* The log holds a run of this boot within its cap; once anything of the boot
\* was discarded it holds more than two anchors.
SerLogSound ==
  /\ serLog \in [there : BOOLEAN, inode : Nat, marker : Nat, discarded : Nat,
                 bytes : Seq(SerByte)]
  /\ serLog.there =>
       /\ serLog.inode \in SerInodes
       /\ serLog.marker <= SerMarkerMax
       /\ serLog.marker + Len(serLog.bytes) <= SerLimit
       /\ SerRun(serLog.bytes, serBoot, serLog.discarded)
       /\ serLog.discarded > 0 => Len(serLog.bytes) > 2 * SerAnchor

\* While it writes, the drain's own counts are those of the file.
SerDrainSound ==
  /\ serMade \in Nat /\ serLength \in Nat /\ serDiscarded \in Nat /\ serBroken \in BOOLEAN
  /\ ~serBroken /\ serLog.there =>
       /\ serLength = serLog.marker + Len(serLog.bytes)
       /\ serDiscarded = serLog.discarded
       /\ serMade = serLog.discarded + Len(serLog.bytes)

\* A follower at place p of the boot b, whose log had inode i and d discarded
\* bytes when it looked, remembers a.  A compaction since then discarded more.
SerFollows(p, i, d, a, b) ==
  /\ serReader = [on |-> TRUE, position |-> p, inode |-> i, discarded |-> d,
                  anchor |-> a, last |-> IF b = 0 THEN <<>> ELSE <<b, p>>]
  /\ SerHolds(a, b, p)
  /\ b = serBoot /\ serLog.there => /\ p <= SerEnd /\ d <= serLog.discarded
                                    /\ i # serLog.inode => d < serLog.discarded
SerReaderSound ==
  \/ serReader = [on |-> FALSE]
  \/ \E p \in Nat, i \in Nat, d \in Nat, a \in Seq(SerByte), b \in 0..serBoot :
        SerFollows(p, i, d, a, b)

SerInv ==
  /\ serBoot \in Nat \ {0}
  /\ SerLogSound /\ SerDrainSound /\ SerReaderSound /\ SerNoSilentSeam

\* The capture starts with an empty log and no follower.
LEMMA SerInitInv == SerInit => SerInv
<1> SUFFICES ASSUME SerInit PROVE SerInv  OBVIOUS
<1>1. SerRun(<<>>, serBoot, 0) /\ Len(<<>>) = 0  BY SerRunEmpty
<1>0. serLog = [there |-> TRUE, inode |-> 1, marker |-> 0, discarded |-> 0, bytes |-> <<>>]
  BY DEF SerInit, SerNewLog, SerNoLog
<1>2. SerLogSound
  <2>1. <<>> \in Seq(SerByte)  OBVIOUS
  <2>2. /\ serLog.there /\ serLog.inode = 1 /\ serLog.marker = 0 /\ serLog.discarded = 0
        /\ serLog.bytes = <<>>
    BY <1>0
  <2> QED BY <1>0, <1>1, <2>1, <2>2, SerAssumption DEF SerLogSound, SerInodes
<1>3. SerDrainSound
  <2>1. serLog.marker + Len(serLog.bytes) = 0 /\ serLog.discarded + Len(serLog.bytes) = 0
        /\ serLog.discarded = 0
    BY <1>0, <1>1
  <2>2. serMade = 0 /\ serLength = 0 /\ serDiscarded = 0 /\ serBroken = FALSE  BY DEF SerInit
  <2>3. serMade \in Nat /\ serLength \in Nat /\ serDiscarded \in Nat  BY <2>2
  <2> QED BY <2>1, <2>2, <2>3, Zenon DEF SerDrainSound
<1>4. SerReaderSound  BY DEF SerReaderSound, SerInit
<1>5. SerNoSilentSeam  BY DEF SerNoSilentSeam, SerInit, SerNothing
<1> QED BY <1>2, <1>3, <1>4, <1>5 DEF SerInv, SerInit

\* The steps that leave log and follower alone, or remove one of them.
LEMMA SerEasySteps ==
  ASSUME SerInv, SerStorageFails \/ SerRemove \/ SerPollGone \/ UNCHANGED serVars
  PROVE SerInv'
<1> USE DEF SerInv
<1>1. CASE SerStorageFails
  <2> USE <1>1 DEF SerStorageFails
  <2>1. SerLogSound'  BY DEF SerLogSound
  <2>2. SerDrainSound'  BY DEF SerDrainSound
  <2>3. SerReaderSound'  BY DEF SerReaderSound, SerFollows, SerEnd
  <2>4. SerNoSilentSeam'  BY DEF SerNoSilentSeam
  <2> QED BY <2>1, <2>2, <2>3, <2>4
<1>2. CASE SerRemove
  <2> USE <1>2 DEF SerRemove, serWriter
  <2>0. /\ serLog' = [there |-> FALSE, inode |-> 0, marker |-> 0, discarded |-> 0,
                      bytes |-> <<>>]
        /\ <<>> \in Seq(SerByte)
    BY DEF SerNoLog
  <2>1. SerLogSound'  BY <2>0 DEF SerLogSound
  <2>2. SerDrainSound'  BY <2>0 DEF SerDrainSound
  <2>3. SerReaderSound'  BY <2>0 DEF SerReaderSound, SerFollows
  <2>4. SerNoSilentSeam'  BY DEF SerNoSilentSeam
  <2> QED BY <2>1, <2>2, <2>3, <2>4
<1>3. CASE SerPollGone
  <2> USE <1>3 DEF SerPollGone, serWriter
  <2>1. SerLogSound'  BY DEF SerLogSound
  <2>2. SerDrainSound'  BY DEF SerDrainSound
  <2>3. SerReaderSound'  BY DEF SerReaderSound
  <2>4. SerNoSilentSeam'  BY DEF SerNoSilentSeam, SerNothing
  <2> QED BY <2>1, <2>2, <2>3, <2>4
<1>4. CASE UNCHANGED serVars
  <2> USE <1>4 DEF serVars
  <2>1. SerLogSound'  BY DEF SerLogSound
  <2>2. SerDrainSound'  BY DEF SerDrainSound
  <2>3. SerReaderSound'  BY DEF SerReaderSound, SerFollows, SerEnd
  <2>4. SerNoSilentSeam'  BY DEF SerNoSilentSeam
  <2> QED BY <2>1, <2>2, <2>3, <2>4
<1> QED BY <1>1, <1>2, <1>3, <1>4

\* A new boot: nothing that the follower remembers is of it.
LEMMA SerBootStep ==
  ASSUME SerInv, NEW j \in SerInodes, SerBootAgain(j)
  PROVE SerInv'
<1> USE DEF SerInv
<1>0. /\ serLog' = [there |-> TRUE, inode |-> j, marker |-> 0, discarded |-> 0, bytes |-> <<>>]
      /\ serBoot' = serBoot + 1 /\ serMade' = 0 /\ serLength' = 0 /\ serDiscarded' = 0
      /\ serBroken' = FALSE /\ serReader' = serReader /\ serShown' = serShown
  BY DEF SerBootAgain, SerNewLog, SerNoLog
<1>1. SerRun(<<>>, serBoot', 0) /\ Len(<<>>) = 0 /\ <<>> \in Seq(SerByte)  BY SerRunEmpty
<1>2. /\ serLog'.there /\ serLog'.inode = j /\ serLog'.marker = 0 /\ serLog'.discarded = 0
      /\ serLog'.bytes = <<>> /\ j \in Nat
  BY <1>0 DEF SerInodes
<1>3. SerLogSound'  BY <1>0, <1>1, <1>2, SerAssumption DEF SerLogSound
<1>4. SerDrainSound'
  <2>1. /\ serLog'.marker + Len(serLog'.bytes) = 0 /\ serLog'.discarded + Len(serLog'.bytes) = 0
        /\ serMade' \in Nat /\ serLength' \in Nat /\ serDiscarded' \in Nat
    BY <1>0, <1>1, <1>2
  <2> QED BY <2>1, <1>0, <1>2, Zenon DEF SerDrainSound
<1>5. SerReaderSound'
  <2>1. CASE serReader = [on |-> FALSE]  BY <2>1, <1>0 DEF SerReaderSound
  <2>2. CASE \E p \in Nat, i \in Nat, d \in Nat, a \in Seq(SerByte), b \in 0..serBoot :
                SerFollows(p, i, d, a, b)
    <3> PICK p \in Nat, i \in Nat, d \in Nat, a \in Seq(SerByte), b \in 0..serBoot :
             SerFollows(p, i, d, a, b)
      BY <2>2
    <3>1. b \in 0..serBoot' /\ b # serBoot'  BY <1>0
    <3>2. SerFollows(p, i, d, a, b)'  BY <1>0, <3>1 DEF SerFollows
    <3> QED BY <3>1, <3>2 DEF SerReaderSound
  <2> QED BY <2>1, <2>2 DEF SerReaderSound
<1>6. SerNoSilentSeam'  BY <1>0 DEF SerNoSilentSeam
<1> QED BY <1>0, <1>3, <1>4, <1>5, <1>6

\* A chunk: a compaction keeps more than half of the cap, discards at least one
\* byte more than the log had discarded before, and changes the inode.
LEMMA SerDrainStep ==
  ASSUME SerInv, NEW n \in 1..SerChunk, SerDrain(n)
  PROVE SerInv'
<1> USE DEF SerInv
<1> DEFINE content == Len(serLog.bytes)
           room == SerLimit - SerMarkerMax
           over == serLength + n > SerLimit
           keep == SerLeast(SerLeast(room - n, SerLimit \div 2), content)
           D == serLog.discarded
<1>0. /\ serLog.there /\ serLog.inode \in SerInodes /\ serLog.marker \in Nat
      /\ D \in Nat /\ serLog.marker <= SerMarkerMax
      /\ serLog.marker + content <= SerLimit /\ SerRun(serLog.bytes, serBoot, D)
      /\ D > 0 => content > 2 * SerAnchor
      /\ content \in Nat /\ serLog.bytes \in Seq(SerByte)
  BY DEF SerDrain, SerLogSound
<1>1. serLength = serLog.marker + content /\ serDiscarded = D /\ serMade = D + content
  BY <1>0 DEF SerDrain, SerDrainSound
<1>2. /\ SerLimit \in Nat /\ SerMarkerMax \in Nat /\ SerLimit > 2 * SerMarkerMax
      /\ SerMarkerLen \in Nat /\ SerMarkerLen <= SerMarkerMax
      /\ n \in Nat /\ n >= 1 /\ n <= SerLimit - SerMarkerMax - 1
      /\ SerAnchor \in Nat /\ 4 * SerAnchor <= SerLimit
  BY SerAssumption
<1>3. PICK h \in Nat : h = SerLimit \div 2 /\ 2 * h <= SerLimit /\ SerLimit <= 2 * h + 1
  BY <1>2
<1>4. /\ keep \in Nat /\ keep <= content /\ keep <= room - n
      /\ over => keep < content /\ keep + n > 2 * SerAnchor
  <2>1. /\ keep \in Nat /\ keep <= content /\ keep <= room - n
        /\ keep = room - n \/ keep = h \/ keep = content
    <3>1. PICK r : r = room - n  OBVIOUS
    <3>2. r \in Nat /\ h \in Nat /\ content \in Nat  BY <3>1, <1>0, <1>2, <1>3
    <3>3. keep = SerLeast(SerLeast(r, h), content)  BY <3>1, <1>3
    <3> HIDE DEF keep, content, room
    <3> QED BY <3>1, <3>2, <3>3 DEF SerLeast
  <2> HIDE DEF keep
  <2>2. ASSUME over PROVE keep < content /\ keep + n > 2 * SerAnchor
    <3>0. serLog.marker + content + n > SerLimit /\ serLog.marker <= SerMarkerMax
      BY <2>2, <1>0, <1>1
    <3>1. content > room - n
      <4>1. PICK m : m = serLog.marker  OBVIOUS
      <4>2. PICK c : c = content  OBVIOUS
      <4>3. m \in Nat /\ c \in Nat /\ m + c + n > SerLimit /\ m <= SerMarkerMax
        BY <3>0, <1>0, <4>1, <4>2
      <4>4. c > SerLimit - SerMarkerMax - n  BY <4>3, <1>2
      <4> QED BY <4>2, <4>4
    <3>2. keep < content  BY <3>1, <2>1, <1>0, <1>2
    <3>3. CASE keep = room - n  BY <3>2, <3>3, <1>2
    <3>4. CASE keep = h  BY <3>2, <3>4, <1>2, <1>3
    <3> QED BY <2>1, <3>2, <3>3, <3>4, <1>0
  <2> QED BY <2>1, <2>2
<1>5. SerRun(SerOutput(n), serBoot, serMade) /\ Len(SerOutput(n)) = n
  <2>1. serBoot \in Nat /\ serMade \in Nat  BY DEF SerDrainSound
  <2>2. SerOutput(n) = [i \in 1..n |-> <<serBoot, serMade + i>>]  BY DEF SerOutput
  <2>3. \A i \in 1..n : <<serBoot, serMade + i>> \in SerByte  BY <2>1, <1>2 DEF SerByte
  <2>4. SerOutput(n) \in Seq(SerByte) /\ Len(SerOutput(n)) = n  BY <2>2, <2>3, <1>2
  <2> QED BY <2>2, <2>4 DEF SerRun
<1> HIDE DEF keep, over
<1>6. /\ serBoot' = serBoot /\ serBroken' = serBroken /\ serReader' = serReader
      /\ serShown' = serShown /\ serMade' = serMade + n /\ ~serBroken
  BY DEF SerDrain
<1>7. /\ over => serLog' = [there |-> TRUE, inode |-> 3 - serLog.inode,
                            marker |-> SerMarkerLen,
                            discarded |-> serDiscarded + (content - keep),
                            bytes |-> SerTail(serLog.bytes, keep) \o SerOutput(n)]
      /\ ~over => serLog' = [serLog EXCEPT !.bytes = @ \o SerOutput(n)]
      /\ serDiscarded' = IF over THEN serDiscarded + (content - keep) ELSE serDiscarded
      /\ serLength' = (IF over THEN SerMarkerLen + keep ELSE serLength) + n
  BY DEF SerDrain, SerCounted, keep, over
<1> HIDE DEF content, D, room
<1>8. /\ serLog'.there /\ serLog'.inode \in SerInodes /\ serLog'.marker \in Nat
      /\ serLog'.discarded \in Nat /\ serLog'.marker <= SerMarkerMax
      /\ SerRun(serLog'.bytes, serBoot, serLog'.discarded)
      /\ serLog'.marker + Len(serLog'.bytes) <= SerLimit
      /\ serLog'.discarded > 0 => Len(serLog'.bytes) > 2 * SerAnchor
      /\ serLog' \in [there : BOOLEAN, inode : Nat, marker : Nat, discarded : Nat,
                      bytes : Seq(SerByte)]
      /\ serLength' = serLog'.marker + Len(serLog'.bytes)
      /\ serDiscarded' = serLog'.discarded
      /\ serMade' = serLog'.discarded + Len(serLog'.bytes)
      /\ \/ serLog'.discarded > D
         \/ serLog'.discarded = D /\ serLog'.inode = serLog.inode
  <2>1. CASE over
    <3> DEFINE kept == SerTail(serLog.bytes, keep)
               all == kept \o SerOutput(n)
               E == serDiscarded + (content - keep)
    <3>1. SerRun(kept, serBoot, D + (content - keep)) /\ Len(kept) = keep
      <4>1. /\ SerRun(serLog.bytes, serBoot, D) /\ D \in Nat /\ serBoot \in Nat
            /\ keep \in Nat /\ keep <= Len(serLog.bytes)
        BY <1>0, <1>4 DEF content
      <4> QED BY <4>1, SerRunTail, Zenon DEF content
    <3> HIDE DEF kept
    <3>2. E \in Nat /\ E = D + (content - keep) /\ serMade = E + Len(kept) /\ E > D
          /\ serMade \in Nat
      BY <1>0, <1>1, <1>4, <2>1, <3>1
    <3> HIDE DEF E
    <3>3. SerRun(all, serBoot, E) /\ Len(all) = Len(kept) + Len(SerOutput(n))
      <4>1. SerRun(kept, serBoot, E)  BY <3>1, <3>2
      <4> QED BY <4>1, <1>5, <3>2, SerRunJoin, Zenon
    <3>4. serLog' = [there |-> TRUE, inode |-> 3 - serLog.inode, marker |-> SerMarkerLen,
                     discarded |-> E, bytes |-> all]
      BY <1>7, <2>1 DEF kept, E
    <3> HIDE DEF all
    <3>5. /\ Len(all) = keep + n /\ SerMarkerLen + Len(all) <= SerLimit
          /\ Len(all) > 2 * SerAnchor /\ serMade + n = E + Len(all) /\ all \in Seq(SerByte)
      <4>1. Len(all) = keep + n  BY <1>5, <3>1, <3>3
      <4>2. SerMarkerLen + (keep + n) <= SerLimit  BY <1>2, <1>4 DEF room
      <4>3. keep + n > 2 * SerAnchor  BY <1>4, <2>1
      <4>4. serMade + n = E + (keep + n)  BY <1>2, <1>4, <3>1, <3>2
      <4>5. all \in Seq(SerByte)  BY <3>3 DEF SerRun
      <4> QED BY <4>1, <4>2, <4>3, <4>4, <4>5
    <3>6. /\ 3 - serLog.inode \in SerInodes /\ 3 - serLog.inode \in Nat
      BY <1>0 DEF SerInodes
    <3>7. serDiscarded' = E /\ serLength' = SerMarkerLen + keep + n
      BY <1>7, <2>1 DEF E
    <3>8. SerMarkerLen + keep + n = SerMarkerLen + Len(all)
      BY <3>5, <1>2, <1>4
    <3>9. /\ serLog'.there /\ serLog'.inode = 3 - serLog.inode /\ serLog'.marker = SerMarkerLen
          /\ serLog'.discarded = E /\ serLog'.bytes = all
          /\ serLog' \in [there : BOOLEAN, inode : Nat, marker : Nat, discarded : Nat,
                          bytes : Seq(SerByte)]
      BY <3>2, <3>4, <3>5, <3>6, <1>2
    <3> QED BY <3>2, <3>3, <3>5, <3>6, <3>7, <3>8, <3>9, <1>2, <1>6
  <2>2. CASE ~over
    <3> DEFINE all == serLog.bytes \o SerOutput(n)
    <3>3. SerRun(all, serBoot, D) /\ Len(all) = content + Len(SerOutput(n))
      <4>1. serMade = D + Len(serLog.bytes) /\ serMade \in Nat  BY <1>0, <1>1 DEF content
      <4>2. SerRun(serLog.bytes, serBoot, D) /\ D \in Nat /\ serBoot \in Nat  BY <1>0
      <4> QED BY <4>1, <4>2, <1>5, SerRunJoin, Zenon DEF content
    <3> HIDE DEF all
    <3>4. serLog' = [serLog EXCEPT !.bytes = all] /\ serDiscarded' = D /\ serLength' = serLength + n
      BY <1>1, <1>7, <2>2 DEF all
    <3>5. /\ Len(all) = content + n /\ serLog.marker + Len(all) <= SerLimit
          /\ all \in Seq(SerByte)
          /\ D > 0 => Len(all) > 2 * SerAnchor
      <4>1. Len(all) = content + n  BY <1>5, <3>3
      <4>2. serLog.marker + (content + n) <= SerLimit  BY <1>0, <1>1, <1>2, <2>2 DEF over
      <4>3. D > 0 => content + n > 2 * SerAnchor  BY <1>0, <1>2
      <4>4. all \in Seq(SerByte)  BY <3>3 DEF SerRun
      <4> QED BY <4>1, <4>2, <4>3, <4>4
    <3>6. /\ serLog' \in [there : BOOLEAN, inode : Nat, marker : Nat, discarded : Nat,
                          bytes : Seq(SerByte)]
          /\ serLog'.there = serLog.there /\ serLog'.inode = serLog.inode
          /\ serLog'.marker = serLog.marker
          /\ serLog'.discarded = D /\ serLog'.bytes = all
      BY <3>4, <3>5 DEF SerLogSound, D
    <3>7. serLength + n = serLog.marker + Len(all) /\ serMade + n = D + Len(all)
      BY <1>0, <1>1, <1>2, <3>5
    <3> QED BY <1>0, <1>6, <3>3, <3>4, <3>5, <3>6, <3>7
  <2> QED BY <2>1, <2>2
<1>9. SerLogSound'  BY <1>6, <1>8 DEF SerLogSound
<1>10. SerDrainSound'
  <2>1. serMade' \in Nat /\ serLength' \in Nat /\ serDiscarded' \in Nat
    BY <1>8 DEF SerRun
  <2> QED BY <2>1, <1>6, <1>8 DEF SerDrainSound
<1>11. SerReaderSound'
  <2>1. CASE serReader = [on |-> FALSE]  BY <2>1, <1>6 DEF SerReaderSound
  <2>2. CASE \E p \in Nat, i \in Nat, d \in Nat, a \in Seq(SerByte), b \in 0..serBoot :
                SerFollows(p, i, d, a, b)
    <3> PICK p \in Nat, i \in Nat, d \in Nat, a \in Seq(SerByte), b \in 0..serBoot :
             SerFollows(p, i, d, a, b)
      BY <2>2
    <3>1. b = serBoot => p <= D + content /\ d <= D /\ (i # serLog.inode => d < D)
      BY <1>0 DEF SerFollows, SerEnd, D, content
    <3>2. D + content <= serLog'.discarded + Len(serLog'.bytes)
      BY <1>0, <1>1, <1>2, <1>6, <1>8
    <3>3. b = serBoot' => /\ p <= SerEnd' /\ d <= serLog'.discarded
                          /\ i # serLog'.inode => d < serLog'.discarded
      <4>1. serLog'.discarded \in Nat /\ Len(serLog'.bytes) \in Nat  BY <1>8 DEF SerRun
      <4>2. \/ serLog'.discarded > D
            \/ serLog'.discarded = D /\ serLog'.inode = serLog.inode
        BY <1>8
      <4>3. SerEnd' = serLog'.discarded + Len(serLog'.bytes)  BY DEF SerEnd
      <4>4. SUFFICES ASSUME b = serBoot
                     PROVE /\ p <= SerEnd' /\ d <= serLog'.discarded
                           /\ i # serLog'.inode => d < serLog'.discarded
        BY <1>6
      <4>5. p <= SerEnd'  BY <3>1, <3>2, <4>1, <4>3, <4>4, <1>0
      <4>6. d <= serLog'.discarded  BY <3>1, <4>1, <4>2, <4>4, <1>0
      <4>7. i # serLog'.inode => d < serLog'.discarded  BY <3>1, <4>1, <4>2, <4>4, <1>0
      <4> QED BY <4>5, <4>6, <4>7
    <3>4. SerFollows(p, i, d, a, b)'  BY <1>6, <3>3 DEF SerFollows
    <3> QED BY <1>6, <3>4 DEF SerReaderSound
  <2> QED BY <2>1, <2>2 DEF SerReaderSound
<1>12. SerNoSilentSeam'  BY <1>6 DEF SerNoSilentSeam
<1> QED BY <1>6, <1>9, <1>10, <1>11, <1>12

\* A follower that starts at the end of the log knows where it is.
LEMMA SerStartStep ==
  ASSUME SerInv, NEW preload \in {0, SerAnchor, SerLimit}, SerStart(preload)
  PROVE SerInv'
<1> USE DEF SerInv
<1> DEFINE L == Len(serLog.bytes)
           size == serLog.marker + L
           n == SerLeast(SerLeast(preload, size), L)
           shown == SerTail(serLog.bytes, n)
           D == serLog.discarded
<1>0. /\ serLog.there /\ D \in Nat /\ SerRun(serLog.bytes, serBoot, D) /\ L \in Nat
      /\ serLog.inode \in Nat /\ serLog.marker \in Nat /\ serBoot \in Nat \ {0}
  BY DEF SerStart, SerLogSound, SerRun
<1>1. n \in Nat /\ n <= L  BY <1>0, SerAssumption DEF SerLeast
<1>2. /\ serReader' = [on |-> TRUE, position |-> SerEnd, inode |-> serLog.inode,
                       discarded |-> D, anchor |-> SerRemember(<<>>, shown),
                       last |-> IF shown = <<>> THEN <<>> ELSE shown[Len(shown)]]
      /\ serShown' = [SerNothing EXCEPT !.bytes = shown]
      /\ serBoot' = serBoot /\ serMade' = serMade /\ serLength' = serLength
      /\ serDiscarded' = serDiscarded /\ serBroken' = serBroken /\ serLog' = serLog
  BY DEF SerStart, serWriter
<1> HIDE DEF n
<1>3. SerRun(shown, serBoot, D + (L - n)) /\ Len(shown) = n
  BY <1>0, <1>1, SerRunTail, Zenon
<1>4. D + (L - n) \in Nat /\ D + (L - n) + Len(shown) = SerEnd /\ SerEnd \in Nat
  BY <1>0, <1>1, <1>3 DEF SerEnd
<1> HIDE DEF shown
<1>5. /\ shown = <<>> => SerHolds(SerRemember(<<>>, shown), 0, SerEnd)
      /\ shown # <<>> => /\ SerHolds(SerRemember(<<>>, shown), serBoot, SerEnd)
                         /\ shown[Len(shown)] = <<serBoot, SerEnd>>
  <2> DEFINE q == D + (L - n)
  <2>1. SerRun(shown, serBoot, q) /\ q \in Nat /\ q + Len(shown) = SerEnd  BY <1>3, <1>4
  <2> HIDE DEF q
  <2> QED BY <2>1, <1>0, SerHoldsFresh
<1>6. SerLogSound'  BY <1>2 DEF SerLogSound
<1>7. SerDrainSound'  BY <1>2 DEF SerDrainSound
<1>8. SerReaderSound'
  <2>1. PICK b \in 0..serBoot : b = IF shown = <<>> THEN 0 ELSE serBoot  BY <1>0
  <2>2. SerHolds(SerRemember(<<>>, shown), b, SerEnd)  BY <1>5, <2>1
  <2>3. (IF shown = <<>> THEN <<>> ELSE shown[Len(shown)]) = IF b = 0 THEN <<>> ELSE <<b, SerEnd>>
    BY <1>0, <1>5, <2>1
  <2>4. PICK a : a = SerRemember(<<>>, shown)  OBVIOUS
  <2>5. PICK p \in Nat : p = SerEnd  BY <1>4
  <2>6. PICK i \in Nat, d \in Nat : i = serLog.inode /\ d = D  BY <1>0
  <2>7. a \in Seq(SerByte)  BY <2>2, <2>4 DEF SerHolds, SerRun
  <2>8. SerEnd' = SerEnd  BY <1>2 DEF SerEnd
  <2>9. SerFollows(p, i, d, a, b)'
    <3>1. serReader' = [on |-> TRUE, position |-> p, inode |-> i, discarded |-> d,
                        anchor |-> a, last |-> IF b = 0 THEN <<>> ELSE <<b, p>>]
      BY <1>2, <2>3, <2>4, <2>5, <2>6
    <3>2. SerHolds(a, b, p)  BY <2>2, <2>4, <2>5
    <3>3. p <= SerEnd' /\ d <= serLog'.discarded /\ i = serLog'.inode
      BY <1>2, <2>5, <2>6, <2>8
    <3> QED BY <3>1, <3>2, <3>3 DEF SerFollows
  <2> QED BY <1>2, <2>7, <2>9 DEF SerReaderSound
<1>9. SerNoSilentSeam'
  <2>1. serShown'.last = <<>>  BY <1>2 DEF SerNothing
  <2> QED BY <2>1 DEF SerNoSilentSeam
<1> QED BY <1>2, <1>6, <1>7, <1>8, <1>9

\* A poll goes on where the follower stopped, or says why not.
LEMMA SerPollStep ==
  ASSUME SerInv, SerPoll
  PROVE SerInv'
<1> USE DEF SerInv
<1> DEFINE B == serLog.bytes
           L == Len(B)
           D == serLog.discarded
<1>0. /\ serLog.there /\ D \in Nat /\ SerRun(B, serBoot, D) /\ L \in Nat
      /\ serLog.inode \in Nat /\ serBoot \in Nat \ {0} /\ serReader.on
      /\ D > 0 => L > 2 * SerAnchor
      /\ SerAnchor \in Nat \ {0} /\ SerEnd = D + L
  <2>1. serLog.there /\ serReader.on  BY DEF SerPoll
  <2>2. /\ D \in Nat /\ SerRun(B, serBoot, D) /\ serLog.inode \in Nat
        /\ D > 0 => L > 2 * SerAnchor
    BY <2>1 DEF SerLogSound
  <2>3. L \in Nat  BY <2>2 DEF SerRun
  <2>4. SerAnchor \in Nat \ {0} /\ SerEnd = D + L  BY SerAssumption DEF SerEnd
  <2> QED BY <2>1, <2>2, <2>3, <2>4
<1>1. PICK p \in Nat, i \in Nat, d \in Nat, a \in Seq(SerByte), b \in 0..serBoot :
           SerFollows(p, i, d, a, b)
  BY <1>0 DEF SerReaderSound
<1>2. /\ serReader.position = p /\ serReader.inode = i /\ serReader.discarded = d
      /\ serReader.anchor = a /\ serReader.last = IF b = 0 THEN <<>> ELSE <<b, p>>
      /\ SerHolds(a, b, p) /\ Len(a) \in Nat
  BY <1>1 DEF SerFollows
<1> DEFINE again == SerRestarted
           from == IF again THEN 0 ELSE p
           missed == from < D
           place == IF missed THEN D ELSE from
           fresh == SubSeq(B, place - D + 1, Len(B))
           anchor == IF again \/ missed THEN <<>> ELSE a
<1>3. /\ again <=> \/ D + L < p
                   \/ i # serLog.inode /\ D <= d
                   \/ /\ Len(a) > 0 /\ p >= D + Len(a)
                      /\ SubSeq(B, (p - D) - Len(a) + 1, p - D) # a
  BY <1>0, <1>2 DEF SerRestarted
<1>4. /\ serReader' = [serReader EXCEPT !.position = place + Len(fresh),
                         !.inode = serLog.inode, !.discarded = D,
                         !.anchor = SerRemember(anchor, fresh),
                         !.last = IF fresh # <<>> THEN fresh[Len(fresh)]
                                 ELSE IF again \/ missed THEN <<>> ELSE @]
      /\ serShown' = [notice |-> again \/ missed, last |-> serReader.last,
                      bytes |-> fresh, restart |-> again, kept |-> place - D]
      /\ serBoot' = serBoot /\ serMade' = serMade /\ serLength' = serLength
      /\ serDiscarded' = serDiscarded /\ serBroken' = serBroken /\ serLog' = serLog
  BY <1>2 DEF SerPoll, serWriter
<1> HIDE DEF again, L, D, B
\* The remembered bytes against the same places of this log.
<1>5. ASSUME Len(a) > 0, p >= D + Len(a), p <= D + L
      PROVE /\ b = serBoot => SubSeq(B, (p - D) - Len(a) + 1, p - D) = a
            /\ b # serBoot => SubSeq(B, (p - D) - Len(a) + 1, p - D) # a
  <2> DEFINE j == (p - D) - Len(a)
             k == p - D
             found == SubSeq(B, j + 1, k)
  <2>1. j \in Nat /\ k \in Nat /\ j <= k /\ k <= L /\ L = Len(B) /\ k - j = Len(a) /\ D + j = p - Len(a)
        /\ p - Len(a) \in Nat
    BY <1>0, <1>2, <1>5 DEF L
  <2> HIDE DEF j, k
  <2>2. SerRun(found, serBoot, D + j) /\ Len(found) = k - j
    <3> HIDE DEF SerInv
    <3>1. /\ SerRun(B, serBoot, D) /\ serBoot \in Nat /\ D \in Nat
          /\ j \in Nat /\ k \in Nat /\ j <= k /\ k <= Len(B)
      BY <1>0, <2>1
    <3> QED BY <3>1, SerRunPiece, Zenon
  <2>3. SerRun(a, b, p - Len(a)) /\ b \in Nat  BY <1>0, <1>2 DEF SerHolds
  <2>4. Len(found) = Len(a) /\ Len(found) > 0 /\ D + j \in Nat  BY <2>1, <2>2, <1>5
  <2> HIDE DEF found
  <2>5. ASSUME b = serBoot PROVE found = a
    BY <2>1, <2>2, <2>3, <2>4, <2>5, <1>0, SerRunSame, Zenon
  <2>6. ASSUME b # serBoot PROVE found # a
    BY <2>1, <2>2, <2>3, <2>4, <2>6, <1>0, <1>5, SerRunOther
  <2> QED BY <2>5, <2>6 DEF found, j, k
<1>6. b = serBoot => ~again
  <2> SUFFICES ASSUME b = serBoot PROVE ~again  OBVIOUS
  <2>1. p <= D + L /\ d <= D /\ (i # serLog.inode => d < D)
    BY <1>0, <1>1 DEF SerFollows, D
  <2> QED BY <2>1, <1>0, <1>2, <1>3, <1>5
<1>7. ~again => p <= D + L  BY <1>0, <1>3
<1>8. ~again /\ b > 0 /\ b # serBoot => p < D + Len(a)
  BY <1>0, <1>2, <1>3, <1>5, <1>7 DEF SerHolds
<1>9. place \in Nat /\ D <= place /\ place <= D + L /\ place - D \in Nat /\ place - D <= L
  BY <1>0, <1>7
<1>10. again \/ missed => place = D  BY <1>0
<1>11. ~again /\ ~missed => place = p  OBVIOUS
<1> HIDE DEF place, missed
<1>12. SerRun(fresh, serBoot, place) /\ Len(fresh) = L - (place - D)
  <2> DEFINE k == place - D
  <2>1. k \in Nat /\ k <= L /\ L <= Len(B) /\ L = Len(B) /\ D + k = place  BY <1>0, <1>9 DEF L
  <2> HIDE DEF k
  <2>2. SerRun(SubSeq(B, k + 1, L), serBoot, D + k) /\ Len(SubSeq(B, k + 1, L)) = L - k
    BY <2>1, <1>0, SerRunPiece, Zenon
  <2> QED BY <2>1, <2>2 DEF k, L
<1> HIDE DEF fresh
<1>13. place + Len(fresh) = D + L /\ Len(fresh) \in Nat /\ fresh \in Seq(SerByte)
  <2>1. fresh \in Seq(SerByte)  BY <1>12 DEF SerRun
  <2> QED BY <2>1, <1>0, <1>9, <1>12
\* What the follower then remembers is one run of one boot.
<1>14. PICK c \in 0..serBoot :
           /\ SerHolds(SerRemember(anchor, fresh), c, D + L)
           /\ (IF fresh # <<>> THEN fresh[Len(fresh)]
               ELSE IF again \/ missed THEN <<>> ELSE serReader.last)
              = IF c = 0 THEN <<>> ELSE <<c, D + L>>
  <2>0. 0 \in 0..serBoot /\ serBoot \in 0..serBoot /\ serBoot # 0  BY <1>0
  <2>1. /\ fresh = <<>> => SerHolds(SerRemember(<<>>, fresh), 0, D + L)
        /\ fresh # <<>> => /\ SerHolds(SerRemember(<<>>, fresh), serBoot, D + L)
                           /\ fresh[Len(fresh)] = <<serBoot, D + L>>
    <3>1. /\ fresh = <<>> => SerHolds(SerRemember(<<>>, fresh), 0, place + Len(fresh))
          /\ fresh # <<>> => /\ SerHolds(SerRemember(<<>>, fresh), serBoot, place + Len(fresh))
                             /\ fresh[Len(fresh)] = <<serBoot, place + Len(fresh)>>
      BY <1>0, <1>9, <1>12, SerHoldsFresh
    <3> QED BY <3>1, <1>13
  <2>2. CASE again \/ missed
    <3>1. anchor = <<>>  BY <2>2
    <3> HIDE DEF anchor
    <3>2. CASE fresh = <<>>  BY <2>0, <2>1, <2>2, <3>1, <3>2
    <3>3. CASE fresh # <<>>  BY <2>0, <2>1, <2>2, <3>1, <3>3
    <3> QED BY <3>2, <3>3
  <2>3. CASE ~(again \/ missed) /\ b = 0
    <3>1. Len(a) = 0  BY <1>2, <2>3 DEF SerHolds
    <3>2. a = <<>>  BY <3>1
    <3>3. anchor = <<>> /\ serReader.last = <<>>  BY <1>2, <2>3, <3>2
    <3> HIDE DEF anchor
    <3>4. CASE fresh = <<>>  BY <2>0, <2>1, <2>3, <3>3, <3>4
    <3>5. CASE fresh # <<>>  BY <2>0, <2>1, <2>3, <3>3, <3>5
    <3> QED BY <3>4, <3>5
  <2>4. CASE ~(again \/ missed) /\ b = serBoot
    <3>1. anchor = a /\ place = p  BY <1>11, <2>4
    <3>2. SerHolds(a, serBoot, p) /\ SerRun(fresh, serBoot, p)  BY <1>2, <1>12, <2>4, <3>1
    <3>3. SerHolds(SerRemember(a, fresh), serBoot, p + Len(fresh))
      BY <3>2, <1>0, SerHoldsMore
    <3>4. p + Len(fresh) = D + L  BY <1>13, <3>1
    <3>5. fresh = <<>> => p = D + L  BY <3>4, <1>0
    <3>6. serReader.last = <<serBoot, p>>  BY <1>2, <2>4, <2>0
    <3>7. (IF fresh # <<>> THEN fresh[Len(fresh)]
           ELSE IF again \/ missed THEN <<>> ELSE serReader.last) = <<serBoot, D + L>>
      BY <2>1, <2>4, <3>5, <3>6
    <3> HIDE DEF anchor
    <3> QED BY <2>0, <3>1, <3>3, <3>4, <3>7
  <2>5. CASE ~(again \/ missed) /\ b # 0 /\ b # serBoot
    <3>1. anchor = a /\ place = p  BY <1>11, <2>5
    <3>2. p < D + Len(a) /\ Len(a) <= p /\ Len(a) <= SerAnchor
      BY <1>2, <1>8, <2>5, <1>0 DEF SerHolds
    <3>3. D > 0 /\ L > 2 * SerAnchor  BY <1>0, <1>2, <3>2
    <3>4. Len(fresh) >= SerAnchor /\ fresh # <<>>
      <4>1. Len(fresh) = L - (p - D)  BY <1>12, <3>1
      <4>2. Len(fresh) \in Nat /\ Len(a) \in Nat /\ D \in Nat /\ L \in Nat /\ SerAnchor \in Nat
        BY <1>0, <1>2, <1>13
      <4>3. Len(fresh) >= SerAnchor  BY <4>1, <4>2, <3>2, <3>3
      <4> QED BY <4>3, <1>0
    <3>5. SerHolds(SerRemember(a, fresh), serBoot, place + Len(fresh))
      BY <3>4, <1>0, <1>9, <1>12, SerHoldsAll
    <3> HIDE DEF anchor
    <3> QED BY <2>0, <2>1, <3>1, <3>4, <3>5, <1>13
  <2> QED BY <2>2, <2>3, <2>4, <2>5
<1>15. SerLogSound'  BY <1>4 DEF SerLogSound
<1>16. SerDrainSound'  BY <1>4 DEF SerDrainSound
<1>17. SerReaderSound'
  <2>1. PICK x : x = SerRemember(anchor, fresh)  OBVIOUS
  <2>2. PICK q \in Nat : q = D + L  BY <1>0
  <2>3. PICK y : y = IF fresh # <<>> THEN fresh[Len(fresh)]
                     ELSE IF again \/ missed THEN <<>> ELSE serReader.last  OBVIOUS
  <2>4. serReader' = [serReader EXCEPT !.position = q, !.inode = serLog.inode,
                        !.discarded = D, !.anchor = x, !.last = y]
    BY <1>4, <1>13, <2>1, <2>2, <2>3
  <2>5. serReader' = [on |-> TRUE, position |-> q, inode |-> serLog.inode,
                      discarded |-> D, anchor |-> x, last |-> y]
    BY <1>1, <2>4 DEF SerFollows
  <2>6. y = (IF c = 0 THEN <<>> ELSE <<c, q>>) /\ SerHolds(x, c, q)
    BY <1>14, <2>1, <2>2, <2>3
  <2>7. PICK i2 \in Nat, d2 \in Nat : i2 = serLog.inode /\ d2 = D  BY <1>0
  <2>8. x \in Seq(SerByte)  BY <2>6 DEF SerHolds, SerRun
  <2>9. SerFollows(q, i2, d2, x, c)'
    <3>1. SerEnd' = q /\ serLog'.discarded = d2 /\ serLog'.inode = i2
      BY <1>0, <1>4, <2>2, <2>7 DEF SerEnd, D, L, B
    <3> QED BY <3>1, <2>5, <2>6, <2>7 DEF SerFollows
  <2> QED BY <1>4, <2>8, <2>9 DEF SerReaderSound
<1>18. SerNoSilentSeam'
  <2>1. /\ serShown'.notice <=> (again \/ missed)
        /\ serShown'.restart <=> again
        /\ serShown'.last = serReader.last /\ serShown'.bytes = fresh
        /\ serShown'.kept = place - D
    BY <1>4
  <2>2. SUFFICES ASSUME fresh # <<>>, serReader.last # <<>>
                 PROVE /\ ~(again \/ missed) =>
                             \/ fresh[1] = <<serReader.last[1], serReader.last[2] + 1>>
                             \/ fresh[1][1] # serReader.last[1] /\ place - D < SerAnchor
                       /\ again => fresh[1][1] # serReader.last[1]
    BY <2>1 DEF SerNoSilentSeam
  <2>3. b # 0 /\ serReader.last = <<b, p>>  BY <1>2, <2>2
  <2>4. fresh[1] = <<serBoot, place + 1>>
    <3>1. Len(fresh) >= 1  BY <1>13, <2>2
    <3> QED BY <3>1, <1>12, <1>13 DEF SerRun
  <2>5. again => fresh[1][1] # serReader.last[1]  BY <1>6, <2>3, <2>4
  <2>6. ASSUME ~(again \/ missed), b = serBoot
        PROVE fresh[1] = <<serReader.last[1], serReader.last[2] + 1>>
    BY <2>3, <2>4, <2>6, <1>11
  <2>7. ASSUME ~(again \/ missed), b # serBoot
        PROVE fresh[1][1] # serReader.last[1] /\ place - D < SerAnchor
    <3>1. place = p /\ p < D + Len(a) /\ Len(a) <= SerAnchor
      BY <1>0, <1>2, <1>8, <1>11, <2>3, <2>7 DEF SerHolds
    <3>2. place - D < SerAnchor  BY <3>1, <1>0, <1>2
    <3> QED BY <2>3, <2>4, <2>7, <3>2
  <2> QED BY <2>5, <2>6, <2>7
<1> QED BY <1>4, <1>15, <1>16, <1>17, <1>18

\* A follower is told of every byte it does not see: what a poll shows goes on
\* where the last one stopped, a restart is announced only when another boot
\* wrote the log, and the bounded log counts what it dropped
\* (serial_capture.rs, serial_log.rs), for every cap, anchor, chunk and number
\* of boots.
THEOREM SerialStreamFollowed == SerInit /\ [][SerNext]_serVars => []SerFollowsStream
<1>1. SerInit => SerInv  BY SerInitInv
<1>2. SerInv /\ [SerNext]_serVars => SerInv'
  <2> SUFFICES ASSUME SerInv, [SerNext]_serVars PROVE SerInv'  OBVIOUS
  <2>1. CASE \E n \in 1..SerChunk : SerDrain(n)  BY <2>1, SerDrainStep
  <2>2. CASE \E j \in SerInodes : SerBootAgain(j)  BY <2>2, SerBootStep
  <2>3. CASE \E q \in {0, SerAnchor, SerLimit} : SerStart(q)  BY <2>3, SerStartStep
  <2>4. CASE SerPoll  BY <2>4, SerPollStep
  <2>5. CASE SerStorageFails \/ SerRemove \/ SerPollGone \/ UNCHANGED serVars
    BY <2>5, SerEasySteps
  <2> QED BY <2>1, <2>2, <2>3, <2>4, <2>5 DEF SerNext
<1>3. SerInv => SerFollowsStream
  BY DEF SerInv, SerLogSound, SerFollowsStream, SerLogHonest, SerRun
<1> QED BY <1>1, <1>2, <1>3, PTL

-----------------------------------------------------------------------------
(* PortRelay.                                                              *)

\* The types the argument needs.
RlyTypeOK ==
  /\ rlyKind \in {"guarded", "plain"} /\ rlyQueued \in Nat
  /\ rlyTasks \in [starting : Nat, dialing : Nat, copying : Nat]
  /\ rlySessions \in Nat /\ rlyReset \in [count : Nat, queued : Nat, failed : BOOLEAN]
\* What the relay promises is inductive once its counts are known to be counts.
RlyInv == RlyTypeOK /\ RlyServesQueued

\* A forward that is not there yet has nothing to serve.
LEMMA RlyInitInv == ASSUME RlyInit PROVE RlyInv
  BY RlyAssumption DEF RlyInit, RlyInv, RlyTypeOK, RlyServesQueued, RlyNoTasks, RlyRelays

\* A relay task more, or one less.
LEMMA RlyTasksAre ==
  ASSUME NEW k \in [starting : Nat, dialing : Nat, copying : Nat], NEW n \in Nat
  PROVE  /\ LET m == [k EXCEPT !.starting = @ + n] IN
            /\ m \in [starting : Nat, dialing : Nat, copying : Nat]
            /\ m.starting = k.starting + n /\ m.dialing = k.dialing /\ m.copying = k.copying
         /\ k.starting > 0 =>
              LET m == [k EXCEPT !["starting"] = @ - 1, !["dialing"] = @ + 1] IN
              /\ m \in [starting : Nat, dialing : Nat, copying : Nat]
              /\ m.starting = k.starting - 1 /\ m.dialing = k.dialing + 1
              /\ m.copying = k.copying
         /\ k.dialing > 0 =>
              LET m == [k EXCEPT !["dialing"] = @ - 1, !["copying"] = @ + 1] IN
              /\ m \in [starting : Nat, dialing : Nat, copying : Nat]
              /\ m.starting = k.starting /\ m.dialing = k.dialing - 1
              /\ m.copying = k.copying + 1
         /\ k.dialing > 0 =>
              LET m == [k EXCEPT !["dialing"] = @ - 1] IN
              /\ m \in [starting : Nat, dialing : Nat, copying : Nat]
              /\ m.starting = k.starting /\ m.dialing = k.dialing - 1
              /\ m.copying = k.copying
         /\ k.copying > 0 =>
              LET m == [k EXCEPT !["copying"] = @ - 1] IN
              /\ m \in [starting : Nat, dialing : Nat, copying : Nat]
              /\ m.starting = k.starting /\ m.dialing = k.dialing
              /\ m.copying = k.copying - 1
  OBVIOUS

\* What a step has to leave true.
RlyGood(kind, tasks, sessions, reset) ==
  /\ tasks \in [starting : Nat, dialing : Nat, copying : Nat]
  /\ sessions = (IF kind = "guarded" THEN tasks.dialing + tasks.copying ELSE 0)
  /\ kind = "plain" => tasks.starting + tasks.dialing + tasks.copying <= RlySlots
  /\ reset \in [count : Nat, queued : Nat, failed : BOOLEAN]
  /\ reset.count > 0 => reset.queued > RlyDrainCap \/ reset.failed

\* The invariant, before and after a step, in terms of RlyGood.
LEMMA RlyInvIs ==
  /\ RlyInv <=> /\ rlyKind \in {"guarded", "plain"} /\ rlyQueued \in Nat
                /\ RlyGood(rlyKind, rlyTasks, rlySessions, rlyReset)
  /\ RlyInv' <=> /\ rlyKind' \in {"guarded", "plain"} /\ rlyQueued' \in Nat
                 /\ RlyGood(rlyKind', rlyTasks', rlySessions', rlyReset')
  BY DEF RlyInv, RlyTypeOK, RlyServesQueued, RlyGood, RlyRelays

\* What a drain came to: it took all there was up to its cap, or it failed.
LEMMA RlyDrainedIs ==
  ASSUME NEW queued \in Nat, RlyDrainCap \in Nat, NEW drain \in RlyDrained(queued)
  PROVE  /\ drain.taken \in Nat /\ drain.failed \in BOOLEAN
         /\ queued > drain.taken => queued > RlyDrainCap \/ drain.failed
<1>1. CASE drain = [taken |-> IF queued < RlyDrainCap THEN queued ELSE RlyDrainCap,
                    failed |-> FALSE]
  <2> DEFINE all == IF queued < RlyDrainCap THEN queued ELSE RlyDrainCap
  <2>1. drain = [taken |-> all, failed |-> FALSE]  BY <1>1
  <2>2. all \in Nat /\ (queued > all => queued > RlyDrainCap)  OBVIOUS
  <2> HIDE DEF all
  <2>3. drain.taken = all /\ drain.failed = FALSE  BY <2>1
  <2> QED BY <2>2, <2>3
<1>2. ASSUME NEW n \in Nat, drain = [taken |-> n, failed |-> TRUE]
      PROVE  /\ drain.taken \in Nat /\ drain.failed = TRUE
  BY <1>2
<1>3. \/ drain = [taken |-> IF queued < RlyDrainCap THEN queued ELSE RlyDrainCap,
                  failed |-> FALSE]
      \/ \E n \in Nat : drain = [taken |-> n, failed |-> TRUE]
  BY DEF RlyDrained
<1> QED BY <1>1, <1>2, <1>3

\* Stopping a plain forward takes nothing.
LEMMA RlyNoDrainIs ==
  ASSUME NEW drain \in RlyNoDrain
  PROVE  drain.taken = 0 /\ drain.failed = FALSE
  BY DEF RlyNoDrain

\* Every step of the accept loop, the relays and the teardown keeps it.
LEMMA RlyStep == ASSUME RlyInv, [RlyNext]_rlyVars PROVE RlyInv'
<1>1. /\ rlyKind \in {"guarded", "plain"} /\ rlyQueued \in Nat
      /\ RlyGood(rlyKind, rlyTasks, rlySessions, rlyReset)
  BY RlyInvIs
<1>2. rlyTasks \in [starting : Nat, dialing : Nat, copying : Nat]
      /\ rlyTasks.starting \in Nat /\ rlyTasks.dialing \in Nat /\ rlyTasks.copying \in Nat
      /\ RlySlots \in Nat /\ RlyDrainCap \in Nat
      /\ RlyRelays = rlyTasks.starting + rlyTasks.dialing + rlyTasks.copying
  BY <1>1, RlyAssumption DEF RlyGood, RlyRelays
<1>3. CASE RlyAdd \/ RlyConnect \/ RlyAcceptFails \/ UNCHANGED rlyVars
  <2>1. rlyKind' = rlyKind /\ rlyQueued' \in Nat /\ rlyTasks' = rlyTasks
        /\ rlySessions' = rlySessions /\ rlyReset' = rlyReset
    BY <1>1, <1>3 DEF RlyAdd, RlyConnect, RlyAcceptFails, rlyVars
  <2> QED BY <1>1, <2>1, RlyInvIs
<1>4. ASSUME rlyTasks' = [rlyTasks EXCEPT !.starting = @ + 1], RlyTakesSlot, rlyKind' = rlyKind,
             rlyQueued' \in Nat, UNCHANGED <<rlySessions, rlyReset>>
      PROVE  RlyInv'
  <2>1. /\ rlyTasks' \in [starting : Nat, dialing : Nat, copying : Nat]
        /\ rlyTasks'.starting = rlyTasks.starting + 1 /\ rlyTasks'.dialing = rlyTasks.dialing
        /\ rlyTasks'.copying = rlyTasks.copying
    BY <1>2, <1>4, RlyTasksAre
  <2>2. RlyGood(rlyKind', rlyTasks', rlySessions', rlyReset')
    BY <1>1, <1>2, <1>4, <2>1 DEF RlyGood, RlyTakesSlot
  <2> QED BY <1>1, <1>4, <2>2, RlyInvIs
<1>5. CASE RlyAccept \/ RlySlotFree
  <2>1. rlyKind' = rlyKind /\ rlyQueued' \in Nat /\ UNCHANGED <<rlySessions, rlyReset>>
    BY <1>1, <1>5 DEF RlyAccept, RlySlotFree
  <2>2. CASE rlyTasks' = rlyTasks
    BY <1>1, <2>1, <2>2, RlyInvIs
  <2>3. CASE rlyTasks' # rlyTasks
    <3>1. rlyTasks' = [rlyTasks EXCEPT !.starting = @ + 1] /\ RlyTakesSlot
      BY <1>5, <2>3 DEF RlyAccept, RlySlotFree
    <3> QED BY <1>4, <2>1, <3>1
  <2> QED BY <2>2, <2>3
<1>6. CASE RlyTaskStarts
  <2>1. rlyTasks' = [rlyTasks EXCEPT !["starting"] = @ - 1, !["dialing"] = @ + 1]
        /\ rlyTasks.starting > 0 /\ rlyKind' = rlyKind /\ rlyQueued' = rlyQueued
        /\ rlySessions' = (IF rlyKind = "guarded" THEN rlySessions + 1 ELSE rlySessions)
        /\ rlyReset' = rlyReset
    BY <1>6 DEF RlyTaskStarts, RlyMoved
  <2>2. /\ rlyTasks' \in [starting : Nat, dialing : Nat, copying : Nat]
        /\ rlyTasks'.starting = rlyTasks.starting - 1
        /\ rlyTasks'.dialing = rlyTasks.dialing + 1 /\ rlyTasks'.copying = rlyTasks.copying
    BY <1>2, <2>1, RlyTasksAre
  <2>3. RlyGood(rlyKind', rlyTasks', rlySessions', rlyReset')
    BY <1>1, <1>2, <2>1, <2>2 DEF RlyGood
  <2> QED BY <1>1, <2>1, <2>3, RlyInvIs
<1>7. CASE RlyDials
  <2>1. rlyTasks' = [rlyTasks EXCEPT !["dialing"] = @ - 1, !["copying"] = @ + 1]
        /\ rlyTasks.dialing > 0 /\ rlyKind' = rlyKind /\ rlyQueued' = rlyQueued
        /\ rlySessions' = rlySessions /\ rlyReset' = rlyReset
    BY <1>7 DEF RlyDials, RlyMoved
  <2>2. /\ rlyTasks' \in [starting : Nat, dialing : Nat, copying : Nat]
        /\ rlyTasks'.starting = rlyTasks.starting
        /\ rlyTasks'.dialing = rlyTasks.dialing - 1 /\ rlyTasks'.copying = rlyTasks.copying + 1
    BY <1>2, <2>1, RlyTasksAre
  <2>3. RlyGood(rlyKind', rlyTasks', rlySessions', rlyReset')
    BY <1>1, <1>2, <2>1, <2>2 DEF RlyGood
  <2> QED BY <1>1, <2>1, <2>3, RlyInvIs
<1>8. ASSUME NEW at \in {"dialing", "copying"}, RlyTaskEnds(at) PROVE RlyInv'
  <2>1. rlyTasks' = [rlyTasks EXCEPT ![at] = @ - 1]
        /\ rlyTasks[at] > 0 /\ rlyKind' = rlyKind /\ rlyQueued' = rlyQueued
        /\ rlySessions' = (IF rlyKind = "guarded" THEN rlySessions - 1 ELSE rlySessions)
        /\ rlyReset' = rlyReset
    BY <1>8 DEF RlyTaskEnds
  <2>2. /\ rlyTasks' \in [starting : Nat, dialing : Nat, copying : Nat]
        /\ rlyTasks'.starting = rlyTasks.starting
        /\ rlyTasks'.dialing + rlyTasks'.copying = rlyTasks.dialing + rlyTasks.copying - 1
    <3>1. CASE at = "dialing"
      <4>1. rlyTasks' = [rlyTasks EXCEPT !["dialing"] = @ - 1] /\ rlyTasks.dialing > 0
        BY <2>1, <3>1
      <4>2. /\ rlyTasks' \in [starting : Nat, dialing : Nat, copying : Nat]
            /\ rlyTasks'.starting = rlyTasks.starting
            /\ rlyTasks'.dialing = rlyTasks.dialing - 1
            /\ rlyTasks'.copying = rlyTasks.copying
        BY <1>2, <4>1
      <4> QED BY <1>2, <4>2
    <3>2. CASE at = "copying"
      <4>1. rlyTasks' = [rlyTasks EXCEPT !["copying"] = @ - 1] /\ rlyTasks.copying > 0
        BY <2>1, <3>2
      <4>2. /\ rlyTasks' \in [starting : Nat, dialing : Nat, copying : Nat]
            /\ rlyTasks'.starting = rlyTasks.starting
            /\ rlyTasks'.copying = rlyTasks.copying - 1
            /\ rlyTasks'.dialing = rlyTasks.dialing
        BY <1>2, <4>1
      <4> QED BY <1>2, <4>2
    <3> QED BY <3>1, <3>2
  <2>3. RlyGood(rlyKind', rlyTasks', rlySessions', rlyReset')
    BY <1>1, <1>2, <2>1, <2>2 DEF RlyGood
  <2> QED BY <1>1, <2>1, <2>3, RlyInvIs
<1>9. CASE RlyClose
  <2>1. PICK drain \in IF rlyKind = "guarded" THEN RlyDrained(rlyQueued) ELSE RlyNoDrain :
          /\ rlyTasks' = [rlyTasks EXCEPT !.starting = @ + drain.taken]
          /\ rlyReset' = (IF rlyKind = "guarded" /\ rlyQueued > drain.taken
                          THEN [count |-> rlyQueued - drain.taken,
                                queued |-> rlyQueued, failed |-> drain.failed]
                          ELSE rlyReset)
    BY <1>9 DEF RlyClose
  <2>2. /\ drain.taken \in Nat /\ drain.failed \in BOOLEAN
        /\ rlyKind = "plain" => drain.taken = 0
        /\ rlyKind = "guarded" /\ rlyQueued > drain.taken
             => rlyQueued > RlyDrainCap \/ drain.failed
    <3>1. CASE rlyKind = "guarded"
      <4>1. drain \in RlyDrained(rlyQueued)  BY <2>1, <3>1
      <4>2. rlyQueued \in Nat /\ RlyDrainCap \in Nat  BY <1>1, <1>2
      <4>3. /\ drain.taken \in Nat /\ drain.failed \in BOOLEAN
            /\ rlyQueued > drain.taken => rlyQueued > RlyDrainCap \/ drain.failed
        BY <4>1, <4>2, RlyDrainedIs
      <4> QED BY <3>1, <4>3
    <3>2. CASE rlyKind = "plain"
      <4>1. drain \in RlyNoDrain  BY <2>1, <3>2
      <4>2. drain.taken = 0 /\ drain.failed = FALSE  BY <4>1, RlyNoDrainIs
      <4>3. rlyKind # "guarded"  BY <3>2
      <4>4. drain.taken \in Nat  BY <4>2
      <4>5. drain.failed \in BOOLEAN  BY <4>2
      <4> QED BY <4>2, <4>3, <4>4, <4>5, Zenon
    <3> QED BY <1>1, <3>1, <3>2
  <2>3. rlyKind' = rlyKind /\ rlyQueued' = 0 /\ rlySessions' = rlySessions
    BY <1>9 DEF RlyClose
  <2>4. /\ rlyTasks' \in [starting : Nat, dialing : Nat, copying : Nat]
        /\ rlyTasks'.starting = rlyTasks.starting + drain.taken
        /\ rlyTasks'.dialing = rlyTasks.dialing /\ rlyTasks'.copying = rlyTasks.copying
    BY <1>2, <2>1, <2>2, RlyTasksAre
  <2>5. rlyReset' \in [count : Nat, queued : Nat, failed : BOOLEAN]
        /\ (rlyReset'.count > 0 => rlyReset'.queued > RlyDrainCap \/ rlyReset'.failed)
    <3>1. CASE rlyKind = "guarded" /\ rlyQueued > drain.taken
      <4>1. rlyQueued - drain.taken \in Nat  BY <1>1, <2>2, <3>1
      <4> QED BY <1>1, <2>1, <2>2, <3>1, <4>1
    <3>2. CASE ~(rlyKind = "guarded" /\ rlyQueued > drain.taken)
      BY <1>1, <2>1, <3>2 DEF RlyGood
    <3> QED BY <3>1, <3>2
  <2>6. RlyGood(rlyKind', rlyTasks', rlySessions', rlyReset')
    BY <1>1, <1>2, <2>2, <2>3, <2>4, <2>5 DEF RlyGood
  <2> QED BY <1>1, <2>3, <2>6, RlyInvIs
<1> QED BY <1>3, <1>5, <1>6, <1>7, <1>8, <1>9 DEF RlyNext

-----------------------------------------------------------------------------
(* HostAddresses.                                                          *)

HaTasks == {"idle", "allocated", "leased", "returning", "stuck", "retiring", "retained"}

\* The VM v names the address i, durably or in memory.
HaClaims(v, i) == haRow[v] = i \/ haLease[v] = i \/ haHeld[v] = i
HaClaimed(i) == \E v \in HaVms : HaClaims(v, i)

\* The allocator's shape; a freed address was handed out before.
HaAllocOK(a) ==
  /\ a \in [next : 0..HaMaxIndex, freed : SUBSET HaIndexes, reserved : SUBSET HaIndexes]
  /\ \A i \in a.freed : i < a.next

HaMaybe == HaIndexes \union {HaNone}
HaDaemons == {"up", "down", "refused"}

\* The types the argument needs.
HaTypes ==
  /\ haLease \in [HaVms -> HaMaybe]
  /\ haRow \in [HaVms -> HaMaybe]
  /\ haHeld \in [HaVms -> HaMaybe]
  /\ haTask \in [HaVms -> HaTasks]
  /\ haDaemon \in HaDaemons

\* Which of the three names a VM's task leaves set.
HaVmOK(v) ==
  /\ haRow[v] # HaNone => /\ haLease[v] = HaNone /\ haHeld[v] = HaNone
                          /\ haTask[v] \in {"idle", "retained", "retiring"}
  /\ haTask[v] = "idle" => haHeld[v] = HaNone
  /\ haTask[v] = "idle" /\ haDaemon = "up" => haLease[v] = HaNone
  /\ haTask[v] = "allocated" => haHeld[v] # HaNone /\ haLease[v] = HaNone
  /\ haTask[v] = "leased" => haHeld[v] # HaNone /\ haLease[v] = haHeld[v]
  /\ haTask[v] = "returning" => haHeld[v] # HaNone /\ haLease[v] = HaNone
  /\ haTask[v] = "stuck" => haHeld[v] = HaNone
  /\ haTask[v] \in {"retained", "retiring"} => haRow[v] # HaNone
  /\ haDaemon = "down" => haTask[v] = "idle"

\* An address that was never handed out twice is claimed by one VM.
HaExclusive ==
  \A i \in HaIndexes \ haTorn : \A v, w \in HaVms : HaClaims(v, i) /\ HaClaims(w, i) => v = w

\* A running allocator offers no claimed address, unless its row is being returned.
HaWithheld ==
  haDaemon = "up" =>
    \A i \in HaIndexes \ haTorn : HaClaimed(i) /\ ~HaReturning(i) => i \notin HaFree(haAlloc)

\* HaOwnedOnce leaves out the creations that are rolling back: they still claim
\* their address, and only that keeps it from being returned twice.
HaInv ==
  /\ HaTypes
  /\ HaAllocOK(haAlloc)
  /\ \A v \in HaVms : HaVmOK(v)
  /\ HaExclusive
  /\ HaWithheld
  /\ haDaemon = "refused" => haTorn # {}

-----------------------------------------------------------------------------

\* HaNone is no address.
LEMMA HaNoneOutside == HaNone \notin HaIndexes /\ HaNone \in HaMaybe
  BY DEF HaNone, HaIndexes, HaMaybe

\* HaLeast of a non-empty set of naturals is one of them.
LEMMA HaLeastIn ==
  ASSUME NEW S, S \subseteq Nat, S # {}
  PROVE  HaLeast(S) \in S
<1> DEFINE R == OpToRel(<, Nat)
<1>1. PICK x \in S : \A y \in S : <<y, x>> \notin R
  BY NatLessThanWellFounded, WFMin
<1>2. \A y \in S : x <= y
  <2> SUFFICES ASSUME NEW y \in S PROVE x <= y OBVIOUS
  <2>1. x \in Nat /\ y \in Nat OBVIOUS
  <2>2. ~(y < x) BY <1>1, <2>1 DEF OpToRel
  <2> QED BY <2>1, <2>2
<1> HIDE DEF R
<1> QED BY <1>1, <1>2 DEF HaLeast

\* What allocate offers, when it offers something, was free.
LEMMA HaOfferFree ==
  ASSUME HaAssumption, NEW a, HaAllocOK(a), HaOffer(a) # HaNone
  PROVE  HaOffer(a) \in HaFree(a) /\ HaOffer(a) \in HaIndexes
<1>0. /\ a.freed \subseteq HaIndexes /\ a.next \in 0..HaMaxIndex /\ HaMaxIndex \in Nat
      /\ HaIndexes \subseteq Nat
  BY DEF HaAllocOK, HaIndexes, HaAssumption
<1>1. HaFreshOnes(a) \subseteq HaIndexes BY <1>0 DEF HaFreshOnes, HaIndexes
<1>2. CASE a.freed # {}
  <2>1. HaOffer(a) = HaLeast(a.freed) BY <1>2 DEF HaOffer
  <2>2. HaLeast(a.freed) \in a.freed BY <1>0, <1>2, HaLeastIn
  <2> QED BY <1>0, <2>1, <2>2 DEF HaFree
<1>3. CASE a.freed = {}
  <2>1. HaFreshOnes(a) # {} BY <1>3 DEF HaOffer
  <2>2. HaOffer(a) = HaLeast(HaFreshOnes(a)) BY <1>3, <2>1 DEF HaOffer
  <2>3. HaLeast(HaFreshOnes(a)) \in HaFreshOnes(a) BY <1>0, <1>1, <2>1, HaLeastIn
  <2> QED BY <1>1, <2>2, <2>3 DEF HaFree
<1> QED BY <1>2, <1>3

\* allocate keeps the allocator's shape and no longer offers what it gave out.
LEMMA HaAllocatedIs ==
  ASSUME HaAssumption, NEW a, HaAllocOK(a), HaOffer(a) # HaNone
  PROVE  /\ HaAllocOK(HaAllocated(a))
         /\ HaFree(HaAllocated(a)) \subseteq HaFree(a) \ {HaOffer(a)}
<1>1. PICK i : i = HaOffer(a) OBVIOUS
<1>2. i \in HaFree(a) /\ i \in HaIndexes BY <1>1, HaOfferFree
<1>3. PICK b : b = HaAllocated(a) OBVIOUS
<1>4. CASE a.freed # {}
  <2>1. b = [a EXCEPT !.freed = @ \ {i}] BY <1>1, <1>3, <1>4, Zenon DEF HaAllocated
  <2>2. i \in a.freed
    <3>1. HaOffer(a) = HaLeast(a.freed) BY <1>4 DEF HaOffer
    <3>2. a.freed \subseteq Nat BY DEF HaAllocOK, HaIndexes, HaAssumption
    <3> QED BY <1>1, <1>4, <3>1, <3>2, HaLeastIn
  <2>3. a.freed \ {i} \in SUBSET HaIndexes BY DEF HaAllocOK
  <2>4. b.freed = a.freed \ {i} /\ b.next = a.next /\ b.reserved = a.reserved
    BY <2>1 DEF HaAllocOK
  <2>5. HaAllocOK(b) BY <2>1, <2>3, <2>4 DEF HaAllocOK
  <2>6. i < a.next /\ a.next \in Nat /\ i \in Nat
    BY <2>2, <1>2 DEF HaAllocOK, HaIndexes, HaAssumption
  <2>7. HaFree(b) \subseteq HaFree(a) \ {i}
    BY <2>2, <2>4, <2>6 DEF HaFree, HaFreshOnes, HaAssumption
  <2> QED BY <1>1, <1>3, <2>5, <2>7
<1>5. CASE a.freed = {}
  <2>1. b = [a EXCEPT !.next = i + 1, !.reserved = {r \in @ : r > i}]
    BY <1>1, <1>3, <1>5, Zenon DEF HaAllocated
  <2>2. i + 1 \in 0..HaMaxIndex /\ i \in Nat BY <1>2 DEF HaIndexes, HaAssumption
  <2>3. {r \in a.reserved : r > i} \in SUBSET HaIndexes BY DEF HaAllocOK
  <2>4. /\ b.freed = {} /\ b.next = i + 1 /\ b.reserved = {r \in a.reserved : r > i}
    BY <1>5, <2>1 DEF HaAllocOK
  <2>5. HaAllocOK(b) BY <1>5, <2>1, <2>2, <2>3, <2>4 DEF HaAllocOK
  <2>6. i \in a.next..(HaMaxIndex - 1) /\ a.next \in Nat
    BY <1>2, <1>5 DEF HaFree, HaFreshOnes, HaAllocOK
  <2>7. HaFree(b) \subseteq HaFree(a) \ {i}
    BY <1>5, <2>2, <2>4, <2>6 DEF HaFree, HaFreshOnes, HaAssumption
  <2> QED BY <1>1, <1>3, <2>5, <2>7
<1> QED BY <1>4, <1>5

\* release keeps the allocator's shape and frees that address at most.
LEMMA HaReleasedIs ==
  ASSUME HaAssumption, NEW a, HaAllocOK(a), NEW i \in HaIndexes
  PROVE  HaAllocOK(HaReleased(a, i)) /\ HaFree(HaReleased(a, i)) \subseteq HaFree(a) \union {i}
<1>1. CASE ~HaReleasable(a, i) BY <1>1 DEF HaReleased
<1>2. CASE HaReleasable(a, i) /\ i < a.next
  <2>1. PICK b : b = HaReleased(a, i) OBVIOUS
  <2>2. b = [a EXCEPT !.freed = @ \union {i}] BY <1>2, <2>1, Zenon DEF HaReleased
  <2>3. a.freed \union {i} \in SUBSET HaIndexes BY DEF HaAllocOK
  <2>4. b.freed = a.freed \union {i} /\ b.next = a.next /\ b.reserved = a.reserved
    BY <2>2 DEF HaAllocOK
  <2>5. HaAllocOK(b) BY <1>2, <2>2, <2>3, <2>4 DEF HaAllocOK
  <2>6. HaFree(b) \subseteq HaFree(a) \union {i} BY <2>4 DEF HaFree, HaFreshOnes
  <2> QED BY <2>1, <2>5, <2>6
<1>3. CASE HaReleasable(a, i) /\ ~(i < a.next)
  <2>1. PICK b : b = HaReleased(a, i) OBVIOUS
  <2>2. b = [a EXCEPT !.reserved = @ \ {i}] BY <1>3, <2>1, Zenon DEF HaReleased
  <2>3. a.reserved \ {i} \in SUBSET HaIndexes BY DEF HaAllocOK
  <2>4. b.freed = a.freed /\ b.next = a.next /\ b.reserved = a.reserved \ {i}
    BY <2>2 DEF HaAllocOK
  <2>5. HaAllocOK(b) BY <2>2, <2>3, <2>4 DEF HaAllocOK
  <2>6. HaFree(b) \subseteq HaFree(a) \union {i} BY <2>4 DEF HaFree, HaFreshOnes
  <2> QED BY <2>1, <2>5, <2>6
<1> QED BY <1>1, <1>2, <1>3

\* The allocator a start seeds offers no address a row or a lease names.
LEMMA HaSeededIs ==
  ASSUME HaAssumption, HaTypes
  PROVE  HaAllocOK(HaSeeded) /\ HaFree(HaSeeded) \subseteq HaIndexes \ HaOwned
<1>1. HaOwned \subseteq HaIndexes BY DEF HaOwned, HaLeased, HaTypes, HaMaybe
<1>2. \A i \in HaOwned : HaReserved(HaFresh, i).reserved = {i}
  BY <1>1 DEF HaReserved, HaFresh, HaIndexes
<1>3. UNION {HaReserved(HaFresh, i).reserved : i \in HaOwned} = HaOwned BY <1>2
<1>4. HaSeeded = [next |-> 0, freed |-> {}, reserved |-> HaOwned]
  BY <1>3 DEF HaSeeded, HaFresh
<1>5. HaOwned \in SUBSET HaIndexes /\ {} \in SUBSET HaIndexes /\ 0 \in 0..HaMaxIndex
  BY <1>1 DEF HaAssumption
<1> HIDE DEF HaOwned, HaSeeded
<1>6. HaAllocOK(HaSeeded) BY <1>4, <1>5 DEF HaAllocOK
<1>7. HaFree(HaSeeded) \subseteq HaIndexes \ HaOwned
  BY <1>4 DEF HaFree, HaFreshOnes, HaIndexes
<1> QED BY <1>6, <1>7

\* A set whose members are all equal has at most one.
LEMMA HaAtMostOne ==
  ASSUME NEW S, \A x, y \in S : x = y
  PROVE  Cardinality(S) \in {0, 1}
<1>1. CASE S = {} BY <1>1, FS_EmptySet
<1>2. CASE S # {}
  <2>1. PICK x : x \in S BY <1>2
  <2>2. S = {x} BY <2>1
  <2> QED BY <2>2, FS_Singleton
<1> QED BY <1>1, <1>2

-----------------------------------------------------------------------------

\* Initially nothing is claimed and everything is free.
LEMMA HaInitInv == HaAssumption /\ HaInit => HaInv
<1> SUFFICES ASSUME HaAssumption, HaInit PROVE HaInv OBVIOUS
<1> USE DEF HaInit
<1>1. HaNone \in HaMaybe /\ HaNone \notin HaIndexes BY HaNoneOutside
<1>2. HaTypes BY <1>1 DEF HaTypes, HaTasks, HaDaemons
<1>3. HaAllocOK(haAlloc)
  <2>1. {} \in SUBSET HaIndexes /\ 0 \in 0..HaMaxIndex BY DEF HaAssumption
  <2> QED BY <2>1 DEF HaAllocOK, HaFresh
<1>4. \A v \in HaVms : HaVmOK(v) BY DEF HaVmOK
<1>5. \A i \in HaIndexes, v \in HaVms : ~HaClaims(v, i) BY <1>1 DEF HaClaims
<1>6. HaExclusive /\ HaWithheld BY <1>5 DEF HaExclusive, HaWithheld, HaClaimed
<1> QED BY <1>2, <1>3, <1>4, <1>6 DEF HaInv

\* A step of a running daemon that adds no claim, ends a return only of an
\* address nobody claims any more, and frees no address that is still claimed
\* keeps the invariant.
LEMMA HaKeeps ==
  ASSUME HaInv, haDaemon = "up", haDaemon' = "up", haTorn' = haTorn,
         HaTypes', HaAllocOK(haAlloc'), \A v \in HaVms : HaVmOK(v)',
         \A v \in HaVms, i \in HaIndexes : HaClaims(v, i)' => HaClaims(v, i),
         \A i \in HaIndexes \ haTorn : HaClaimed(i)' /\ ~HaReturning(i)' =>
            ~HaReturning(i) /\ (i \in HaFree(haAlloc') => i \in HaFree(haAlloc))
  PROVE  HaInv'
<1>1. HaExclusive'
  <2> SUFFICES ASSUME NEW i \in HaIndexes, i \notin haTorn, NEW v \in HaVms, NEW w \in HaVms,
                      HaClaims(v, i)', HaClaims(w, i)'
               PROVE  v = w
    BY DEF HaExclusive
  <2> QED BY DEF HaInv, HaExclusive
<1>2. HaWithheld'
  <2> SUFFICES ASSUME NEW i \in HaIndexes, i \notin haTorn, HaClaimed(i)', ~HaReturning(i)',
                      i \in HaFree(haAlloc')
               PROVE  FALSE
    BY DEF HaWithheld
  <2>1. HaClaimed(i) BY DEF HaClaimed
  <2> QED BY <2>1 DEF HaInv, HaWithheld
<1> QED BY <1>1, <1>2 DEF HaInv

\* allocate: what is offered and not torn, nobody claims.
LEMMA HaAllocateInv ==
  ASSUME HaAssumption, HaInv, NEW v \in HaVms, HaAllocate(v)
  PROVE  HaInv'
<1> DEFINE o == HaOffer(haAlloc)
<1>0. PICK i : i = o OBVIOUS
<1>1. i \in HaFree(haAlloc) /\ i \in HaIndexes BY <1>0, HaOfferFree DEF HaAllocate, HaInv
<1>2. HaAllocOK(haAlloc') /\ HaFree(haAlloc') \subseteq HaFree(haAlloc) \ {i}
  BY <1>0, HaAllocatedIs DEF HaAllocate, HaInv
<1>3. i # HaNone /\ i \in HaMaybe BY <1>1, HaNoneOutside DEF HaMaybe
<1>4. /\ haHeld' = [haHeld EXCEPT ![v] = i] /\ haTask' = [haTask EXCEPT ![v] = "allocated"]
      /\ haTorn' = IF \E w \in HaVms : haRow[w] = i THEN haTorn \union {i} ELSE haTorn
      /\ haLease' = haLease /\ haRow' = haRow /\ haDaemon' = haDaemon /\ haDaemon = "up"
      /\ haTask[v] = "idle" /\ haLease[v] = HaNone /\ haRow[v] = HaNone
  BY <1>0 DEF HaAllocate, HaMem
<1> HIDE DEF o
<1>5. HaTypes' BY <1>3, <1>4 DEF HaInv, HaTypes, HaTasks
<1>6. ASSUME NEW w \in HaVms PROVE HaVmOK(w)'
  BY <1>3, <1>4 DEF HaInv, HaTypes, HaVmOK
<1>7. \A w \in HaVms, j \in HaIndexes : HaClaims(w, j)' =>
         HaClaims(w, j) \/ (w = v /\ j = i)
  BY <1>4 DEF HaClaims, HaInv, HaTypes
<1>8. ASSUME i \notin haTorn' PROVE \A w \in HaVms : ~HaClaims(w, i)
  <2>1. \A w \in HaVms : haRow[w] # i BY <1>4, <1>8
  <2>2. ~HaReturning(i) BY <2>1 DEF HaReturning
  <2>3. i \notin haTorn BY <1>4, <1>8
  <2> QED BY <1>1, <1>4, <2>2, <2>3 DEF HaInv, HaWithheld, HaClaimed
<1>9. haTorn \subseteq haTorn' BY <1>4
<1>10. HaExclusive'
  <2> SUFFICES ASSUME NEW j \in HaIndexes, j \notin haTorn', NEW x \in HaVms, NEW y \in HaVms,
                      HaClaims(x, j)', HaClaims(y, j)'
               PROVE  x = y
    BY DEF HaExclusive
  <2> QED BY <1>7, <1>8, <1>9 DEF HaInv, HaExclusive
<1>11. HaWithheld'
  <2> SUFFICES ASSUME NEW j \in HaIndexes, j \notin haTorn', HaClaimed(j)', ~HaReturning(j)',
                      j \in HaFree(haAlloc')
               PROVE  FALSE
    BY DEF HaWithheld
  <2>1. j # i /\ j \in HaFree(haAlloc) BY <1>2
  <2>2. HaClaimed(j) BY <1>7, <2>1 DEF HaClaimed
  <2>3. ~HaReturning(j) BY <1>4 DEF HaReturning, HaInv, HaTypes
  <2> QED BY <1>4, <1>9, <2>1, <2>2, <2>3 DEF HaInv, HaWithheld
<1> QED BY <1>2, <1>4, <1>5, <1>6, <1>10, <1>11 DEF HaInv

\* The lease takes the address the creation holds.
LEMMA HaLeaseAddressInv ==
  ASSUME HaInv, NEW v \in HaVms, HaLeaseAddress(v)
  PROVE  HaInv'
<1> USE DEF HaLeaseAddress
<1>1. HaTypes' BY DEF HaInv, HaTypes, HaTasks
<1>2. ASSUME NEW w \in HaVms PROVE HaVmOK(w)' BY DEF HaInv, HaTypes, HaVmOK
<1>3. \A w \in HaVms, j \in HaIndexes : HaClaims(w, j)' => HaClaims(w, j)
  BY DEF HaClaims, HaInv, HaTypes
<1>4. \A j \in HaIndexes : HaReturning(j) => HaReturning(j)'
  BY DEF HaReturning, HaInv, HaTypes
<1> QED BY <1>1, <1>2, <1>3, <1>4, HaKeeps DEF HaInv

\* The row takes the address the lease named.
LEMMA HaCommitInv ==
  ASSUME HaInv, NEW v \in HaVms, HaCommit(v)
  PROVE  HaInv'
<1> USE DEF HaCommit
<1>1. HaTypes' BY HaNoneOutside DEF HaInv, HaTypes, HaTasks
<1>2. ASSUME NEW w \in HaVms PROVE HaVmOK(w)' BY DEF HaInv, HaTypes, HaVmOK
<1>3. \A w \in HaVms, j \in HaIndexes : HaClaims(w, j)' => HaClaims(w, j)
  BY HaNoneOutside DEF HaClaims, HaInv, HaTypes
<1>4. \A j \in HaIndexes : HaReturning(j) => HaReturning(j)'
  BY DEF HaReturning, HaInv, HaTypes
<1> QED BY <1>1, <1>2, <1>3, <1>4, HaKeeps DEF HaInv

\* A rollback gives the lease up and goes on holding the address.
LEMMA HaRollbackInv ==
  ASSUME HaInv, NEW v \in HaVms, HaRollback(v)
  PROVE  HaInv'
<1> USE DEF HaRollback
<1>1. HaTypes' BY HaNoneOutside DEF HaInv, HaTypes, HaTasks
<1>2. ASSUME NEW w \in HaVms PROVE HaVmOK(w)' BY DEF HaInv, HaTypes, HaVmOK
<1>3. \A w \in HaVms, j \in HaIndexes : HaClaims(w, j)' => HaClaims(w, j)
  BY HaNoneOutside DEF HaClaims, HaInv, HaTypes
<1>4. \A j \in HaIndexes : HaReturning(j) => HaReturning(j)'
  BY DEF HaReturning, HaInv, HaTypes
<1> QED BY <1>1, <1>2, <1>3, <1>4, HaKeeps DEF HaInv

\* A failed rollback keeps the lease.
LEMMA HaRollbackFailsInv ==
  ASSUME HaInv, NEW v \in HaVms, HaRollbackFails(v)
  PROVE  HaInv'
<1> USE DEF HaRollbackFails
<1>1. HaTypes' BY HaNoneOutside DEF HaInv, HaTypes, HaTasks
<1>2. ASSUME NEW w \in HaVms PROVE HaVmOK(w)' BY DEF HaInv, HaTypes, HaVmOK
<1>3. \A w \in HaVms, j \in HaIndexes : HaClaims(w, j)' => HaClaims(w, j)
  BY HaNoneOutside DEF HaClaims, HaInv, HaTypes
<1>4. \A j \in HaIndexes : HaReturning(j) => HaReturning(j)'
  BY DEF HaReturning, HaInv, HaTypes
<1> QED BY <1>1, <1>2, <1>3, <1>4, HaKeeps DEF HaInv

\* Recovery takes the address from the lease into its own hands.
LEMMA HaRecoverInv ==
  ASSUME HaInv, NEW v \in HaVms, HaRecover(v)
  PROVE  HaInv'
<1> USE DEF HaRecover
<1>1. HaTypes' BY HaNoneOutside DEF HaInv, HaTypes, HaTasks
<1>2. ASSUME NEW w \in HaVms PROVE HaVmOK(w)' BY DEF HaInv, HaTypes, HaVmOK
<1>3. \A w \in HaVms, j \in HaIndexes : HaClaims(w, j)' => HaClaims(w, j)
  BY HaNoneOutside DEF HaClaims, HaInv, HaTypes
<1>4. \A j \in HaIndexes : HaReturning(j) => HaReturning(j)'
  BY DEF HaReturning, HaInv, HaTypes
<1> QED BY <1>1, <1>2, <1>3, <1>4, HaKeeps DEF HaInv

\* A row whose retirement failed is still one whose address was returned.
LEMMA HaRetireFailsInv ==
  ASSUME HaInv, NEW v \in HaVms, HaRetireFails(v)
  PROVE  HaInv'
<1> USE DEF HaRetireFails, HaMem
<1>1. HaTypes' BY DEF HaInv, HaTypes, HaTasks
<1>2. ASSUME NEW w \in HaVms PROVE HaVmOK(w)' BY DEF HaInv, HaTypes, HaVmOK
<1>3. \A w \in HaVms, j \in HaIndexes : HaClaims(w, j)' => HaClaims(w, j)
  BY DEF HaClaims
<1>4. \A j \in HaIndexes : HaReturning(j) => HaReturning(j)'
  BY DEF HaReturning, HaInv, HaTypes
<1> QED BY <1>1, <1>2, <1>3, <1>4, HaKeeps DEF HaInv

\* The rolled back creation was the only one to claim what it returns.
LEMMA HaReturnInv ==
  ASSUME HaAssumption, HaInv, NEW v \in HaVms, HaReturn(v)
  PROVE  HaInv'
<1>1. PICK i : i = haHeld[v] OBVIOUS
<1>2. i \in HaIndexes BY <1>1 DEF HaReturn, HaInv, HaVmOK, HaTypes, HaMaybe
<1>3. HaAllocOK(haAlloc') /\ HaFree(haAlloc') \subseteq HaFree(haAlloc) \union {i}
  BY <1>1, <1>2, HaReleasedIs DEF HaReturn, HaInv
<1>4. /\ haHeld' = [haHeld EXCEPT ![v] = HaNone] /\ haTask' = [haTask EXCEPT ![v] = "idle"]
      /\ haLease' = haLease /\ haRow' = haRow /\ haDaemon' = haDaemon /\ haTorn' = haTorn
      /\ haDaemon = "up" /\ haTask[v] = "returning"
  BY DEF HaReturn
<1>5. HaTypes' BY <1>4, HaNoneOutside DEF HaInv, HaTypes, HaTasks
<1>6. ASSUME NEW w \in HaVms PROVE HaVmOK(w)' BY <1>4 DEF HaInv, HaTypes, HaVmOK
<1>7. \A w \in HaVms, j \in HaIndexes : HaClaims(w, j)' => HaClaims(w, j) /\ w # v
  BY <1>4, HaNoneOutside DEF HaClaims, HaInv, HaTypes, HaVmOK
<1>8. \A j \in HaIndexes : HaReturning(j) => HaReturning(j)'
  BY <1>4 DEF HaReturning, HaInv, HaTypes
<1>9. HaClaims(v, i) BY <1>1 DEF HaClaims
<1>10. \A j \in HaIndexes \ haTorn : HaClaimed(j)' => j # i
  BY <1>7, <1>9 DEF HaClaimed, HaInv, HaExclusive
<1>11. \A j \in HaIndexes \ haTorn : HaClaimed(j)' /\ ~HaReturning(j)' =>
          ~HaReturning(j) /\ (j \in HaFree(haAlloc') => j \in HaFree(haAlloc))
  BY <1>3, <1>8, <1>10
<1> QED BY <1>3, <1>4, <1>5, <1>6, <1>7, <1>11, HaKeeps

\* Releasing a row's address makes it one that is being returned.
LEMMA HaReleaseRowInv ==
  ASSUME HaAssumption, HaInv, NEW v \in HaVms, HaReleaseRow(v)
  PROVE  HaInv'
<1>1. PICK i : i = haRow[v] OBVIOUS
<1>2. i \in HaIndexes BY <1>1 DEF HaReleaseRow, HaInv, HaTypes, HaMaybe
<1>3. HaAllocOK(haAlloc') /\ HaFree(haAlloc') \subseteq HaFree(haAlloc) \union {i}
  BY <1>1, <1>2, HaReleasedIs DEF HaReleaseRow, HaInv
<1>4. /\ haHeld' = haHeld /\ haTask' = [haTask EXCEPT ![v] = "retiring"]
      /\ haLease' = haLease /\ haRow' = haRow /\ haDaemon' = haDaemon /\ haTorn' = haTorn
      /\ haDaemon = "up" /\ haRow[v] # HaNone /\ haTask[v] \in {"idle", "retained"}
  BY DEF HaReleaseRow, HaMem
<1>5. HaTypes' BY <1>4 DEF HaInv, HaTypes, HaTasks
<1>6. ASSUME NEW w \in HaVms PROVE HaVmOK(w)' BY <1>4 DEF HaInv, HaTypes, HaVmOK
<1>7. \A w \in HaVms, j \in HaIndexes : HaClaims(w, j)' => HaClaims(w, j)
  BY <1>4 DEF HaClaims
<1>8. \A j \in HaIndexes : HaReturning(j) => HaReturning(j)'
  BY <1>4 DEF HaReturning, HaInv, HaTypes
<1>9. HaReturning(i)' BY <1>1, <1>4 DEF HaReturning, HaInv, HaTypes
<1>11. \A j \in HaIndexes \ haTorn : HaClaimed(j)' /\ ~HaReturning(j)' =>
          ~HaReturning(j) /\ (j \in HaFree(haAlloc') => j \in HaFree(haAlloc))
  BY <1>3, <1>8, <1>9
<1> QED BY <1>3, <1>4, <1>5, <1>6, <1>7, <1>11, HaKeeps

\* The retired row was the only one to claim its address.
LEMMA HaRetireInv ==
  ASSUME HaInv, NEW v \in HaVms, HaRetire(v)
  PROVE  HaInv'
<1>4. /\ haRow' = [haRow EXCEPT ![v] = HaNone] /\ haTask' = [haTask EXCEPT ![v] = "idle"]
      /\ haLease' = haLease /\ haHeld' = haHeld /\ haDaemon' = haDaemon /\ haTorn' = haTorn
      /\ haDaemon = "up" /\ haTask[v] = "retiring" /\ haAlloc' = haAlloc
  BY DEF HaRetire
<1>5. HaTypes' BY <1>4, HaNoneOutside DEF HaInv, HaTypes, HaTasks
<1>6. ASSUME NEW w \in HaVms PROVE HaVmOK(w)' BY <1>4 DEF HaInv, HaTypes, HaVmOK
<1>7. \A w \in HaVms, j \in HaIndexes : HaClaims(w, j)' => HaClaims(w, j) /\ w # v
  BY <1>4, HaNoneOutside DEF HaClaims, HaInv, HaTypes, HaVmOK
<1>9. \A j \in HaIndexes \ haTorn : HaClaimed(j)' => haRow[v] # j
  BY <1>7 DEF HaClaimed, HaClaims, HaInv, HaExclusive
<1>10. \A j \in HaIndexes \ haTorn : HaClaimed(j)' /\ HaReturning(j) => HaReturning(j)'
  BY <1>4, <1>9 DEF HaReturning, HaInv, HaTypes
<1> QED BY <1>4, <1>5, <1>6, <1>7, <1>10, HaKeeps DEF HaInv

\* A crash forgets every claim that is not durable.
LEMMA HaCrashInv ==
  ASSUME HaAssumption, HaInv, HaCrash
  PROVE  HaInv'
<1> USE DEF HaCrash, HaMem
<1>1. HaTypes' BY HaNoneOutside DEF HaInv, HaTypes, HaTasks, HaDaemons
<1>2. HaAllocOK(haAlloc')
  <2>1. {} \in SUBSET HaIndexes /\ 0 \in 0..HaMaxIndex BY DEF HaAssumption
  <2> QED BY <2>1 DEF HaAllocOK, HaFresh
<1>3. ASSUME NEW w \in HaVms PROVE HaVmOK(w)' BY DEF HaInv, HaVmOK
<1>4. \A w \in HaVms, j \in HaIndexes : HaClaims(w, j)' => HaClaims(w, j)
  BY HaNoneOutside DEF HaClaims
<1>5. HaExclusive' BY <1>4 DEF HaInv, HaExclusive
<1>6. HaWithheld' BY DEF HaWithheld
<1> QED BY <1>1, <1>2, <1>3, <1>5, <1>6 DEF HaInv

\* An address that is not torn has one durable owner at most.
LEMMA HaDurableOnce ==
  ASSUME HaInv, NEW i \in HaIndexes \ haTorn
  PROVE  HaDurable(i) \in Int /\ HaDurable(i) <= 1
<1> DEFINE A == {v \in HaVms : haRow[v] = i}
           B == {v \in HaVms : haLease[v] = i}
<1>1. \A x, y \in A \union B : x = y BY DEF HaInv, HaExclusive, HaClaims
<1>2. A = {} \/ B = {}
  <2> SUFFICES ASSUME NEW x \in A, NEW y \in B PROVE FALSE OBVIOUS
  <2>1. x = y BY <1>1
  <2> QED BY <2>1, HaNoneOutside DEF HaInv, HaVmOK
<1>3. HaDurable(i) = Cardinality(A) + Cardinality(B) BY DEF HaDurable
<1>4. Cardinality(A) \in {0, 1} BY <1>1, HaAtMostOne
<1>5. Cardinality(B) \in {0, 1} BY <1>1, HaAtMostOne
<1>6. Cardinality(A) = 0 \/ Cardinality(B) = 0 BY <1>2, FS_EmptySet
<1> HIDE DEF A, B
<1> QED BY <1>3, <1>4, <1>5, <1>6

\* A start withholds every address a row or a lease names, and refuses only
\* when two of them name one.
LEMMA HaStartInv ==
  ASSUME HaAssumption, HaInv, HaStart
  PROVE  HaInv'
<1>1. /\ haLease' = haLease /\ haRow' = haRow /\ haHeld' = haHeld /\ haTorn' = haTorn
      /\ haAlloc' = HaSeeded /\ haDaemon = "down" /\ haDaemon' \in {"up", "refused"}
      /\ haDaemon' = "refused" => \E i \in HaLeased : HaDurable(i) > 1
      /\ haTask' = [v \in HaVms |-> IF haLease[v] # HaNone THEN "stuck" ELSE "idle"]
  BY DEF HaStart, HaMem
<1>2. HaTypes' BY <1>1 DEF HaInv, HaTypes, HaTasks, HaDaemons
<1>3. HaAllocOK(haAlloc') /\ HaFree(haAlloc') \subseteq HaIndexes \ HaOwned
  BY <1>1, HaSeededIs DEF HaInv
<1>4. ASSUME NEW w \in HaVms PROVE HaVmOK(w)' BY <1>1 DEF HaInv, HaVmOK
<1>5. \A w \in HaVms, j \in HaIndexes : HaClaims(w, j)' => HaClaims(w, j) /\ j \in HaOwned
  BY <1>1, HaNoneOutside DEF HaClaims, HaInv, HaVmOK, HaOwned, HaLeased
<1>6. HaExclusive' BY <1>1, <1>5 DEF HaInv, HaExclusive
<1>7. HaWithheld' BY <1>3, <1>5 DEF HaWithheld, HaClaimed
<1>8. haDaemon' = "refused" => haTorn' # {}
  <2> SUFFICES ASSUME NEW i \in HaLeased, HaDurable(i) > 1 PROVE haTorn # {} BY <1>1
  <2>1. i \in HaIndexes BY DEF HaLeased, HaInv, HaTypes, HaMaybe
  <2>2. ASSUME i \notin haTorn PROVE FALSE
    <3>1. HaDurable(i) <= 1 BY <2>1, <2>2, HaDurableOnce
    <3>2. HaDurable(i) \in Int BY <2>1, <2>2, HaDurableOnce
    <3> QED BY <3>1, <3>2
  <2> QED BY <2>2
<1> QED BY <1>2, <1>3, <1>4, <1>6, <1>7, <1>8 DEF HaInv

\* Every step keeps the invariant.
LEMMA HaStep ==
  ASSUME HaAssumption, HaInv, [HaNext]_haVars
  PROVE  HaInv'
<1>1. ASSUME NEW v \in HaVms, HaAllocate(v) PROVE HaInv' BY <1>1, HaAllocateInv
<1>2. ASSUME NEW v \in HaVms, HaLeaseAddress(v) PROVE HaInv' BY <1>2, HaLeaseAddressInv
<1>3. ASSUME NEW v \in HaVms, HaCommit(v) PROVE HaInv' BY <1>3, HaCommitInv
<1>4. ASSUME NEW v \in HaVms, HaRollback(v) PROVE HaInv' BY <1>4, HaRollbackInv
<1>5. ASSUME NEW v \in HaVms, HaReturn(v) PROVE HaInv' BY <1>5, HaReturnInv
<1>6. ASSUME NEW v \in HaVms, HaRollbackFails(v) PROVE HaInv' BY <1>6, HaRollbackFailsInv
<1>7. ASSUME NEW v \in HaVms, HaReleaseRow(v) PROVE HaInv' BY <1>7, HaReleaseRowInv
<1>8. ASSUME NEW v \in HaVms, HaRetire(v) PROVE HaInv' BY <1>8, HaRetireInv
<1>9. ASSUME NEW v \in HaVms, HaRetireFails(v) PROVE HaInv' BY <1>9, HaRetireFailsInv
<1>10. ASSUME NEW v \in HaVms, HaRecover(v) PROVE HaInv' BY <1>10, HaRecoverInv
<1>11. CASE HaCrash BY <1>11, HaCrashInv
<1>12. CASE HaStart BY <1>12, HaStartInv
<1>13. CASE UNCHANGED haVars
  BY <1>13 DEF haVars, HaInv, HaTypes, HaVmOK, HaExclusive, HaWithheld, HaClaims, HaClaimed,
      HaReturning
<1> QED BY <1>1, <1>2, <1>3, <1>4, <1>5, <1>6, <1>7, <1>8, <1>9, <1>10, <1>11, <1>12, <1>13 DEF
    HaNext

\* The invariant is what HaOwnedOnce promises.
LEMMA HaInvIs == HaInv => HaOwnedOnce
<1> SUFFICES ASSUME HaInv PROVE HaOwnedOnce OBVIOUS
<1>1. ASSUME NEW i \in HaIndexes \ haTorn
      PROVE  /\ Cardinality(HaOwners(i)) <= 1
             /\ haDaemon = "up" /\ HaOwners(i) # {} /\ ~HaReturning(i) => i \notin HaFree(haAlloc)
  <2>1. \A v \in HaOwners(i) : v \in HaVms /\ HaClaims(v, i) BY DEF HaOwners, HaClaims
  <2>2. \A v, w \in HaOwners(i) : v = w BY <2>1 DEF HaInv, HaExclusive
  <2>3. Cardinality(HaOwners(i)) <= 1 BY <2>2, HaAtMostOne
  <2>4. HaOwners(i) # {} => HaClaimed(i) BY <2>1 DEF HaClaimed
  <2> QED BY <2>3, <2>4 DEF HaInv, HaWithheld
<1> QED BY <1>1 DEF HaOwnedOnce, HaInv

-----------------------------------------------------------------------------
(* HostFirewall.                                                           *)

FwPhases == {"down", "reconcile", "bridge", "restore", "up", "closing"}
FwTapStates == {"absent", "loose", "attached"}
FwGuests == {"none", "creating", "forking", "wired", "running", "suspended",
             "resuming", "waking", "orphan", "dead"}

\* The rules of a TAP whose policy is pinned.
FwPolicy == Append(Reverse(FwAllows), FwDeny)

\* The types the argument needs; a TAP's rules are its whole policy or none.
FwTypes ==
  /\ fwPhase \in FwPhases
  /\ fwIsolated \in BOOLEAN /\ fwBridge \in BOOLEAN /\ fwBared \in BOOLEAN
  /\ fwEgress \in [FwChains -> [FwTaps -> {<<>>, FwPolicy}]]
  /\ fwTap \in [FwTaps -> FwTapStates]
  /\ fwGuest \in [FwTaps -> FwGuests]
  /\ fwFiltered \in [FwTaps -> BOOLEAN]

FwBare(t) == \A c \in FwChains : fwEgress[c][t] = <<>>

\* What holds of one TAP: while it is attached the isolation rules stand, a
\* live filtered guest behind it has its policy in both chains, and a plain
\* guest's TAP, like one nobody owns, has no rule in either.
FwTapOK(t) ==
  /\ fwTap[t] = "attached" /\ ~fwBared => fwIp = FwIpRules(fwIsolated) /\ fwBridge
  /\ fwTap[t] = "attached" /\ ~fwBared /\ FwLive(t) /\ fwFiltered[t] => FwHasPolicy(t)
  /\ ~fwFiltered[t] \/ fwGuest[t] = "none" => FwBare(t)
  /\ fwPhase = "bridge" => fwTap[t] # "attached"

\* FwContained says nothing of loose TAPs and of TAPs nobody owns; what they
\* carry decides what the next guest attached behind them may do.
FwInv ==
  /\ FwTypes
  /\ fwPhase \in {"restore", "up"} => fwIp = FwIpRules(fwIsolated) /\ fwBridge
  /\ \A t \in FwTaps : FwTapOK(t)
  /\ fwPhase = "bridge" => fwBridge

-----------------------------------------------------------------------------

\* The reverse of a sequence of three.
LEMMA FwReverse3 ==
  ASSUME NEW a, NEW b, NEW c
  PROVE  Reverse(<<a, b, c>>) = <<c, b, a>>
<1>0. PICK s : s = <<a, b, c>> OBVIOUS
<1>1. s \in Seq({a, b, c}) /\ Len(s) = 3 /\ s[1] = a /\ s[2] = b /\ s[3] = c BY <1>0
<1>2. PICK r : r = Reverse(s) OBVIOUS
<1>3. r = [i \in 1..3 |-> s[(3 - i) + 1]] BY <1>1, <1>2, Zenon DEF Reverse
<1>4. r[1] = c /\ r[2] = b /\ r[3] = a BY <1>1, <1>3
<1>5. r \in Seq({a, b, c}) /\ Len(r) = 3
  <2>1. \A i \in 1..3 : s[(3 - i) + 1] \in {a, b, c} BY <1>1
  <2>2. r \in [1..3 -> {a, b, c}] BY <2>1, <1>3
  <2>3. [1..3 -> {a, b, c}] \in {[1..n -> {a, b, c}] : n \in Nat} OBVIOUS
  <2>4. r \in Seq({a, b, c}) BY <2>2, <2>3, SeqDef, Zenon
  <2>5. DOMAIN r = 1..3 BY <1>3
  <2>6. Len(r) \in Nat /\ DOMAIN r = 1..Len(r) BY <2>4, LenProperties
  <2> QED BY <2>4, <2>5, <2>6
<1>6. r = <<c, b, a>> 
  <2>1. PICK q : q = <<c, b, a>> OBVIOUS
  <2>2. q \in Seq({a, b, c}) /\ Len(q) = 3 /\ q[1] = c /\ q[2] = b /\ q[3] = a BY <2>1
  <2>3. \A i \in 1..3 : q[i] = r[i] 
     <3>1. \A i \in 1..3 : i = 1 \/ i = 2 \/ i = 3 OBVIOUS
     <3> QED BY <2>2, <1>4, <3>1
  <2> QED BY <2>1, <2>2, <2>3, <1>5, SeqEqual
<1> QED BY <1>0, <1>2, <1>6

\* A pinned policy lists its allows in the reverse of the order in which they
\* are inserted, and ends with the deny.
LEMMA FwPolicyIs ==
  FwPolicy = << FwRule({"listed"}, "accept", TRUE), FwRule({"resolver"}, "accept", FALSE),
                FwRule({"arp"}, "accept", FALSE), FwDeny >>
<1>1. PICK a : a = FwRule({"arp"}, "accept", FALSE) OBVIOUS
<1>2. PICK b : b = FwRule({"resolver"}, "accept", FALSE) OBVIOUS
<1>3. PICK c : c = FwRule({"listed"}, "accept", TRUE) OBVIOUS
<1>4. PICK d : d = FwDeny OBVIOUS
<1>5. FwAllows = <<a, b, c>> BY <1>1, <1>2, <1>3 DEF FwAllows
<1>6. Reverse(<<a, b, c>>) = <<c, b, a>> BY FwReverse3
<1>7. Append(<<c, b, a>>, d) = <<c, b, a, d>>
  <2>1. PICK s : s = <<c, b, a>> OBVIOUS
  <2>2. s \in Seq({a, b, c, d}) /\ Len(s) = 3 /\ s[1] = c /\ s[2] = b /\ s[3] = a BY <2>1
  <2>3. PICK r : r = Append(s, d) OBVIOUS
  <2>4. /\ r \in Seq({a, b, c, d}) /\ Len(r) = 4 /\ r[4] = d
        /\ r[1] = s[1] /\ r[2] = s[2] /\ r[3] = s[3]
    <3>1. PICK T : T = {a, b, c, d} OBVIOUS
    <3>2. s \in Seq(T) /\ d \in T BY <2>2, <3>1
    <3>3. /\ r \in Seq(T) /\ Len(r) = Len(s) + 1 /\ r[Len(s) + 1] = d
          /\ \A i \in 1..Len(s) : r[i] = s[i]
      BY <2>3, <3>2, AppendProperties, ZenonT(30)
    <3> QED BY <2>2, <3>1, <3>3
  <2>5. PICK q : q = <<c, b, a, d>> OBVIOUS
  <2>6. /\ q \in Seq({a, b, c, d}) /\ Len(q) = 4
        /\ q[1] = c /\ q[2] = b /\ q[3] = a /\ q[4] = d
    BY <2>5
  <2>7. \A i \in 1..4 : i = 1 \/ i = 2 \/ i = 3 \/ i = 4 OBVIOUS
  <2>8. \A i \in 1..4 : r[i] = q[i] BY <2>2, <2>4, <2>6, <2>7
  <2>9. r = q BY <2>4, <2>6, <2>8, SeqEqual
  <2> QED BY <2>1, <2>3, <2>5, <2>9
<1>8. FwPolicy = <<c, b, a, d>> BY <1>4, <1>5, <1>6, <1>7, Zenon DEF FwPolicy
<1> QED BY <1>1, <1>2, <1>3, <1>4, <1>8

\* A pinned policy is not empty.
LEMMA FwPolicySome == FwPolicy # <<>>
<1>1. \A a, b, c, d : <<a, b, c, d>> # <<>> OBVIOUS
<1> QED BY <1>1, FwPolicyIs, Zenon

-----------------------------------------------------------------------------

\* Initially nothing is attached and no TAP has rules.
LEMMA FwInitInv == FwInit => FwInv
<1> SUFFICES ASSUME FwInit PROVE FwInv OBVIOUS
<1> USE DEF FwInit
<1>1. \A c \in FwChains, t \in FwTaps : fwEgress[c][t] = <<>> BY DEF FwNoEgress
<1>2. FwTypes
  <2>1. fwEgress \in [FwChains -> [FwTaps -> {<<>>, FwPolicy}]] BY DEF FwNoEgress
  <2> QED BY <2>1 DEF FwTypes, FwPhases, FwTapStates, FwGuests
<1>3. ASSUME NEW t \in FwTaps PROVE FwTapOK(t) BY <1>1 DEF FwTapOK, FwBare
<1> QED BY <1>2, <1>3 DEF FwInv

\* The rules of a TAP after the policy of one, perhaps the same, is pinned.
LEMMA FwPinnedIs ==
  ASSUME FwTypes, NEW t \in FwTaps,
         fwEgress' = [c \in FwChains |-> FwPinned(fwEgress[c], t)]
  PROVE  /\ fwEgress' \in [FwChains -> [FwTaps -> {<<>>, FwPolicy}]]
         /\ \A c \in FwChains, u \in FwTaps :
              fwEgress'[c][u] = IF u = t THEN FwPolicy ELSE fwEgress[c][u]
<1>1. \A c \in FwChains : fwEgress'[c] = [fwEgress[c] EXCEPT ![t] = FwPolicy]
  BY DEF FwPinned, FwPolicy
<1>2. \A c \in FwChains : fwEgress[c] \in [FwTaps -> {<<>>, FwPolicy}] BY DEF FwTypes
<1>3. \A c \in FwChains : fwEgress'[c] \in [FwTaps -> {<<>>, FwPolicy}]
  BY <1>1, <1>2, ZenonT(40)
<1>4. fwEgress' \in [FwChains -> [FwTaps -> {<<>>, FwPolicy}]] BY <1>3
<1> QED BY <1>1, <1>2, <1>4

\* The rules of a TAP after those of one, perhaps the same, were removed from
\* some of the chains.
LEMMA FwRemovedIs ==
  ASSUME FwTypes, NEW t \in FwTaps, NEW kept,
         fwEgress' = [c \in FwChains |-> IF c \in kept THEN fwEgress[c]
                                        ELSE FwWithout(fwEgress[c], t)]
  PROVE  /\ fwEgress' \in [FwChains -> [FwTaps -> {<<>>, FwPolicy}]]
         /\ \A c \in FwChains, u \in FwTaps :
              fwEgress'[c][u] = IF u = t /\ c \notin kept THEN <<>> ELSE fwEgress[c][u]
<1>1. \A c \in FwChains : fwEgress'[c] = IF c \in kept THEN fwEgress[c]
                                          ELSE [fwEgress[c] EXCEPT ![t] = <<>>]
  BY DEF FwWithout
<1>2. \A c \in FwChains : fwEgress[c] \in [FwTaps -> {<<>>, FwPolicy}] BY DEF FwTypes
<1>3. \A c \in FwChains : fwEgress'[c] \in [FwTaps -> {<<>>, FwPolicy}]
  BY <1>1, <1>2, ZenonT(40)
<1>4. fwEgress' \in [FwChains -> [FwTaps -> {<<>>, FwPolicy}]] BY <1>3
<1> QED BY <1>1, <1>2, <1>4

\* An operation on one VM, none of whose TAP's rules change, keeps the
\* invariant when it keeps what is said of that VM's TAP.
LEMMA FwVmStep ==
  ASSUME FwInv, NEW t \in FwTaps, NEW g \in FwGuests, NEW k \in FwTapStates,
         FwSet(t, g, k), UNCHANGED <<fwHost, fwEgress>>,
         fwFiltered' \in [FwTaps -> BOOLEAN],
         \A u \in FwTaps : u # t => fwFiltered'[u] = fwFiltered[u],
         FwTapOK(t)'
  PROVE  FwInv'
<1> USE DEF fwHost, FwSet
<1>1. FwTypes' BY DEF FwInv, FwTypes
<1>2. ASSUME NEW u \in FwTaps, u # t PROVE FwTapOK(u)'
  <2>1. fwGuest'[u] = fwGuest[u] /\ fwTap'[u] = fwTap[u] /\ fwFiltered'[u] = fwFiltered[u]
    BY <1>2 DEF FwInv, FwTypes
  <2> QED BY <2>1 DEF FwInv, FwTapOK, FwLive, FwBare, FwHasPolicy
<1> QED BY <1>1, <1>2 DEF FwInv

\* create_tap.
LEMMA FwCreateTapInv ==
  ASSUME FwInv, NEW t \in FwTaps, NEW b \in BOOLEAN, FwCreateTap(t, b)
  PROVE  FwInv'
<1>1. fwTap'[t] = "loose" /\ FwBare(t)
  BY DEF FwCreateTap, FwSet, FwInv, FwTypes, FwTapOK
<1>2. FwTapOK(t)' BY <1>1 DEF FwCreateTap, FwTapOK, FwBare
<1>3. fwFiltered' \in [FwTaps -> BOOLEAN] /\ \A u \in FwTaps : u # t => fwFiltered'[u] = fwFiltered[u]
  BY DEF FwCreateTap, FwInv, FwTypes
<1>4. "creating" \in FwGuests /\ "loose" \in FwTapStates BY DEF FwGuests, FwTapStates
<1>5. FwSet(t, "creating", "loose") /\ UNCHANGED <<fwHost, fwEgress>> BY DEF FwCreateTap
<1> QED BY <1>2, <1>3, <1>4, <1>5, FwVmStep

\* An operation on one VM that leaves every rule and the VM's network mode.
LEMMA FwPlainStep ==
  ASSUME FwInv, NEW t \in FwTaps, NEW g \in FwGuests \ {"none"}, NEW k \in FwTapStates,
         FwSet(t, g, k), UNCHANGED <<fwHost, fwEgress, fwFiltered>>,
         k = "attached" => fwPhase \in {"restore", "up"},
         k = "attached" /\ fwFiltered[t] /\ FwLive(t)' => fwBared \/ FwHasPolicy(t)
  PROVE  FwInv'
<1>1. fwTap'[t] = k /\ fwGuest'[t] = g BY DEF FwSet, FwInv, FwTypes
<1>2. FwTapOK(t)'
  <2>1. fwIp' = fwIp /\ fwIsolated' = fwIsolated /\ fwBridge' = fwBridge /\ fwBared' = fwBared
        /\ fwPhase' = fwPhase /\ fwEgress' = fwEgress /\ fwFiltered' = fwFiltered
    BY DEF fwHost
  <2> QED BY <1>1, <2>1 DEF FwInv, FwTapOK, FwBare, FwHasPolicy
<1>3. fwFiltered' \in [FwTaps -> BOOLEAN] /\ \A u \in FwTaps : u # t => fwFiltered'[u] = fwFiltered[u]
  BY DEF FwInv, FwTypes
<1> QED BY <1>2, <1>3, FwVmStep

\* The fork runs on its loose TAP.
LEMMA FwForkRestoredInv ==
  ASSUME FwInv, NEW t \in FwTaps, FwForkRestored(t)
  PROVE  FwInv'
<1>1. "forking" \in FwGuests \ {"none"} /\ "loose" \in FwTapStates BY DEF FwGuests, FwTapStates
<1> QED BY <1>1, FwPlainStep DEF FwForkRestored

\* Attaching: the policy stands first.
LEMMA FwAttachInv ==
  ASSUME FwInv, NEW t \in FwTaps, FwAttach(t)
  PROVE  FwInv'
<1>1. PICK g : g = CASE fwGuest[t] = "creating" -> "wired"
                     [] fwGuest[t] = "forking" -> "running"
                     [] fwPhase = "restore" -> "suspended"
                     [] OTHER -> "waking"
  OBVIOUS
<1>2. g \in {"wired", "running", "suspended", "waking"}
  <2>1. CASE fwGuest[t] = "creating" BY <1>1, <2>1
  <2>2. CASE fwGuest[t] = "forking" BY <1>1, <2>2
  <2>3. CASE fwGuest[t] # "creating" /\ fwGuest[t] # "forking" /\ fwPhase = "restore"
    BY <1>1, <2>3
  <2>4. CASE fwGuest[t] # "creating" /\ fwGuest[t] # "forking" /\ fwPhase # "restore"
    BY <1>1, <2>4
  <2> QED BY <2>1, <2>2, <2>3, <2>4
<1>3. g \in FwGuests \ {"none"} /\ "attached" \in FwTapStates
  BY <1>2 DEF FwGuests, FwTapStates
<1>4. FwSet(t, g, "attached") BY <1>1, Zenon DEF FwAttach
<1>5. /\ UNCHANGED <<fwHost, fwEgress, fwFiltered>> /\ fwPhase \in {"restore", "up"}
      /\ fwFiltered[t] => FwHasPolicy(t)
  BY DEF FwAttach, FwMayAttach
<1> QED BY <1>3, <1>4, <1>5, FwPlainStep

\* The guest behind a TAP starts, is suspended or is killed.
LEMMA FwGuestInv ==
  ASSUME FwInv, NEW t \in FwTaps, FwRuns(t) \/ FwSuspend(t) \/ FwKill(t)
  PROVE  FwInv'
<1>1. PICK g : g \in {"running", "suspended", "dead"} /\ FwSet(t, g, fwTap[t])
               /\ (g = "running" => fwGuest[t] \in {"wired", "waking"})
  BY DEF FwRuns, FwSuspend, FwKill
<1>2. g \in FwGuests \ {"none"} /\ fwTap[t] \in FwTapStates
  BY <1>1 DEF FwGuests, FwInv, FwTypes
<1>3. /\ UNCHANGED <<fwHost, fwEgress, fwFiltered>> /\ fwPhase = "up"
  BY DEF FwRuns, FwSuspend, FwKill
<1>4. fwGuest'[t] = g BY <1>1 DEF FwSet, FwInv, FwTypes
<1>5. FwLive(t)' => FwLive(t) BY <1>1, <1>4 DEF FwLive
<1>6. fwTap[t] = "attached" /\ fwFiltered[t] /\ FwLive(t)' => fwBared \/ FwHasPolicy(t)
  BY <1>5 DEF FwInv, FwTapOK
<1> QED BY <1>1, <1>2, <1>3, <1>6, FwPlainStep

\* A recreated TAP is loose.
LEMMA FwRecreateTapInv ==
  ASSUME FwInv, NEW t \in FwTaps, FwRecreateTap(t)
  PROVE  FwInv'
<1>1. "resuming" \in FwGuests \ {"none"} /\ "loose" \in FwTapStates BY DEF FwGuests, FwTapStates
<1> QED BY <1>1, FwPlainStep DEF FwRecreateTap

\* Pinning replaces the rules of one TAP.
LEMMA FwApplyPolicyInv ==
  ASSUME FwInv, NEW t \in FwTaps, FwApplyPolicy(t)
  PROVE  FwInv'
<1>1. /\ fwEgress' \in [FwChains -> [FwTaps -> {<<>>, FwPolicy}]]
      /\ \A c \in FwChains, u \in FwTaps :
           fwEgress'[c][u] = IF u = t THEN FwPolicy ELSE fwEgress[c][u]
  BY FwPinnedIs DEF FwInv, FwApplyPolicy
<1>2. /\ fwIp' = fwIp /\ fwIsolated' = fwIsolated /\ fwBridge' = fwBridge /\ fwBared' = fwBared
      /\ fwPhase' = fwPhase /\ fwTap' = fwTap /\ fwFiltered' = fwFiltered
      /\ fwGuest' = [fwGuest EXCEPT ![t] = IF @ = "suspended" THEN "resuming" ELSE @]
      /\ fwFiltered[t] /\ fwGuest[t] \in {"creating", "forking", "suspended", "resuming"}
  BY DEF FwApplyPolicy, fwHost
<1>3. FwTypes' BY <1>1, <1>2 DEF FwInv, FwTypes, FwGuests
<1>4. ASSUME NEW u \in FwTaps PROVE FwTapOK(u)'
  <2>1. CASE u = t
    <3>1. FwHasPolicy(t)' BY <1>1, <1>2, FwPolicySome DEF FwHasPolicy
    <3>2. fwGuest'[t] # "none" BY <1>2 DEF FwInv, FwTypes
    <3> QED BY <1>2, <2>1, <3>1, <3>2 DEF FwInv, FwTapOK
  <2>2. CASE u # t
    <3>1. fwGuest'[u] = fwGuest[u] BY <1>2, <2>2 DEF FwInv, FwTypes
    <3>2. \A c \in FwChains : fwEgress'[c][u] = fwEgress[c][u] BY <1>1, <2>2
    <3>3. FwTapOK(u) BY DEF FwInv
    <3> QED BY <1>2, <3>1, <3>2, <3>3 DEF FwTapOK, FwLive, FwBare, FwHasPolicy
  <2> QED BY <2>1, <2>2
<1> QED BY <1>2, <1>3, <1>4 DEF FwInv

\* A removal, complete or not, is of a TAP whose guest is dead.
LEMMA FwRemoveInv ==
  ASSUME FwInv, NEW t \in FwTaps, NEW kept, NEW b \in BOOLEAN, FwRemove(t, kept, b)
  PROVE  FwInv'
<1>1. /\ fwEgress' \in [FwChains -> [FwTaps -> {<<>>, FwPolicy}]]
      /\ \A c \in FwChains, u \in FwTaps :
           fwEgress'[c][u] = IF u = t /\ c \notin kept THEN <<>> ELSE fwEgress[c][u]
  BY FwRemovedIs DEF FwInv, FwRemove
<1>2. /\ fwIp' = fwIp /\ fwIsolated' = fwIsolated /\ fwBridge' = fwBridge /\ fwBared' = fwBared
      /\ fwPhase' = fwPhase /\ fwFiltered' = fwFiltered /\ fwGuest[t] = "dead"
  BY DEF FwRemove, fwHost
<1>3. PICK g \in {"none", "dead"} :
        /\ fwGuest' = [fwGuest EXCEPT ![t] = g]
        /\ g = "none" => \A c \in FwChains : fwEgress'[c][t] = <<>>
  BY DEF FwRemove, FwSet
<1>4. PICK k \in {fwTap[t], "absent"} : fwTap' = [fwTap EXCEPT ![t] = k]
  BY DEF FwRemove, FwSet
<1>5. FwTypes' BY <1>1, <1>2, <1>3, <1>4 DEF FwInv, FwTypes, FwGuests, FwTapStates
<1>6. ASSUME NEW u \in FwTaps PROVE FwTapOK(u)'
  <2>0. FwTapOK(u) BY DEF FwInv
  <2>1. CASE u = t
    <3>1. fwGuest'[u] = g /\ fwTap'[u] \in {fwTap[u], "absent"}
      BY <1>3, <1>4, <2>1 DEF FwInv, FwTypes
    <3>2. ~FwLive(u)' BY <3>1 DEF FwLive
    <3>3. FwBare(u) => FwBare(u)' BY <1>1 DEF FwBare
    <3>4. fwGuest'[u] = "none" => FwBare(u)' BY <1>3, <2>1, <3>1 DEF FwBare
    <3> QED BY <1>2, <2>0, <3>1, <3>2, <3>3, <3>4 DEF FwTapOK
  <2>2. CASE u # t
    <3>1. fwGuest'[u] = fwGuest[u] /\ fwTap'[u] = fwTap[u] BY <1>3, <1>4, <2>2 DEF FwInv, FwTypes
    <3>2. \A c \in FwChains : fwEgress'[c][u] = fwEgress[c][u] BY <1>1, <2>2
    <3> QED BY <1>2, <2>0, <3>1, <3>2 DEF FwTapOK, FwLive, FwBare, FwHasPolicy
  <2> QED BY <2>1, <2>2
<1> QED BY <1>2, <1>5, <1>6 DEF FwInv

\* A crash changes no table, no TAP and no network mode, and revives no guest.
LEMMA FwCrashInv ==
  ASSUME FwInv, FwCrash
  PROVE  FwInv'
<1>1. /\ fwIp' = fwIp /\ fwIsolated' = fwIsolated /\ fwBridge' = fwBridge /\ fwBared' = fwBared
      /\ fwPhase' = "down" /\ fwFiltered' = fwFiltered /\ fwEgress' = fwEgress /\ fwTap' = fwTap
  BY DEF FwCrash
<1>2. fwGuest' \in [FwTaps -> FwGuests] /\ \A t \in FwTaps :
         /\ fwGuest'[t] \in {"orphan", "suspended", "none", "dead"}
         /\ fwGuest'[t] = "orphan" => FwLive(t)
         /\ fwGuest'[t] = "none" => fwGuest[t] = "none"
  <2> DEFINE G(t) == CASE fwGuest[t] \in {"running", "forking", "wired", "orphan"} -> "orphan"
                       [] fwGuest[t] \in {"suspended", "resuming", "waking"} -> "suspended"
                       [] fwGuest[t] = "none" -> "none"
                       [] OTHER -> "dead"
  <2>1. fwGuest' = [t \in FwTaps |-> G(t)] BY Zenon DEF FwCrash
  <2>2. ASSUME NEW t \in FwTaps
        PROVE  /\ G(t) \in {"orphan", "suspended", "none", "dead"}
               /\ G(t) = "orphan" => FwLive(t)
               /\ G(t) = "none" => fwGuest[t] = "none"
    <3>1. CASE fwGuest[t] \in {"running", "forking", "wired", "orphan"} BY <3>1 DEF FwLive
    <3>2. CASE fwGuest[t] \in {"suspended", "resuming", "waking"} BY <3>2
    <3>3. CASE fwGuest[t] = "none" BY <3>3
    <3>4. CASE fwGuest[t] \notin {"running", "forking", "wired", "orphan", "suspended",
                                  "resuming", "waking", "none"}
      BY <3>4
    <3> QED BY <3>1, <3>2, <3>3, <3>4
  <2> HIDE DEF G
  <2>3. \A t \in FwTaps : fwGuest'[t] = G(t) BY <2>1
  <2>4. \A t \in FwTaps : G(t) \in FwGuests BY <2>2 DEF FwGuests
  <2> QED BY <2>1, <2>2, <2>3, <2>4
<1>3. FwTypes' BY <1>1, <1>2 DEF FwInv, FwTypes, FwPhases
<1>4. ASSUME NEW t \in FwTaps PROVE FwTapOK(t)'
  <2>1. FwTapOK(t) BY DEF FwInv
  <2>2. FwLive(t)' => FwLive(t) BY <1>2 DEF FwLive
  <2> QED BY <1>1, <1>2, <2>1, <2>2 DEF FwTapOK, FwBare, FwHasPolicy
<1> QED BY <1>1, <1>3, <1>4 DEF FwInv

\* A step after which nothing is attached.
LEMMA FwDetached ==
  ASSUME FwInv, FwTypes', \A t \in FwTaps : fwTap'[t] # "attached", fwFiltered' = fwFiltered,
         fwPhase' \in {"down", "bridge"}, fwPhase' = "bridge" => fwBridge',
         fwEgress' = fwEgress \/ fwEgress' = FwNoEgress,
         \A t \in FwTaps : fwGuest'[t] = "none" => fwGuest[t] = "none"
  PROVE  FwInv'
<1>1. ASSUME NEW t \in FwTaps PROVE FwTapOK(t)'
  <2>1. FwBare(t) => FwBare(t)' BY DEF FwBare, FwNoEgress
  <2>2. FwTapOK(t) BY DEF FwInv
  <2> QED BY <2>1, <2>2 DEF FwTapOK
<1> QED BY <1>1 DEF FwInv

\* A reboot, and the deletion or the recreation of the bridge, detach every TAP.
LEMMA FwDetachesInv ==
  ASSUME FwInv, FwReboot \/ FwCreateBridge \/ FwDeleteBridge
  PROVE  FwInv'
<1>0. FwNoEgress \in [FwChains -> [FwTaps -> {<<>>, FwPolicy}]] BY DEF FwNoEgress
<1>1. CASE FwReboot
  <2>1. FwTypes' BY <1>0, <1>1 DEF FwReboot, FwInv, FwTypes, FwGuests, FwTapStates
  <2> QED BY <1>1, <2>1, FwDetached DEF FwReboot
<1>2. CASE FwCreateBridge
  <2>1. FwTypes' BY <1>2 DEF FwCreateBridge, FwInv, FwTypes, FwPhases, FwLoosened, FwTapStates
  <2>2. \A t \in FwTaps : fwTap'[t] # "attached" BY <1>2 DEF FwCreateBridge, FwLoosened
  <2> QED BY <1>2, <2>1, <2>2, FwDetached DEF FwCreateBridge
<1>3. CASE FwDeleteBridge
  <2>1. FwTypes' BY <1>3 DEF FwDeleteBridge, FwInv, FwTypes, FwPhases, FwLoosened, FwTapStates, FwGuests
  <2>2. \A t \in FwTaps : fwTap'[t] # "attached" BY <1>3 DEF FwDeleteBridge, FwLoosened
  <2> QED BY <1>3, <2>1, <2>2, FwDetached DEF FwDeleteBridge
<1> QED BY <1>1, <1>2, <1>3

\* The reconciler deletes TAPs and attaches none.
LEMMA FwReconcileInv ==
  ASSUME FwInv, NEW busy, FwReconcile(busy)
  PROVE  FwInv'
<1> USE DEF FwReconcile
<1>1. FwTypes' BY DEF FwInv, FwTypes, FwPhases, FwTapStates
<1>2. ASSUME NEW t \in FwTaps PROVE FwTapOK(t)'
  <2>1. fwTap'[t] = "attached" => fwTap[t] = "attached" OBVIOUS
  <2>2. FwTapOK(t) BY DEF FwInv
  <2> QED BY <2>1, <2>2 DEF FwTapOK, FwBare, FwHasPolicy, FwLive
<1> QED BY <1>1, <1>2 DEF FwInv

\* init_nat runs while no TAP is attached.
LEMMA FwInitNatInv ==
  ASSUME FwInv, FwInitNat
  PROVE  FwInv'
<1> USE DEF FwInitNat
<1>0. FwNoEgress \in [FwChains -> [FwTaps -> {<<>>, FwPolicy}]] BY DEF FwNoEgress
<1>1. FwTypes' BY <1>0 DEF FwInv, FwTypes, FwPhases
<1>2. ASSUME NEW t \in FwTaps PROVE FwTapOK(t)'
  <2>1. FwBare(t)' BY DEF FwBare, FwNoEgress
  <2>2. fwTap'[t] # "attached" BY DEF FwInv, FwTapOK
  <2> QED BY <2>1, <2>2 DEF FwTapOK
<1>3. fwIp' = FwIpRules(fwIsolated') /\ fwBridge' BY DEF FwInv
<1> QED BY <1>1, <1>2, <1>3 DEF FwInv

\* Serving gives half-restored networks back to their suspended VMs.
LEMMA FwServeInv ==
  ASSUME FwInv, FwServe
  PROVE  FwInv'
<1> USE DEF FwServe
<1>1. FwTypes' BY DEF FwInv, FwTypes, FwPhases, FwGuests
<1>2. ASSUME NEW t \in FwTaps PROVE FwTapOK(t)'
  <2>1. FwTapOK(t) BY DEF FwInv
  <2>2. (FwLive(t)' => FwLive(t)) /\ (fwGuest'[t] = "none" => fwGuest[t] = "none")
    BY DEF FwLive
  <2> QED BY <2>1, <2>2 DEF FwTapOK, FwBare, FwHasPolicy
<1> QED BY <1>1, <1>2 DEF FwInv

\* cleanup_nat leaves the TAPs attached to a bare bridge.
LEMMA FwCleanupNatInv ==
  ASSUME FwInv, FwCleanupNat
  PROVE  FwInv'
<1> USE DEF FwCleanupNat
<1>0. FwNoEgress \in [FwChains -> [FwTaps -> {<<>>, FwPolicy}]] BY DEF FwNoEgress
<1>1. FwTypes' BY <1>0 DEF FwInv, FwTypes, FwPhases
<1>2. ASSUME NEW t \in FwTaps PROVE FwTapOK(t)'
  <2>1. FwBare(t)' BY DEF FwBare, FwNoEgress
  <2> QED BY <2>1 DEF FwTapOK
<1> QED BY <1>1, <1>2 DEF FwInv

\* Every step keeps the invariant.
LEMMA FwStep ==
  ASSUME FwInv, [FwNext]_fwVars
  PROVE  FwInv'
<1>1. ASSUME NEW t \in FwTaps, NEW b \in BOOLEAN, FwCreateTap(t, b) PROVE FwInv'
  BY <1>1, FwCreateTapInv
<1>2. ASSUME NEW t \in FwTaps, FwForkRestored(t) PROVE FwInv' BY <1>2, FwForkRestoredInv
<1>3. ASSUME NEW t \in FwTaps, FwApplyPolicy(t) PROVE FwInv' BY <1>3, FwApplyPolicyInv
<1>4. ASSUME NEW t \in FwTaps, FwAttach(t) PROVE FwInv' BY <1>4, FwAttachInv
<1>5. ASSUME NEW t \in FwTaps, FwRuns(t) \/ FwSuspend(t) \/ FwKill(t) PROVE FwInv'
  BY <1>5, FwGuestInv
<1>6. ASSUME NEW t \in FwTaps, FwRecreateTap(t) PROVE FwInv' BY <1>6, FwRecreateTapInv
<1>7. ASSUME NEW t \in FwTaps, NEW kept \in SUBSET FwChains, NEW b \in BOOLEAN,
             FwRemove(t, kept, b)
      PROVE  FwInv'
  BY <1>7, FwRemoveInv
<1>8. CASE FwCrash BY <1>8, FwCrashInv
<1>9. CASE FwReboot \/ FwCreateBridge \/ FwDeleteBridge BY <1>9, FwDetachesInv
<1>10. CASE FwInitNat BY <1>10, FwInitNatInv
<1>11. CASE FwServe BY <1>11, FwServeInv
<1>12. CASE FwCleanupNat BY <1>12, FwCleanupNatInv
<1>13. ASSUME NEW busy \in SUBSET FwTaps, FwReconcile(busy) PROVE FwInv' BY <1>13, FwReconcileInv
<1>14. CASE UNCHANGED fwVars
  BY <1>14 DEF fwVars, FwInv, FwTypes, FwTapOK, FwLive, FwBare, FwHasPolicy
<1> QED BY <1>1, <1>2, <1>3, <1>4, <1>5, <1>6, <1>7, <1>8, <1>9, <1>10, <1>11, <1>12, <1>13, <1>14
  DEF FwNext

-----------------------------------------------------------------------------

\* The first of the rules that match decides.
LEMMA FwFirst ==
  ASSUME NEW rules, NEW hits, hits \subseteq Int, NEW m \in hits, \A j \in hits : m <= j
  PROVE  FwDecides(rules, hits) = rules[m]
<1>1. PICK c : c = CHOOSE i \in hits : \A j \in hits : i <= j OBVIOUS
<1>2. c \in hits /\ \A j \in hits : c <= j BY <1>1
<1>3. c = m BY <1>2
<1>4. hits # {} OBVIOUS
<1> QED BY <1>1, <1>3, <1>4 DEF FwDecides

\* What a pinned policy does with a packet.
LEMMA FwPolicyDecides ==
  ASSUME NEW p \in FwPackets, NEW r,
         r = FwDecides(FwPolicy, {i \in DOMAIN FwPolicy : p \in FwPolicy[i].match})
  PROVE  /\ r.verdict = "accept" <=> p \in {"arp", "resolver", "listed"}
         /\ r.mark = IF p = "listed" THEN TRUE ELSE FALSE
<1>1. PICK q : q = FwPolicy OBVIOUS
<1>2. PICK r1 : r1 = FwRule({"listed"}, "accept", TRUE) OBVIOUS
<1>3. PICK r2 : r2 = FwRule({"resolver"}, "accept", FALSE) OBVIOUS
<1>4. PICK r3 : r3 = FwRule({"arp"}, "accept", FALSE) OBVIOUS
<1>5. PICK r4 : r4 = FwDeny OBVIOUS
<1>6. q = <<r1, r2, r3, r4>> BY <1>1, <1>2, <1>3, <1>4, <1>5, FwPolicyIs, Zenon
<1>7. DOMAIN q = 1..4 /\ q[1] = r1 /\ q[2] = r2 /\ q[3] = r3 /\ q[4] = r4 BY <1>6
<1>8. /\ r1.match = {"listed"} /\ r1.verdict = "accept" /\ r1.mark = TRUE
      /\ r2.match = {"resolver"} /\ r2.verdict = "accept" /\ r2.mark = FALSE
      /\ r3.match = {"arp"} /\ r3.verdict = "accept" /\ r3.mark = FALSE
      /\ r4.match = FwPackets /\ r4.verdict = "drop" /\ r4.mark = FALSE
  BY <1>2, <1>3, <1>4, <1>5 DEF FwRule, FwDeny
<1> DEFINE hits == {i \in DOMAIN q : p \in q[i].match}
<1>9. r = FwDecides(q, hits) BY <1>1, Zenon
<1>10. hits \subseteq 1..4 /\ 4 \in hits BY <1>7, <1>8
<1>10a. hits \subseteq Int BY <1>10
<1>11. \A j \in hits : j = 1 \/ j = 2 \/ j = 3 \/ j = 4 BY <1>10
<1>12. /\ 1 \in hits <=> p = "listed"
       /\ 2 \in hits <=> p = "resolver"
       /\ 3 \in hits <=> p = "arp"
  BY <1>7, <1>8
<1> HIDE DEF hits
<1>13. CASE p = "listed"
  <2>1. 1 \in hits /\ \A j \in hits : 1 <= j BY <1>10, <1>12, <1>13
  <2>3. FwDecides(q, hits) = q[1] BY <1>10a, <2>1, FwFirst, Zenon
  <2>2. r = r1 BY <1>7, <1>9, <2>3
  <2> QED BY <1>8, <1>13, <2>2
<1>14. CASE p = "resolver"
  <2>0. 2 \in hits /\ 1 \notin hits BY <1>12, <1>14
  <2>1. 2 \in hits /\ \A j \in hits : 2 <= j BY <1>11, <2>0
  <2>3. FwDecides(q, hits) = q[2] BY <1>10a, <2>1, FwFirst, Zenon
  <2>2. r = r2 BY <1>7, <1>9, <2>3
  <2> QED BY <1>8, <1>14, <2>2
<1>15. CASE p = "arp"
  <2>0. 3 \in hits /\ 1 \notin hits /\ 2 \notin hits BY <1>12, <1>15
  <2>1. 3 \in hits /\ \A j \in hits : 3 <= j BY <1>11, <2>0
  <2>3. FwDecides(q, hits) = q[3] BY <1>10a, <2>1, FwFirst, Zenon
  <2>2. r = r3 BY <1>7, <1>9, <2>3
  <2> QED BY <1>8, <1>15, <2>2
<1>16. CASE p \notin {"listed", "resolver", "arp"}
  <2>0. 4 \in hits /\ 1 \notin hits /\ 2 \notin hits /\ 3 \notin hits BY <1>10, <1>12, <1>16
  <2>1. 4 \in hits /\ \A j \in hits : 4 <= j BY <1>11, <2>0
  <2>3. FwDecides(q, hits) = q[4] BY <1>10a, <2>1, FwFirst, Zenon
  <2>2. r = r4 BY <1>7, <1>9, <2>3
  <2> QED BY <1>8, <1>16, <2>2
<1> QED BY <1>13, <1>14, <1>15, <1>16

\* The packets the isolated forward chain lets through.
LEMMA FwForwardIsolated ==
  ASSUME NEW p \in FwRouted, NEW marked \in BOOLEAN,
         fwIp = FwIpRules(TRUE)
  PROVE  FwIpVerdict("forward", p, marked).verdict = "accept"
           <=> marked \/ p \in {"reply", "resolver", "internet"}
<1>1. PICK q : q = fwIp["forward"] OBVIOUS
<1>2. PICK r1 : r1 = FwRule({"reply"}, "accept", FALSE) OBVIOUS
<1>3. PICK r2 : r2 = FwRule({}, "accept", TRUE) OBVIOUS
<1>4. PICK r3 : r3 = FwRule({"resolver"}, "accept", FALSE) OBVIOUS
<1>5. PICK r4 : r4 = FwRule(FwPrivate, "drop", FALSE) OBVIOUS
<1>6. PICK r5 : r5 = FwRule(FwPackets, "accept", FALSE) OBVIOUS
<1>7. q = FwForwardRules(TRUE) BY <1>1 DEF FwIpRules, FwChains
<1>8. q = <<r1, r2, r3, r4, r5>>
  BY <1>2, <1>3, <1>4, <1>5, <1>6, <1>7, Zenon DEF FwForwardRules
<1>9. /\ DOMAIN q = 1..5 /\ q[1] = r1 /\ q[2] = r2 /\ q[3] = r3 /\ q[4] = r4 /\ q[5] = r5
  BY <1>8
<1>10. /\ r1.match = {"reply"} /\ r1.verdict = "accept"
       /\ r2.match = {} /\ r2.verdict = "accept"
       /\ r3.match = {"resolver"} /\ r3.verdict = "accept"
       /\ r4.match = FwPrivate /\ r4.verdict = "drop"
       /\ r5.match = FwPackets /\ r5.verdict = "accept"
  BY <1>2, <1>3, <1>4, <1>5, <1>6 DEF FwRule
<1> DEFINE hits == {i \in DOMAIN q : p \in q[i].match \/ (q[i].match = {} /\ marked)}
<1>11. PICK r : r = FwIpVerdict("forward", p, marked) OBVIOUS
<1>12. r = FwDecides(q, hits) BY <1>1, <1>11, Zenon DEF FwIpVerdict
<1>13. /\ hits \subseteq 1..5 /\ 5 \in hits
       /\ 1 \in hits <=> p = "reply"
       /\ 2 \in hits <=> marked
       /\ 3 \in hits <=> p = "resolver"
       /\ 4 \in hits <=> p \in FwPrivate
  BY <1>9, <1>10 DEF FwPackets, FwRouted, FwPrivate
<1>13a. hits \subseteq Int BY <1>13
<1>14. \A j \in hits : j = 1 \/ j = 2 \/ j = 3 \/ j = 4 \/ j = 5 BY <1>13
<1> HIDE DEF hits
<1>15. CASE p = "reply"
  <2>1. 1 \in hits /\ \A j \in hits : 1 <= j BY <1>13, <1>15
  <2>3. FwDecides(q, hits) = q[1] BY <1>13a, <2>1, FwFirst, Zenon
  <2>2. r = r1 BY <1>9, <1>12, <2>3
  <2> QED BY <1>10, <1>11, <1>15, <2>2
<1>16. CASE p # "reply" /\ marked
  <2>0. 2 \in hits /\ 1 \notin hits BY <1>13, <1>16
  <2>1. 2 \in hits /\ \A j \in hits : 2 <= j BY <1>14, <2>0
  <2>3. FwDecides(q, hits) = q[2] BY <1>13a, <2>1, FwFirst, Zenon
  <2>2. r = r2 BY <1>9, <1>12, <2>3
  <2> QED BY <1>10, <1>11, <1>16, <2>2
<1>17. CASE p = "resolver" /\ ~marked
  <2>0. 3 \in hits /\ 1 \notin hits /\ 2 \notin hits BY <1>13, <1>17
  <2>1. 3 \in hits /\ \A j \in hits : 3 <= j BY <1>14, <2>0
  <2>3. FwDecides(q, hits) = q[3] BY <1>13a, <2>1, FwFirst, Zenon
  <2>2. r = r3 BY <1>9, <1>12, <2>3
  <2> QED BY <1>10, <1>11, <1>17, <2>2
<1>18. CASE p \in {"listed", "lan"} /\ ~marked
  <2>0. 4 \in hits /\ 1 \notin hits /\ 2 \notin hits /\ 3 \notin hits BY <1>13, <1>18 DEF FwPrivate
  <2>1. 4 \in hits /\ \A j \in hits : 4 <= j BY <1>14, <2>0
  <2>3. FwDecides(q, hits) = q[4] BY <1>13a, <2>1, FwFirst, Zenon
  <2>2. r = r4 BY <1>9, <1>12, <2>3
  <2> QED BY <1>10, <1>11, <1>18, <2>2
<1>19. CASE p = "internet" /\ ~marked
  <2>0. 5 \in hits /\ 1 \notin hits /\ 2 \notin hits /\ 3 \notin hits /\ 4 \notin hits BY <1>13, <1>19 DEF FwPrivate
  <2>1. 5 \in hits /\ \A j \in hits : 5 <= j BY <1>14, <2>0
  <2>3. FwDecides(q, hits) = q[5] BY <1>13a, <2>1, FwFirst, Zenon
  <2>2. r = r5 BY <1>9, <1>12, <2>3
  <2> QED BY <1>10, <1>11, <1>19, <2>2
<1> QED BY <1>15, <1>16, <1>17, <1>18, <1>19 DEF FwRouted

\* The isolated input chain drops what is for the host.
LEMMA FwInputIsolated ==
  ASSUME fwIp = FwIpRules(TRUE)
  PROVE  FwIpVerdict("input", "host", FALSE).verdict = "drop"
<1>1. PICK q : q = fwIp["input"] OBVIOUS
<1>2. PICK r1 : r1 = FwRule({}, "accept", TRUE) OBVIOUS
<1>3. PICK r2 : r2 = FwRule({"resolver"}, "accept", FALSE) OBVIOUS
<1>4. PICK r3 : r3 = FwRule(FwPackets, "drop", FALSE) OBVIOUS
<1>5. q = FwInputRules(TRUE) BY <1>1 DEF FwIpRules, FwChains
<1>6. q = <<r1, r2, r3>> BY <1>2, <1>3, <1>4, <1>5, Zenon DEF FwInputRules
<1>7. DOMAIN q = 1..3 /\ q[1] = r1 /\ q[2] = r2 /\ q[3] = r3 BY <1>6
<1>8. r1.match = {} /\ r2.match = {"resolver"} /\ r3.match = FwPackets /\ r3.verdict = "drop"
  BY <1>2, <1>3, <1>4 DEF FwRule
<1> DEFINE hits == {i \in DOMAIN q : "host" \in q[i].match \/ (q[i].match = {} /\ FALSE)}
<1>9. FwIpVerdict("input", "host", FALSE) = FwDecides(q, hits) BY <1>1, Zenon DEF FwIpVerdict
<1>10. hits \subseteq 1..3 /\ 3 \in hits /\ 1 \notin hits /\ 2 \notin hits
  BY <1>7, <1>8 DEF FwPackets
<1>11. \A j \in hits : j = 1 \/ j = 2 \/ j = 3 BY <1>10
<1> HIDE DEF hits
<1>12. \A j \in hits : 3 <= j BY <1>10, <1>11
<1>13. hits \subseteq Int BY <1>10
<1>14. FwDecides(q, hits) = q[3] BY <1>10, <1>12, <1>13, FwFirst, Zenon
<1> QED BY <1>7, <1>8, <1>9, <1>14

\* Without isolation the ip chains accept everything.
LEMMA FwOpenAccepts ==
  ASSUME fwIp = FwIpRules(FALSE), NEW marked \in BOOLEAN
  PROVE  /\ \A p \in FwPackets : FwIpVerdict("forward", p, marked).verdict = "accept"
         /\ \A p \in FwPackets : FwIpVerdict("input", p, marked).verdict = "accept"
<1>1. ASSUME NEW p \in FwPackets PROVE FwIpVerdict("forward", p, marked).verdict = "accept"
  <2>1. PICK q : q = fwIp["forward"] OBVIOUS
  <2>2. PICK r1 : r1 = FwRule(FwPackets, "accept", FALSE) OBVIOUS
  <2>3. q = FwForwardRules(FALSE) BY <2>1 DEF FwIpRules, FwChains
  <2>4. q = <<r1>> BY <2>2, <2>3, Zenon DEF FwForwardRules
  <2>5. DOMAIN q = 1..1 /\ q[1] = r1 BY <2>4
  <2>6. r1.match = FwPackets /\ r1.verdict = "accept" BY <2>2 DEF FwRule
  <2> DEFINE hits == {i \in DOMAIN q : p \in q[i].match \/ (q[i].match = {} /\ marked)}
  <2>7. FwIpVerdict("forward", p, marked) = FwDecides(q, hits) BY <2>1, Zenon DEF FwIpVerdict
  <2>8. hits \subseteq 1..1 /\ 1 \in hits BY <2>5, <2>6
  <2> HIDE DEF hits
  <2>9. \A j \in hits : 1 <= j BY <2>8
  <2>10. hits \subseteq Int BY <2>8
  <2>11. FwDecides(q, hits) = q[1] BY <2>8, <2>9, <2>10, FwFirst, Zenon
  <2> QED BY <2>5, <2>6, <2>7, <2>11
<1>2. ASSUME NEW p \in FwPackets PROVE FwIpVerdict("input", p, marked).verdict = "accept"
  <2>1. PICK q : q = fwIp["input"] OBVIOUS
  <2>2. q = <<>> BY <2>1 DEF FwIpRules, FwChains, FwInputRules
  <2> DEFINE hits == {i \in DOMAIN q : p \in q[i].match \/ (q[i].match = {} /\ marked)}
  <2>3. FwIpVerdict("input", p, marked) = FwDecides(q, hits) BY <2>1, Zenon DEF FwIpVerdict
  <2>4. hits = {} BY <2>2
  <2> HIDE DEF hits
  <2> QED BY <2>3, <2>4 DEF FwDecides, FwRule
<1> QED BY <1>1, <1>2

\* A TAP without rules: the bridge accepts and marks nothing.
LEMMA FwBareAccepts ==
  ASSUME NEW t \in FwTaps, FwBare(t), NEW p \in FwPackets, NEW r, r = FwBridgeVerdict(t, p)
  PROVE  r.verdict = "accept" /\ r.mark = FALSE
<1>1. PICK q : q = fwEgress[FwHook(p)][t] OBVIOUS
<1>2. q = <<>> BY <1>1 DEF FwBare, FwHook, FwChains
<1> DEFINE hits == {i \in DOMAIN q : p \in q[i].match}
<1>3. r = FwDecides(q, hits) BY <1>1, Zenon DEF FwBridgeVerdict
<1>4. hits = {} BY <1>2
<1> HIDE DEF hits
<1> QED BY <1>3, <1>4 DEF FwDecides, FwRule

\* The invariant is what FwContained promises.
LEMMA FwInvIs == FwInv => FwContained
<1> SUFFICES ASSUME FwInv, ~fwBared, NEW t \in FwTaps, FwLive(t), fwTap[t] = "attached"
             PROVE  {p \in FwPackets : FwPasses(t, p)} = FwPermitted(t)
  BY DEF FwContained
<1>1. /\ fwIp = FwIpRules(fwIsolated) /\ fwBridge /\ fwIsolated \in BOOLEAN
      /\ fwFiltered[t] \in BOOLEAN
      /\ fwFiltered[t] => FwHasPolicy(t)
      /\ ~fwFiltered[t] => FwBare(t)
  BY DEF FwInv, FwTapOK, FwTypes
<1>2. FwPermitted(t) \subseteq FwPackets BY DEF FwPermitted, FwPackets
<1> SUFFICES ASSUME NEW p \in FwPackets PROVE FwPasses(t, p) <=> p \in FwPermitted(t)
  BY <1>2
<1>3. PICK r : r = FwBridgeVerdict(t, p) OBVIOUS
<1>4. PICK m : m = r.mark OBVIOUS
<1>5. FwPasses(t, p) <=> /\ r.verdict = "accept"
                         /\ p \in FwRouted => FwIpVerdict("forward", p, m).verdict = "accept"
                         /\ p = "host" => FwIpVerdict("input", p, m).verdict = "accept"
  BY <1>1, <1>3, <1>4 DEF FwPasses
<1>6. FwRouted \subseteq FwPackets BY DEF FwRouted, FwPackets
<1>7. CASE fwFiltered[t]
  <2>1. fwEgress[FwHook(p)][t] = FwPolicy
    BY <1>1, <1>7 DEF FwHasPolicy, FwInv, FwTypes, FwHook, FwChains
  <2>2. r = FwDecides(FwPolicy, {i \in DOMAIN FwPolicy : p \in FwPolicy[i].match})
    BY <1>3, <2>1, Zenon DEF FwBridgeVerdict
  <2>3. /\ r.verdict = "accept" <=> p \in {"arp", "resolver", "listed"}
        /\ m = IF p = "listed" THEN TRUE ELSE FALSE
    BY <1>4, <2>2, FwPolicyDecides
  <2>4. m \in BOOLEAN BY <2>3
  <2>5. FwPermitted(t) = {"arp", "resolver", "listed"} BY <1>7 DEF FwPermitted
  <2>6. CASE fwIsolated
    <3>1. fwIp = FwIpRules(TRUE) BY <1>1, <2>6
    <3>2. p \in FwRouted => (FwIpVerdict("forward", p, m).verdict = "accept"
                              <=> m \/ p \in {"reply", "resolver", "internet"})
      BY <2>4, <3>1, FwForwardIsolated
    <3>3. p = "listed" => m BY <2>3, Zenon
    <3>4. p \in FwRouted /\ p \in {"arp", "resolver", "listed"} =>
            FwIpVerdict("forward", p, m).verdict = "accept"
      BY <3>2, <3>3 DEF FwRouted
    <3> QED BY <1>5, <2>3, <2>5, <3>4
  <2>7. CASE ~fwIsolated
    <3>1. fwIp = FwIpRules(FALSE) BY <1>1, <2>7
    <3>2. p \in FwRouted => FwIpVerdict("forward", p, m).verdict = "accept"
      BY <1>6, <2>4, <3>1, FwOpenAccepts
    <3> QED BY <1>5, <2>3, <2>5, <3>2
  <2> QED BY <1>1, <2>6, <2>7
<1>8. CASE ~fwFiltered[t]
  <2>1. r.verdict = "accept" /\ m = FALSE BY <1>1, <1>3, <1>4, <1>8, FwBareAccepts
  <2>2. CASE fwIsolated
    <3>1. fwIp = FwIpRules(TRUE) BY <1>1, <2>2
    <3>2. p \in FwRouted => (FwIpVerdict("forward", p, m).verdict = "accept"
                              <=> m \/ p \in {"reply", "resolver", "internet"})
      BY <2>1, <3>1, FwForwardIsolated
    <3>3. p = "host" => FwIpVerdict("input", p, m).verdict = "drop"
      BY <2>1, <3>1, FwInputIsolated
    <3>4. FwPermitted(t) = FwPackets \ {"listed", "lan", "host"} BY <1>8, <2>2 DEF FwPermitted
    <3> QED BY <1>5, <2>1, <3>2, <3>3, <3>4 DEF FwPackets, FwRouted
  <2>3. CASE ~fwIsolated
    <3>1. fwIp = FwIpRules(FALSE) BY <1>1, <2>3
    <3>2. /\ p \in FwRouted => FwIpVerdict("forward", p, m).verdict = "accept"
          /\ p = "host" => FwIpVerdict("input", p, m).verdict = "accept"
      BY <1>6, <2>1, <3>1, FwOpenAccepts
    <3>3. FwPermitted(t) = FwPackets BY <1>8, <2>3 DEF FwPermitted
    <3> QED BY <1>5, <2>1, <3>2, <3>3
  <2> QED BY <1>1, <2>2, <2>3
<1> QED BY <1>1, <1>7, <1>8

(***************************************************************************)
(* ImageCatalog: file and row of a name, seen with the operation that holds *)
(* its lock, and the disk of a VM, seen with the row it was resolved from. *)
(***************************************************************************)

ImgParents == ImgNames \cup {"none"}
ImgRows == [absent : {FALSE}, digest : ImgData, parent : ImgParents, at : Nat]
ImgTasks == [op : {"import", "commit", "delete"}, step : {"writing", "inserting", "unlinked"},
             bytes : ImgData, parent : ImgParents, created : BOOLEAN]
ImgDisks == [absent : {FALSE}, state : {"resolved", "cloned", "booting", "running", "stopped"},
             path : ImgNames, resolved : Nat, bytes : ImgData, cloned : ImgData \cup {ImgNone},
             outcome : {"none", "refreshed", "skipped"}, cloud : BOOLEAN, at : Nat]

ImgTypeOK ==
  /\ imgClock \in Nat
  /\ imgRow \in [ImgNames -> ImgRows \cup {ImgNone}]
  /\ imgFile \in [ImgNames -> ImgData \cup {ImgNone}]
  /\ imgTask \in [ImgNames -> ImgTasks \cup {ImgNone}]
  /\ imgDisk \in [ImgVms -> ImgDisks \cup {ImgNone}]

\* A row was stamped, and the file it names, if there is one, is its own.
ImgRowOK(r, f, clock) ==
  ImgHas(r) => /\ r.at < clock
               /\ ImgHas(f) => f = r.digest
               /\ r.parent = "none" => r.digest.whole
               /\ r.parent # "none" => ~r.digest.pending

\* What the holder of a name's lock relies on.
ImgTaskOK(t, r, f) ==
  ImgHas(t) =>
    /\ t.step = "writing" => ~ImgHas(r) /\ t.bytes.whole /\ t.parent = "none"
    /\ t.step = "inserting" => /\ ~ImgHas(r) /\ f = t.bytes
                               /\ t.parent = "none" => t.bytes.whole
                               /\ t.parent # "none" => ~t.bytes.pending
    /\ t.step = "unlinked" => ~ImgHas(f)

\* The disk of a VM against the row at its path.
ImgDiskOK(d, r, clock) ==
  ImgHas(d) =>
    /\ d.resolved < clock
    /\ d.cloned # ImgNone /\ ImgHas(r) /\ r.at = d.resolved => d.cloned = r.digest
    /\ d.outcome = "refreshed" /\ d.state = "booting" =>
         d.bytes.agent = "current" /\ ~d.bytes.pending
    /\ d.outcome = "refreshed" /\ d.state = "running" => d.bytes.agent = "current"

ImgInv ==
  /\ ImgTypeOK
  /\ \A n \in ImgNames : /\ ImgRowOK(imgRow[n], imgFile[n], imgClock)
                         /\ ImgTaskOK(imgTask[n], imgRow[n], imgFile[n])
  /\ \A v \in ImgVms : ImgHas(imgDisk[v]) =>
       ImgDiskOK(imgDisk[v], imgRow[imgDisk[v].path], imgClock)

\* Nothing is catalogued at first.
LEMMA ImgInitInv == ImgInit => ImgInv
BY DEF ImgInit, ImgInv, ImgTypeOK, ImgHas, ImgRowOK, ImgTaskOK

\* The invariant says that the catalog is true.
LEMMA ImgInvTrue == ImgInv => ImgCatalogTrue
<1> SUFFICES ASSUME ImgInv PROVE ImgCatalogTrue  OBVIOUS
<1>1. ASSUME NEW n \in ImgNames, ImgHas(imgRow[n])
      PROVE  /\ ImgHas(imgFile[n]) => imgFile[n] = imgRow[n].digest
             /\ imgRow[n].parent = "none" => imgRow[n].digest.whole
             /\ imgRow[n].parent # "none" => ~imgRow[n].digest.pending
  BY <1>1 DEF ImgInv, ImgRowOK
<1>2. ASSUME NEW v \in ImgVms, ImgHas(imgDisk[v])
      PROVE  /\ imgDisk[v].cloned # ImgNone /\ ImgUnreplaced(imgDisk[v]) =>
                  imgDisk[v].cloned = imgRow[imgDisk[v].path].digest
             /\ imgDisk[v].state = "running" /\ imgDisk[v].outcome = "refreshed" =>
                  imgDisk[v].bytes.agent = "current"
  BY <1>2 DEF ImgInv, ImgDiskOK, ImgUnreplaced
<1> QED BY <1>1, <1>2 DEF ImgCatalogTrue

\* A step of the operation on one name that leaves the row as it was, or
\* removes it, or stamps a new one.
LEMMA ImgNameStep ==
  ASSUME ImgInv, NEW n \in ImgNames,
         NEW r \in ImgRows \cup {ImgNone}, NEW f \in ImgData \cup {ImgNone},
         NEW t \in ImgTasks \cup {ImgNone}, NEW clock \in Nat, clock >= imgClock,
         imgRow' = [imgRow EXCEPT ![n] = r], imgFile' = [imgFile EXCEPT ![n] = f],
         imgTask' = [imgTask EXCEPT ![n] = t], imgClock' = clock, UNCHANGED imgDisk,
         ImgRowOK(r, f, clock), ImgTaskOK(t, r, f),
         r = imgRow[n] \/ ~ImgHas(r) \/ r.at = imgClock
  PROVE  ImgInv'
<1>1. ImgTypeOK'  BY DEF ImgInv, ImgTypeOK
<1>2. ASSUME NEW m \in ImgNames
      PROVE  /\ ImgRowOK(imgRow'[m], imgFile'[m], imgClock')
             /\ ImgTaskOK(imgTask'[m], imgRow'[m], imgFile'[m])
  <2>1. CASE m = n  BY <2>1 DEF ImgInv, ImgTypeOK
  <2>2. CASE m # n
    <3>1. imgRow'[m] = imgRow[m] /\ imgFile'[m] = imgFile[m] /\ imgTask'[m] = imgTask[m]
      BY <2>2 DEF ImgInv, ImgTypeOK
    <3>2. ImgRowOK(imgRow[m], imgFile[m], clock)
      <4>1. ImgRowOK(imgRow[m], imgFile[m], imgClock)  BY DEF ImgInv
      <4>2. ImgHas(imgRow[m]) => imgRow[m].at \in Nat
        BY DEF ImgInv, ImgTypeOK, ImgHas, ImgRows
      <4>3. imgClock \in Nat  BY DEF ImgInv, ImgTypeOK
      <4> QED BY <4>1, <4>2, <4>3 DEF ImgRowOK
    <3> QED BY <3>1, <3>2 DEF ImgInv
  <2> QED BY <2>1, <2>2
<1>3. ASSUME NEW v \in ImgVms, ImgHas(imgDisk[v])
      PROVE  ImgDiskOK(imgDisk[v], imgRow'[imgDisk[v].path], imgClock')
  <2>1. PICK d : d = imgDisk[v]  OBVIOUS
  <2>2. d \in ImgDisks  BY <1>3, <2>1 DEF ImgInv, ImgTypeOK, ImgHas
  <2>3. d.path \in ImgNames /\ d.resolved \in Nat  BY <2>2 DEF ImgDisks
  <2>4. ImgDiskOK(d, imgRow[d.path], imgClock)  BY <1>3, <2>1 DEF ImgInv
  <2>5. imgClock \in Nat  BY DEF ImgInv, ImgTypeOK
  <2>6. d.resolved < imgClock  BY <1>3, <2>1, <2>4 DEF ImgDiskOK
  <2>7. CASE imgRow'[d.path] = imgRow[d.path]
    <3>1. ImgDiskOK(d, imgRow[d.path], clock)  BY <2>3, <2>4, <2>5, <2>6 DEF ImgDiskOK
    <3> QED BY <2>1, <2>7, <3>1
  <2>8. CASE imgRow'[d.path] # imgRow[d.path]
    <3>1. d.path = n /\ imgRow'[d.path] = r  BY <2>3, <2>8 DEF ImgInv, ImgTypeOK
    <3>2. ~ImgHas(r) \/ r.at # d.resolved  BY <2>3, <2>5, <2>6, <2>8, <3>1
    <3>3. ImgDiskOK(d, r, clock)  BY <2>3, <2>4, <2>5, <2>6, <3>2 DEF ImgDiskOK
    <3> QED BY <2>1, <3>1, <3>3
  <2> QED BY <2>7, <2>8
<1> QED BY <1>1, <1>2, <1>3 DEF ImgInv

\* A step of one VM.
LEMMA ImgVmStep ==
  ASSUME ImgInv, NEW v \in ImgVms, NEW d \in ImgDisks \cup {ImgNone},
         imgDisk' = [imgDisk EXCEPT ![v] = d], UNCHANGED <<imgRow, imgFile, imgTask>>,
         imgClock' \in {imgClock, imgClock + 1},
         ImgHas(d) => ImgDiskOK(d, imgRow[d.path], imgClock)
  PROVE  ImgInv'
<1>1. ImgTypeOK'  BY DEF ImgInv, ImgTypeOK
<1>2. imgClock \in Nat /\ imgClock' \in Nat /\ imgClock' >= imgClock
  BY DEF ImgInv, ImgTypeOK
<1>3. ASSUME NEW m \in ImgNames
      PROVE  /\ ImgRowOK(imgRow'[m], imgFile'[m], imgClock')
             /\ ImgTaskOK(imgTask'[m], imgRow'[m], imgFile'[m])
  <2>1. ImgRowOK(imgRow[m], imgFile[m], imgClock)  BY DEF ImgInv
  <2>2. ImgHas(imgRow[m]) => imgRow[m].at \in Nat
    BY DEF ImgInv, ImgTypeOK, ImgHas, ImgRows
  <2>3. ImgRowOK(imgRow[m], imgFile[m], imgClock')  BY <1>2, <2>1, <2>2 DEF ImgRowOK
  <2> QED BY <2>3 DEF ImgInv
<1>4. ASSUME NEW u \in ImgVms, ImgHas(imgDisk'[u])
      PROVE  ImgDiskOK(imgDisk'[u], imgRow'[imgDisk'[u].path], imgClock')
  <2>1. PICK e : e = imgDisk'[u]  OBVIOUS
  <2>2. e \in ImgDisks  BY <1>1, <1>4, <2>1 DEF ImgTypeOK, ImgHas
  <2>3. e.resolved \in Nat  BY <2>2 DEF ImgDisks
  <2>4. ImgDiskOK(e, imgRow[e.path], imgClock)
    <3>1. CASE u = v  BY <1>4, <2>1, <3>1 DEF ImgInv, ImgTypeOK
    <3>2. CASE u # v  BY <1>4, <2>1, <3>2 DEF ImgInv, ImgTypeOK
    <3> QED BY <3>1, <3>2
  <2>5. ImgDiskOK(e, imgRow[e.path], imgClock')  BY <1>2, <2>3, <2>4 DEF ImgDiskOK
  <2> QED BY <2>1, <2>5
<1> QED BY <1>1, <1>3, <1>4 DEF ImgInv

\* What the updates of bytes keep.
LEMMA ImgDataFacts ==
  ASSUME NEW b \in ImgData
  PROVE  /\ ImgPartial(b) \in ImgData
         /\ ImgReplayed(b) \in ImgData /\ (ImgReplayed(b).whole <=> b.whole)
         /\ ~ImgReplayed(b).pending /\ ImgReplayed(b).agent = b.agent
         /\ ImgMounted(b) \in ImgData /\ (ImgMounted(b).whole <=> b.whole)
         /\ ~b.pending => ImgMounted(b) = b
         /\ ImgRefreshed(b) \in ImgData /\ (ImgRefreshed(b).whole <=> b.whole)
         /\ ImgRefreshed(b).agent # "none" =>
              ImgRefreshed(b).agent = "current" /\ ~ImgRefreshed(b).pending
<1>1. ImgPartial(b) \in ImgData  BY DEF ImgPartial, ImgData
<1>2. /\ ImgReplayed(b) \in ImgData /\ (ImgReplayed(b).whole <=> b.whole)
      /\ ~ImgReplayed(b).pending /\ ImgReplayed(b).agent = b.agent
  BY DEF ImgReplayed, ImgData
<1>3. /\ ImgMounted(b) \in ImgData /\ (ImgMounted(b).whole <=> b.whole)
      /\ ~b.pending => ImgMounted(b) = b
  <2>1. PICK c : c = [b EXCEPT !.pending = FALSE, !.agent = "imported"]  OBVIOUS
  <2>2. c \in ImgData /\ (c.whole <=> b.whole)  BY <2>1 DEF ImgData
  <2>3. CASE b.pending
    <3>1. ImgMounted(b) = c  BY <2>1, <2>3 DEF ImgMounted
    <3> QED BY <2>2, <2>3, <3>1
  <2>4. CASE ~b.pending
    <3>1. ImgMounted(b) = b  BY <2>4 DEF ImgMounted
    <3> QED BY <3>1
  <2> QED BY <2>3, <2>4
<1>4. /\ ImgRefreshed(b) \in ImgData /\ (ImgRefreshed(b).whole <=> b.whole)
      /\ ImgRefreshed(b).agent # "none" =>
           ImgRefreshed(b).agent = "current" /\ ~ImgRefreshed(b).pending
  <2>1. PICK a : a = ImgReplayed(b)  OBVIOUS
  <2>2. PICK c : c = [a EXCEPT !.agent = "current"]  OBVIOUS
  <2>3. c \in ImgData /\ (c.whole <=> b.whole) /\ c.agent = "current" /\ ~c.pending
    BY <1>2, <2>1, <2>2 DEF ImgData
  <2>4. CASE b.agent = "none"
    <3>1. ImgRefreshed(b) = b  BY <2>4 DEF ImgRefreshed
    <3> QED BY <2>4, <3>1
  <2>5. CASE b.agent # "none"
    <3>1. ImgRefreshed(b) = c  BY <2>1, <2>2, <2>5 DEF ImgRefreshed
    <3> QED BY <2>3, <3>1
  <2> QED BY <2>4, <2>5
<1> QED BY <1>1, <1>2, <1>3, <1>4

\* What is known of a name.
LEMMA ImgNameFacts ==
  ASSUME ImgInv, NEW n \in ImgNames
  PROVE  /\ imgRow[n] \in ImgRows \cup {ImgNone} /\ imgFile[n] \in ImgData \cup {ImgNone}
         /\ imgTask[n] \in ImgTasks \cup {ImgNone} /\ imgClock \in Nat
         /\ ImgRowOK(imgRow[n], imgFile[n], imgClock)
         /\ ImgTaskOK(imgTask[n], imgRow[n], imgFile[n])
         /\ imgRow = [imgRow EXCEPT ![n] = imgRow[n]]
         /\ imgFile = [imgFile EXCEPT ![n] = imgFile[n]]
         /\ imgTask = [imgTask EXCEPT ![n] = imgTask[n]]
BY DEF ImgInv, ImgTypeOK

\* A task begins or ends on a name whose row stays; only the file changes.
LEMMA ImgFileStep ==
  ASSUME ImgInv, NEW n \in ImgNames, NEW f \in ImgData \cup {ImgNone},
         NEW t \in ImgTasks \cup {ImgNone},
         imgFile' = [imgFile EXCEPT ![n] = f], imgTask' = [imgTask EXCEPT ![n] = t],
         UNCHANGED <<imgRow, imgDisk, imgClock>>,
         ImgRowOK(imgRow[n], f, imgClock), ImgTaskOK(t, imgRow[n], f)
  PROVE  ImgInv'
<1>1. PICK r : r = imgRow[n]  OBVIOUS
<1>2. PICK c : c = imgClock  OBVIOUS
<1>3. /\ r \in ImgRows \cup {ImgNone} /\ c \in Nat /\ c >= imgClock /\ imgClock' = c
      /\ imgRow' = [imgRow EXCEPT ![n] = r] /\ ImgRowOK(r, f, c) /\ ImgTaskOK(t, r, f)
  BY <1>1, <1>2, ImgNameFacts
<1> QED BY <1>1, <1>3, ImgNameStep

\* Import: a name without row and file.
LEMMA ImgImportSteps ==
  ASSUME ImgInv, NEW n \in ImgNames,
         (\E src \in ImgSources : ImgImport(n, src)) \/ ImgWritten(n) \/ ImgWriteFails(n)
  PROVE  ImgInv'
<1>1. ASSUME NEW src \in ImgSources, ImgImport(n, src) PROVE ImgInv'
  <2>1. src \in ImgData /\ src.whole  BY ImgAssumption
  <2>2. PICK f : f = ImgPartial(src)  OBVIOUS
  <2>3. PICK t : t = [op |-> "import", step |-> "writing", bytes |-> src,
                      parent |-> "none", created |-> TRUE]
    OBVIOUS
  <2>4. f \in ImgData  BY <2>1, <2>2, ImgDataFacts
  <2>5. t \in ImgTasks /\ t.step = "writing" /\ t.bytes = src /\ t.parent = "none"
    BY <2>1, <2>3 DEF ImgTasks, ImgParents
  <2>6. /\ ~ImgHas(imgRow[n]) /\ imgFile' = [imgFile EXCEPT ![n] = f]
        /\ imgTask' = [imgTask EXCEPT ![n] = t] /\ UNCHANGED <<imgRow, imgDisk, imgClock>>
    BY <1>1, <2>2, <2>3 DEF ImgImport, ImgPut, ImgTasked
  <2>7. ImgRowOK(imgRow[n], f, imgClock) /\ ImgTaskOK(t, imgRow[n], f)
    BY <2>1, <2>5, <2>6 DEF ImgRowOK, ImgTaskOK
  <2> QED BY <2>4, <2>5, <2>6, <2>7, ImgFileStep
<1>2. CASE ImgWritten(n)
  <2>1. PICK t : t = imgTask[n]  OBVIOUS
  <2>2. PICK u : u = [t EXCEPT !.step = "inserting"]  OBVIOUS
  <2>3. t \in ImgTasks /\ t.step = "writing" /\ ImgHas(t) /\ ImgTaskOK(t, imgRow[n], imgFile[n])
    BY <1>2, <2>1, ImgNameFacts DEF ImgWritten, ImgHas
  <2>4. t.bytes \in ImgData /\ ~ImgHas(imgRow[n]) /\ t.bytes.whole /\ t.parent = "none"
    BY <2>3 DEF ImgTaskOK, ImgTasks
  <2>5. u \in ImgTasks /\ u.step = "inserting" /\ u.bytes = t.bytes /\ u.parent = t.parent
    BY <2>2, <2>3 DEF ImgTasks
  <2>6. /\ imgFile' = [imgFile EXCEPT ![n] = t.bytes] /\ imgTask' = [imgTask EXCEPT ![n] = u]
        /\ UNCHANGED <<imgRow, imgDisk, imgClock>>
    BY <1>2, <2>1, <2>2 DEF ImgWritten, ImgPut, ImgTasked
  <2>7. ImgRowOK(imgRow[n], t.bytes, imgClock) /\ ImgTaskOK(u, imgRow[n], t.bytes)
    BY <2>4, <2>5 DEF ImgRowOK, ImgTaskOK
  <2> QED BY <2>4, <2>5, <2>6, <2>7, ImgFileStep
<1>3. CASE ImgWriteFails(n)
  <2>1. /\ imgFile' = [imgFile EXCEPT ![n] = ImgNone]
        /\ imgTask' = [imgTask EXCEPT ![n] = ImgNone]
        /\ UNCHANGED <<imgRow, imgDisk, imgClock>>
    BY <1>3 DEF ImgWriteFails, ImgPut, ImgDone, ImgTasked
  <2>2. ImgRowOK(imgRow[n], ImgNone, imgClock) /\ ImgTaskOK(ImgNone, imgRow[n], ImgNone)
    BY ImgNameFacts DEF ImgRowOK, ImgTaskOK, ImgHas
  <2> QED BY <2>1, <2>2, ImgFileStep
<1> QED BY <1>1, <1>2, <1>3

\* The row is inserted, or the insert fails.
LEMMA ImgInsertSteps ==
  ASSUME ImgInv, NEW n \in ImgNames, ImgInsert(n) \/ ImgInsertFails(n)
  PROVE  ImgInv'
<1>1. PICK t : t = imgTask[n]  OBVIOUS
<1>2. t \in ImgTasks /\ t.step = "inserting" /\ ImgHas(t) /\ ImgTaskOK(t, imgRow[n], imgFile[n])
  BY <1>1, ImgNameFacts DEF ImgInsert, ImgInsertFails, ImgHas
<1>3. /\ t.bytes \in ImgData /\ ~ImgHas(imgRow[n]) /\ imgFile[n] = t.bytes
      /\ t.parent \in ImgParents /\ (t.parent = "none" => t.bytes.whole)
      /\ (t.parent # "none" => ~t.bytes.pending)
  BY <1>2 DEF ImgTaskOK, ImgTasks
<1>4. CASE ImgInsert(n)
  <2>1. PICK r : r = [absent |-> FALSE, digest |-> t.bytes, parent |-> t.parent,
                      at |-> imgClock]
    OBVIOUS
  <2>2. PICK c : c = imgClock + 1  OBVIOUS
  <2>3. imgClock \in Nat /\ c \in Nat /\ c >= imgClock /\ imgClock < c  BY <2>2, ImgNameFacts
  <2>4. r \in ImgRows /\ r.digest = t.bytes /\ r.parent = t.parent /\ r.at = imgClock
    BY <1>3, <2>1, <2>3 DEF ImgRows
  <2>5. /\ imgRow' = [imgRow EXCEPT ![n] = r] /\ imgFile' = [imgFile EXCEPT ![n] = imgFile[n]]
        /\ imgTask' = [imgTask EXCEPT ![n] = ImgNone] /\ imgClock' = c /\ UNCHANGED imgDisk
    BY <1>1, <1>4, <2>1, <2>2, ImgNameFacts DEF ImgInsert, ImgDone, ImgTasked
  <2>6. ImgRowOK(r, imgFile[n], c)  BY <1>3, <2>3, <2>4 DEF ImgRowOK
  <2>7. ImgTaskOK(ImgNone, r, imgFile[n])  BY DEF ImgTaskOK, ImgHas
  <2> QED BY <1>3, <2>3, <2>4, <2>5, <2>6, <2>7, ImgNameStep
<1>5. CASE ImgInsertFails(n)
  <2>1. PICK f : f = IF t.created THEN ImgNone ELSE imgFile[n]  OBVIOUS
  <2>2. f \in ImgData \cup {ImgNone}  BY <1>3, <2>1
  <2>3. /\ imgFile' = [imgFile EXCEPT ![n] = f] /\ imgTask' = [imgTask EXCEPT ![n] = ImgNone]
        /\ UNCHANGED <<imgRow, imgDisk, imgClock>>
    BY <1>1, <1>5, <2>1 DEF ImgInsertFails, ImgPut, ImgDone, ImgTasked
  <2>4. ImgRowOK(imgRow[n], f, imgClock) /\ ImgTaskOK(ImgNone, imgRow[n], f)
    BY <1>3 DEF ImgRowOK, ImgTaskOK, ImgHas
  <2> QED BY <2>2, <2>3, <2>4, ImgFileStep
<1> QED BY <1>4, <1>5

\* The file is unlinked under the lock, then the row goes, or stays.
LEMMA ImgDeleteSteps ==
  ASSUME ImgInv, NEW n \in ImgNames, ImgDelete(n) \/ \E b \in BOOLEAN : ImgDeleted(n, b)
  PROVE  ImgInv'
<1>1. CASE ImgDelete(n)
  <2>1. imgRow[n] \in ImgRows  BY <1>1, ImgNameFacts DEF ImgDelete, ImgHas
  <2>2. PICK t : t = [op |-> "delete", step |-> "unlinked", bytes |-> imgRow[n].digest,
                      parent |-> "none", created |-> FALSE]
    OBVIOUS
  <2>3. t \in ImgTasks /\ t.step = "unlinked"  BY <2>1, <2>2 DEF ImgTasks, ImgRows, ImgParents
  <2>4. /\ imgFile' = [imgFile EXCEPT ![n] = ImgNone] /\ imgTask' = [imgTask EXCEPT ![n] = t]
        /\ UNCHANGED <<imgRow, imgDisk, imgClock>>
    BY <1>1, <2>2 DEF ImgDelete, ImgPut, ImgTasked
  <2>5. ImgRowOK(imgRow[n], ImgNone, imgClock) /\ ImgTaskOK(t, imgRow[n], ImgNone)
    BY <2>3, ImgNameFacts DEF ImgRowOK, ImgTaskOK, ImgHas
  <2> QED BY <2>3, <2>4, <2>5, ImgFileStep
<1>2. ASSUME NEW b \in BOOLEAN, ImgDeleted(n, b) PROVE ImgInv'
  <2>1. PICK r : r = IF b THEN ImgNone ELSE imgRow[n]  OBVIOUS
  <2>2. PICK c : c = imgClock  OBVIOUS
  <2>3. /\ imgRow' = [imgRow EXCEPT ![n] = r] /\ imgFile' = [imgFile EXCEPT ![n] = imgFile[n]]
        /\ imgTask' = [imgTask EXCEPT ![n] = ImgNone] /\ UNCHANGED imgDisk
        /\ imgClock' = c /\ c \in Nat /\ c >= imgClock
    <3>1. imgRow' = [imgRow EXCEPT ![n] = r]
      <4>1. CASE b
        <5>1. r = ImgNone /\ imgRow' = [imgRow EXCEPT ![n] = ImgNone]
          BY <1>2, <2>1, <4>1 DEF ImgDeleted
        <5> QED BY <5>1
      <4>2. CASE ~b
        <5>1. r = imgRow[n] /\ imgRow' = imgRow  BY <1>2, <2>1, <4>2 DEF ImgDeleted
        <5> QED BY <5>1, ImgNameFacts
      <4> QED BY <4>1, <4>2
    <3>2. /\ UNCHANGED <<imgFile, imgDisk, imgClock>>
          /\ imgTask' = [imgTask EXCEPT ![n] = ImgNone]
      BY <1>2 DEF ImgDeleted, ImgDone, ImgTasked
    <3> QED BY <2>2, <3>1, <3>2, ImgNameFacts
  <2>4. r \in ImgRows \cup {ImgNone} /\ (r = imgRow[n] \/ ~ImgHas(r))
    BY <2>1, ImgNameFacts DEF ImgHas
  <2>5. ImgRowOK(r, imgFile[n], c) /\ ImgTaskOK(ImgNone, r, imgFile[n])
    BY <2>2, <2>4, ImgNameFacts DEF ImgRowOK, ImgTaskOK, ImgHas
  <2>6. imgFile[n] \in ImgData \cup {ImgNone}  BY ImgNameFacts
  <2> QED BY <2>3, <2>4, <2>5, <2>6, ImgNameStep
<1> QED BY <1>1, <1>2

\* What is known of a VM with a disk.
LEMMA ImgVmFacts ==
  ASSUME ImgInv, NEW v \in ImgVms, ImgHas(imgDisk[v])
  PROVE  /\ imgDisk[v] \in ImgDisks /\ imgDisk[v].path \in ImgNames
         /\ imgDisk[v].bytes \in ImgData /\ imgDisk[v].resolved \in Nat /\ imgClock \in Nat
         /\ ImgDiskOK(imgDisk[v], imgRow[imgDisk[v].path], imgClock)
<1>1. imgDisk[v] \in ImgDisks /\ imgClock \in Nat  BY DEF ImgInv, ImgTypeOK, ImgHas
<1>2. /\ imgDisk[v].path \in ImgNames /\ imgDisk[v].bytes \in ImgData
      /\ imgDisk[v].resolved \in Nat
  BY <1>1 DEF ImgDisks
<1> QED BY <1>1, <1>2 DEF ImgInv

\* A commit replays the disk's journal, then puts or adopts the file.
LEMMA ImgCommitStep ==
  ASSUME ImgInv, NEW v \in ImgVms, NEW n \in ImgNames, ImgCommit(v, n)
  PROVE  ImgInv'
<1>1. PICK d : d = imgDisk[v]  OBVIOUS
<1>2. PICK b : b = ImgReplayed(d.bytes)  OBVIOUS
<1>3. PICK e : e = [d EXCEPT !.bytes = b]  OBVIOUS
<1>4. /\ ImgHas(imgDisk[v]) /\ d.state = "stopped"
      /\ imgDisk' = [imgDisk EXCEPT ![v].bytes = b] /\ UNCHANGED <<imgRow, imgClock>>
      /\ \/ UNCHANGED <<imgTask, imgFile>>
         \/ /\ ~ImgHas(imgRow[n])
            /\ ImgPut(n, b)
            /\ ImgTasked(n, [op |-> "commit", step |-> "inserting", bytes |-> b,
                             parent |-> d.path, created |-> ~ImgHas(imgFile[n])])
  BY <1>1, <1>2 DEF ImgCommit
<1>5. /\ d \in ImgDisks /\ d.path \in ImgNames /\ d.bytes \in ImgData
      /\ ImgDiskOK(d, imgRow[d.path], imgClock)
  BY <1>1, <1>4, ImgVmFacts
<1>6. d.path # "none"  BY <1>5, ImgAssumption
<1>7. b \in ImgData /\ ~b.pending  BY <1>2, <1>5, ImgDataFacts
<1>8. /\ e \in ImgDisks /\ e.path = d.path /\ e.resolved = d.resolved /\ e.bytes = b
      /\ e.cloned = d.cloned /\ e.state = "stopped" /\ e.outcome = d.outcome
  BY <1>3, <1>4, <1>5, <1>7 DEF ImgDisks
<1>9. ImgDiskOK(e, imgRow[e.path], imgClock)
  <2>1. ImgHas(d)  BY <1>1, <1>4
  <2> QED BY <1>5, <1>7, <1>8, <2>1 DEF ImgDiskOK
<1>10. imgDisk' = [imgDisk EXCEPT ![v] = e]  BY <1>1, <1>3, <1>4
<1>11. ImgTypeOK'
  <2>1. imgDisk' \in [ImgVms -> ImgDisks \cup {ImgNone}]
    BY <1>8, <1>10 DEF ImgInv, ImgTypeOK
  <2>2. CASE UNCHANGED <<imgTask, imgFile>>
    BY <1>4, <2>1, <2>2 DEF ImgInv, ImgTypeOK
  <2>3. CASE ~UNCHANGED <<imgTask, imgFile>>
    <3>1. PICK t : t = [op |-> "commit", step |-> "inserting", bytes |-> b,
                        parent |-> d.path, created |-> ~ImgHas(imgFile[n])]
      OBVIOUS
    <3>2. t \in ImgTasks  BY <1>5, <1>7, <3>1 DEF ImgTasks, ImgParents
    <3>3. imgTask' = [imgTask EXCEPT ![n] = t] /\ imgFile' = [imgFile EXCEPT ![n] = b]
      BY <1>4, <2>3, <3>1 DEF ImgPut, ImgTasked
    <3> QED BY <1>4, <1>7, <2>1, <3>2, <3>3 DEF ImgInv, ImgTypeOK
  <2> QED BY <2>2, <2>3
<1>12. ASSUME NEW m \in ImgNames
       PROVE  /\ ImgRowOK(imgRow'[m], imgFile'[m], imgClock')
              /\ ImgTaskOK(imgTask'[m], imgRow'[m], imgFile'[m])
  <2>1. CASE imgTask'[m] = imgTask[m] /\ imgFile'[m] = imgFile[m]
    BY <1>4, <2>1 DEF ImgInv
  <2>2. CASE ~(imgTask'[m] = imgTask[m] /\ imgFile'[m] = imgFile[m])
    <3>1. PICK t : t = [op |-> "commit", step |-> "inserting", bytes |-> b,
                        parent |-> d.path, created |-> ~ImgHas(imgFile[n])]
      OBVIOUS
    <3>2. t.step = "inserting" /\ t.bytes = b /\ t.parent = d.path  BY <3>1
    <3>3. /\ ~ImgHas(imgRow[n]) /\ imgTask' = [imgTask EXCEPT ![n] = t]
          /\ imgFile' = [imgFile EXCEPT ![n] = b]
      BY <1>4, <2>2, <3>1 DEF ImgPut, ImgTasked
    <3>4. m = n /\ imgTask'[m] = t /\ imgFile'[m] = b /\ imgRow'[m] = imgRow[n]
      BY <1>4, <2>2, <3>3 DEF ImgInv, ImgTypeOK
    <3>5. ImgRowOK(imgRow[n], b, imgClock)  BY <3>3 DEF ImgRowOK
    <3>6. ImgTaskOK(t, imgRow[n], b)  BY <1>6, <1>7, <3>2, <3>3 DEF ImgTaskOK
    <3> QED BY <1>4, <3>4, <3>5, <3>6
  <2> QED BY <2>1, <2>2
<1>13. ASSUME NEW u \in ImgVms, ImgHas(imgDisk'[u])
       PROVE  ImgDiskOK(imgDisk'[u], imgRow'[imgDisk'[u].path], imgClock')
  <2>1. CASE u = v
    <3>1. imgDisk'[u] = e  BY <1>10, <2>1 DEF ImgInv, ImgTypeOK
    <3> QED BY <1>4, <1>9, <3>1
  <2>2. CASE u # v
    <3>1. imgDisk'[u] = imgDisk[u]  BY <1>10, <2>2 DEF ImgInv, ImgTypeOK
    <3> QED BY <1>4, <1>13, <3>1 DEF ImgInv
  <2> QED BY <2>1, <2>2
<1> QED BY <1>11, <1>12, <1>13 DEF ImgInv

\* A new VM's disk, up to its boot, and the end of its run.
LEMMA ImgVmSteps ==
  ASSUME ImgInv, NEW v \in ImgVms,
         \/ \E n \in ImgNames, b \in BOOLEAN : ImgResolve(v, n, b)
         \/ ImgClone(v) \/ ImgPrepareFails(v) \/ ImgRecorded(v)
         \/ \E b \in BOOLEAN, o \in {"refreshed", "skipped"} : ImgPrepare(v, b, o)
         \/ \E b \in BOOLEAN : ImgStop(v, b)
  PROVE  ImgInv'
<1> DEFINE d == imgDisk[v]
<1>1. ASSUME NEW n \in ImgNames, NEW b \in BOOLEAN, ImgResolve(v, n, b) PROVE ImgInv'
  <2>1. imgRow[n] \in ImgRows /\ ImgRowOK(imgRow[n], imgFile[n], imgClock) /\ ImgHas(imgRow[n])
    BY <1>1, ImgNameFacts DEF ImgResolve, ImgHas
  <2>2. imgRow[n].at \in Nat /\ imgRow[n].digest \in ImgData /\ imgRow[n].at < imgClock
    BY <2>1 DEF ImgRows, ImgRowOK
  <2>3. PICK e : e = [absent |-> FALSE, state |-> "resolved", path |-> n,
                      resolved |-> imgRow[n].at, bytes |-> imgRow[n].digest,
                      cloned |-> ImgNone, outcome |-> "none", cloud |-> b, at |-> 0]
    OBVIOUS
  <2>4. e \in ImgDisks  BY <2>2, <2>3 DEF ImgDisks
  <2>5. ImgDiskOK(e, imgRow[e.path], imgClock)  BY <2>2, <2>3 DEF ImgDiskOK
  <2>6. /\ imgDisk' = [imgDisk EXCEPT ![v] = e] /\ UNCHANGED <<imgRow, imgFile, imgTask>>
        /\ imgClock' = imgClock
    BY <1>1, <2>3 DEF ImgResolve
  <2> QED BY <2>4, <2>5, <2>6, ImgVmStep
<1>2. CASE ImgClone(v)
  <2>1. PICK f : f = imgFile[d.path]  OBVIOUS
  <2>2. ImgHas(d) /\ d.state = "resolved" /\ ImgHas(f)
    BY <1>2, <2>1 DEF ImgClone, ImgCloneable
  <2>3. /\ d \in ImgDisks /\ d.path \in ImgNames
        /\ ImgDiskOK(d, imgRow[d.path], imgClock)
    BY <2>2, ImgVmFacts
  <2>4. f \in ImgData /\ ImgRowOK(imgRow[d.path], f, imgClock)
    BY <2>1, <2>2, <2>3, ImgNameFacts DEF ImgHas
  <2>5. PICK e : e = [d EXCEPT !.bytes = f, !.cloned = f, !.state = "cloned"]  OBVIOUS
  <2>6. /\ e \in ImgDisks /\ e.path = d.path /\ e.resolved = d.resolved /\ e.cloned = f
        /\ e.state = "cloned"
    BY <2>3, <2>4, <2>5 DEF ImgDisks
  <2>7. ImgDiskOK(e, imgRow[e.path], imgClock)
    BY <2>2, <2>3, <2>4, <2>6 DEF ImgDiskOK, ImgRowOK
  <2>8. /\ imgDisk' = [imgDisk EXCEPT ![v] = e] /\ UNCHANGED <<imgRow, imgFile, imgTask>>
        /\ imgClock' = imgClock
    BY <1>2, <2>1, <2>5 DEF ImgClone
  <2> QED BY <2>6, <2>7, <2>8, ImgVmStep
<1>3. CASE ImgPrepareFails(v)
  <2>1. /\ imgDisk' = [imgDisk EXCEPT ![v] = ImgNone] /\ UNCHANGED <<imgRow, imgFile, imgTask>>
        /\ imgClock' = imgClock
    BY <1>3 DEF ImgPrepareFails
  <2> QED BY <2>1, ImgVmStep DEF ImgHas
<1>4. CASE ImgRecorded(v)
  <2>1. PICK b : b = ImgMounted(d.bytes)  OBVIOUS
  <2>2. ImgHas(d) /\ d.state = "booting"  BY <1>4 DEF ImgRecorded
  <2>3. /\ d \in ImgDisks /\ d.bytes \in ImgData /\ imgClock \in Nat
        /\ ImgDiskOK(d, imgRow[d.path], imgClock)
    BY <2>2, ImgVmFacts
  <2>4. /\ b \in ImgData /\ (b.whole <=> d.bytes.whole) /\ (~d.bytes.pending => b = d.bytes)
    BY <2>1, <2>3, ImgDataFacts
  <2>5. PICK e : e = [d EXCEPT !.state = "running", !.at = imgClock, !.bytes = b]  OBVIOUS
  <2>6. /\ e \in ImgDisks /\ e.path = d.path /\ e.resolved = d.resolved /\ e.cloned = d.cloned
        /\ e.state = "running" /\ e.outcome = d.outcome /\ e.bytes = b
    BY <2>3, <2>4, <2>5 DEF ImgDisks
  <2>7. ImgDiskOK(e, imgRow[e.path], imgClock)
    BY <2>2, <2>3, <2>4, <2>6 DEF ImgDiskOK
  <2>8. /\ imgDisk' = [imgDisk EXCEPT ![v] = e] /\ UNCHANGED <<imgRow, imgFile, imgTask>>
        /\ imgClock' = imgClock + 1
    BY <1>4, <2>1, <2>5 DEF ImgRecorded
  <2> QED BY <2>6, <2>7, <2>8, ImgVmStep
<1>5. ASSUME NEW g \in BOOLEAN, NEW o \in {"refreshed", "skipped"}, ImgPrepare(v, g, o)
      PROVE  ImgInv'
  <2>1. ImgHas(d) /\ d.state = "cloned"  BY <1>5 DEF ImgPrepare
  <2>2. /\ d \in ImgDisks /\ d.bytes \in ImgData /\ d.cloud \in BOOLEAN
        /\ ImgDiskOK(d, imgRow[d.path], imgClock)
    BY <2>1, ImgVmFacts DEF ImgDisks
  <2>3. PICK a : a = IF g /\ ~d.cloud THEN ImgReplayed(d.bytes) ELSE d.bytes  OBVIOUS
  <2>4. PICK b : b = IF o = "refreshed" /\ ~d.cloud THEN ImgRefreshed(a) ELSE a  OBVIOUS
  <2>5. PICK c : c = IF d.cloud \/ b.agent = "none" THEN "none" ELSE o  OBVIOUS
  <2>6. a \in ImgData
    <3>1. ImgReplayed(d.bytes) \in ImgData  BY <2>2, ImgDataFacts
    <3>2. CASE g /\ ~d.cloud
      <4>1. a = ImgReplayed(d.bytes)  BY <2>3, <3>2
      <4> QED BY <3>1, <4>1
    <3>3. CASE ~(g /\ ~d.cloud)
      <4>1. a = d.bytes  BY <2>3, <3>3
      <4> QED BY <2>1, <2>2, <4>1
    <3> QED BY <3>2, <3>3
  <2>7. b \in ImgData /\ (c = "refreshed" => b.agent = "current" /\ ~b.pending)
    BY <2>4, <2>5, <2>6, ImgDataFacts
  <2>8. PICK e : e = [d EXCEPT !.bytes = b, !.state = "booting", !.outcome = c]  OBVIOUS
  <2>9. c \in {"none", "refreshed", "skipped"}  BY <2>5
  <2>10. /\ e \in ImgDisks /\ e.path = d.path /\ e.resolved = d.resolved /\ e.cloned = d.cloned
         /\ e.state = "booting" /\ e.outcome = c /\ e.bytes = b
    BY <2>2, <2>7, <2>8, <2>9 DEF ImgDisks
  <2>11. ImgDiskOK(e, imgRow[e.path], imgClock)
    BY <2>1, <2>2, <2>7, <2>10 DEF ImgDiskOK
  <2>12. /\ imgDisk' = [imgDisk EXCEPT ![v] = e] /\ UNCHANGED <<imgRow, imgFile, imgTask>>
         /\ imgClock' = imgClock
    <3>1. /\ imgDisk' = [imgDisk EXCEPT ![v].bytes = b, ![v].state = "booting",
                                       ![v].outcome = c]
          /\ UNCHANGED <<imgRow, imgFile, imgTask, imgClock>>
      BY <1>5, <2>3, <2>4, <2>5, Zenon DEF ImgPrepare
    <3> QED BY <2>8, <3>1
  <2> QED BY <2>10, <2>11, <2>12, ImgVmStep
<1>6. ASSUME NEW clean \in BOOLEAN, ImgStop(v, clean) PROVE ImgInv'
  <2>1. ImgHas(d) /\ d.state = "running"  BY <1>6 DEF ImgStop
  <2>2. /\ d \in ImgDisks /\ d.bytes \in ImgData
        /\ ImgDiskOK(d, imgRow[d.path], imgClock)
    BY <2>1, ImgVmFacts
  <2>0. PICK p \in BOOLEAN : p = ~clean  OBVIOUS
  <2>3. PICK b : b = [d.bytes EXCEPT !.writes = @ + 1, !.pending = p]  OBVIOUS
  <2>4. b \in ImgData /\ (b.whole <=> d.bytes.whole)
    <3>1. PICK x : x = d.bytes  OBVIOUS
    <3>2. PICK w : w = x.writes + 1  OBVIOUS
    <3>3. w \in Nat
      <4>1. x.writes \in Nat  BY <2>2, <3>1, Zenon DEF ImgData
      <4> QED BY <3>2, <4>1
    <3>4. b = [x EXCEPT !.writes = w, !.pending = p]  BY <2>3, <3>1, <3>2
    <3> HIDE DEF d
    <3>5. [x EXCEPT !.writes = w, !.pending = p] \in ImgData
      BY <2>2, <3>1, <3>3, Zenon DEF ImgData
    <3>6. b.whole = x.whole
      BY <2>2, <3>1, <3>4 DEF ImgData
    <3> QED BY <3>1, <3>4, <3>5, <3>6
  <2>5. PICK e : e = [d EXCEPT !.state = "stopped", !.bytes = b]  OBVIOUS
  <2>6. /\ e \in ImgDisks /\ e.path = d.path /\ e.resolved = d.resolved /\ e.cloned = d.cloned
        /\ e.state = "stopped" /\ e.bytes = b
    BY <2>2, <2>4, <2>5 DEF ImgDisks
  <2>7. ImgDiskOK(e, imgRow[e.path], imgClock)
    BY <2>1, <2>2, <2>4, <2>6 DEF ImgDiskOK
  <2>8. /\ imgDisk' = [imgDisk EXCEPT ![v] = e] /\ UNCHANGED <<imgRow, imgFile, imgTask>>
        /\ imgClock' = imgClock
    <3>1. /\ imgDisk' = [imgDisk EXCEPT ![v].state = "stopped", ![v].bytes.writes = @ + 1,
                                       ![v].bytes.pending = p]
          /\ UNCHANGED <<imgRow, imgFile, imgTask, imgClock>>
      BY <1>6, <2>0, Zenon DEF ImgStop
    <3>2. [d EXCEPT !.state = "stopped", !.bytes.writes = @ + 1, !.bytes.pending = p] = e
      BY <2>2, <2>3, <2>5 DEF ImgDisks, ImgData
    <3> QED BY <3>1, <3>2
  <2> QED BY <2>6, <2>7, <2>8, ImgVmStep
<1> QED BY <1>1, <1>2, <1>3, <1>4, <1>5, <1>6

\* A crash loses the operations in progress and every disk without a row.
LEMMA ImgCrashStep ==
  ASSUME ImgInv, ImgCrash
  PROVE  ImgInv'
<1>1. ASSUME NEW v \in ImgVms
      PROVE  /\ imgDisk'[v] \in ImgDisks \cup {ImgNone}
             /\ ImgHas(imgDisk'[v]) => ImgDiskOK(imgDisk'[v], imgRow[imgDisk'[v].path], imgClock)
  <2>1. CASE ~ImgHas(imgDisk'[v])  BY <2>1 DEF ImgHas
  <2>2. CASE ImgHas(imgDisk'[v])
    <3>1. PICK d : d = imgDisk[v]  OBVIOUS
    <3>2. PICK e : e = [d EXCEPT !.state = "stopped"]  OBVIOUS
    <3>3. ImgHas(d) /\ d.state \in {"running", "stopped"} /\ imgDisk'[v] = e
      BY <2>2, <3>1, <3>2 DEF ImgCrash, ImgHas
    <3>4. d \in ImgDisks /\ ImgDiskOK(d, imgRow[d.path], imgClock)
      BY <3>1, <3>3, ImgVmFacts
    <3>5. /\ e \in ImgDisks /\ e.path = d.path /\ e.resolved = d.resolved
          /\ e.cloned = d.cloned /\ e.state = "stopped" /\ e.bytes = d.bytes
      BY <3>2, <3>4 DEF ImgDisks
    <3>6. ImgDiskOK(e, imgRow[e.path], imgClock)  BY <3>3, <3>4, <3>5 DEF ImgDiskOK
    <3> QED BY <3>3, <3>5, <3>6
  <2> QED BY <2>1, <2>2
<1>2. imgDisk' \in [ImgVms -> ImgDisks \cup {ImgNone}]
  <2>1. imgDisk' = [v \in ImgVms |-> imgDisk'[v]]  BY DEF ImgCrash
  <2> QED BY <1>1, <2>1
<1>3. ImgTypeOK'  BY <1>2 DEF ImgInv, ImgTypeOK, ImgCrash
<1>4. \A n \in ImgNames : imgTask'[n] = ImgNone  BY DEF ImgCrash
<1>5. \A n \in ImgNames : /\ ImgRowOK(imgRow'[n], imgFile'[n], imgClock')
                          /\ ImgTaskOK(imgTask'[n], imgRow'[n], imgFile'[n])
  BY <1>4 DEF ImgInv, ImgCrash, ImgTaskOK, ImgHas
<1> QED BY <1>1, <1>3, <1>5 DEF ImgInv, ImgCrash

\* Every step of the catalog keeps the invariant.
LEMMA ImgStepInv ==
  ASSUME ImgInv, [ImgNext]_imgVars
  PROVE  ImgInv'
<1>1. CASE UNCHANGED imgVars
  BY <1>1 DEF imgVars, ImgInv, ImgTypeOK
<1>2. ASSUME NEW n \in ImgNames,
             \/ \E src \in ImgSources : ImgImport(n, src)
             \/ ImgWritten(n) \/ ImgWriteFails(n) \/ ImgInsert(n) \/ ImgInsertFails(n)
             \/ \E v \in ImgVms : ImgCommit(v, n)
             \/ \E v \in ImgVms, b \in BOOLEAN : ImgResolve(v, n, b)
             \/ ImgDelete(n) \/ \E b \in BOOLEAN : ImgDeleted(n, b)
      PROVE  ImgInv'
  BY <1>2, ImgImportSteps, ImgInsertSteps, ImgDeleteSteps, ImgCommitStep, ImgVmSteps
<1>3. ASSUME NEW v \in ImgVms,
             \/ ImgClone(v) \/ ImgPrepareFails(v) \/ ImgRecorded(v)
             \/ \E b \in BOOLEAN, o \in {"refreshed", "skipped"} : ImgPrepare(v, b, o)
             \/ \E b \in BOOLEAN : ImgStop(v, b)
      PROVE  ImgInv'
  BY <1>3, ImgVmSteps
<1>4. CASE ImgCrash  BY <1>4, ImgCrashStep
<1> QED BY <1>1, <1>2, <1>3, <1>4 DEF ImgNext

(***************************************************************************)
(* OciImport: the tree, at any entry, is what the entries before it show   *)
(* and no later one of them veils.                                         *)
(***************************************************************************)

OciEntrySet == [kind : {"file", "whiteout", "opaque", "unsafe"},
                path : Seq(STRING), content : STRING]
OciGoodLayers == Seq(Seq(OciEntrySet))

\* An entry makes a path exist, or cease to exist.
OciShows(e, p) == e.kind = "file" /\ (e.path = p \/ OciUnder(e.path, p))
OciVeils(e, p) == \/ e.kind = "whiteout" /\ (p = e.path \/ OciUnder(p, e.path))
                  \/ e.kind = "opaque" /\ OciUnder(p, e.path)

\* Entry k of layer i comes before entry m of layer l.
OciBefore(i, k, l, m) == i < l \/ (i = l /\ k < m)

\* A path that the entries before m of layer l show and do not veil again.
OciShownBy(L, l, m, p, i, k) ==
  /\ OciBefore(i, k, l, m) /\ OciShows(L[i][k], p)
  /\ \A j \in DOMAIN L : \A h \in DOMAIN L[j] :
       OciBefore(j, h, l, m) /\ OciBefore(i, k, j, h) => ~OciVeils(L[j][h], p)

OciShown(L, l, m, p) ==
  \E i \in DOMAIN L : \E k \in DOMAIN L[i] : OciShownBy(L, l, m, p, i, k)

OciSeen(L, l, m) == {p \in OciPaths(L) : OciShown(L, l, m, p)}

OciInjected == {<<"usr">>, <<"usr", "agent">>, <<"init">>}

\* Paths: a prefix of a path is the path or stands above it.
LEMMA OciPrefixIs ==
  ASSUME NEW S, NEW P \in Seq(S), NEW p \in Seq(S), Len(p) >= 1
  PROVE  (P = p \/ OciUnder(P, p)) <=> p \in OciPrefixes(P)
<1>1. ASSUME P = p PROVE p \in OciPrefixes(P)
  <2>1. SubSeq(P, 1, Len(P)) = P  BY SubSeqFull
  <2>2. Len(P) \in 1..Len(P)  BY <1>1
  <2> QED BY <1>1, <2>1, <2>2 DEF OciPrefixes
<1>2. ASSUME OciUnder(P, p) PROVE p \in OciPrefixes(P)
  <2>1. Len(p) \in 1..Len(P) /\ SubSeq(P, 1, Len(p)) = p  BY <1>2 DEF OciUnder
  <2> QED BY <2>1 DEF OciPrefixes
<1>3. ASSUME p \in OciPrefixes(P) PROVE P = p \/ OciUnder(P, p)
  <2>1. PICK k \in 1..Len(P) : p = SubSeq(P, 1, k)  BY <1>3 DEF OciPrefixes
  <2>2. Len(p) = k
    <3>1. 1 \in 1..(Len(P) + 1) /\ k \in 0..Len(P)  OBVIOUS
    <3>2. Len(SubSeq(P, 1, k)) = IF 1 <= k THEN k - 1 + 1 ELSE 0
      BY <3>1, SubSeqProperties
    <3> QED BY <2>1, <3>2
  <2>3. CASE k = Len(P)  BY <2>1, <2>3, SubSeqFull
  <2>4. CASE k # Len(P)  BY <2>1, <2>2, <2>4 DEF OciUnder
  <2> QED BY <2>3, <2>4
<1> QED BY <1>1, <1>2, <1>3

\* What veils a directory veils what is in it.
LEMMA OciUnderPrefix ==
  ASSUME NEW S, NEW P \in Seq(S), NEW p \in Seq(S), NEW d \in Seq(S),
         P = p \/ OciUnder(P, p)
  PROVE  /\ OciUnder(p, d) => OciUnder(P, d)
         /\ p = d => P = d \/ OciUnder(P, d)
<1>1. CASE P = p  BY <1>1
<1>2. CASE P # p
  <2>1. Len(P) > Len(p) /\ SubSeq(P, 1, Len(p)) = p  BY <1>2 DEF OciUnder
  <2>2. ASSUME OciUnder(p, d) PROVE OciUnder(P, d)
    <3>1. Len(p) > Len(d) /\ SubSeq(p, 1, Len(d)) = d  BY <2>2 DEF OciUnder
    <3>2. SubSeq(P, 1, Len(d)) = SubSeq(p, 1, Len(d))
      <4>1. PICK a : a = SubSeq(P, 1, Len(d))  OBVIOUS
      <4>2. PICK b : b = SubSeq(p, 1, Len(d))  OBVIOUS
      <4>3. Len(d) \in Nat /\ Len(p) \in Nat /\ Len(P) \in Nat  OBVIOUS
      <4>4. \A i \in 1..Len(p) : p[i] = P[i]
        <5>1. \A i \in 1..Len(p) : SubSeq(P, 1, Len(p))[i] = P[i]
          <6>1. 1 \in 1..(Len(P) + 1) /\ Len(p) \in 0..Len(P)  BY <2>1, <4>3
          <6>2. \A i \in 1..(Len(p) - 1 + 1) : SubSeq(P, 1, Len(p))[i] = P[1 + i - 1]
            BY <6>1, SubSeqProperties
          <6>3. Len(p) - 1 + 1 = Len(p) /\ \A i \in 1..Len(p) : 1 + i - 1 = i  BY <4>3
          <6> QED BY <6>2, <6>3
        <5> QED BY <2>1, <5>1
      <4>5. a \in Seq(S) /\ Len(a) = Len(d) /\ \A i \in 1..Len(d) : a[i] = P[i]
        <5>1. 1 \in 1..(Len(P) + 1) /\ Len(d) \in 0..Len(P)  BY <2>1, <3>1, <4>3
        <5>2. /\ SubSeq(P, 1, Len(d)) \in Seq(S)
              /\ Len(SubSeq(P, 1, Len(d))) = IF 1 <= Len(d) THEN Len(d) - 1 + 1 ELSE 0
              /\ \A i \in 1..(Len(d) - 1 + 1) : SubSeq(P, 1, Len(d))[i] = P[1 + i - 1]
          BY <5>1, SubSeqProperties
        <5>3. Len(d) - 1 + 1 = Len(d) /\ \A i \in 1..Len(d) : 1 + i - 1 = i  BY <4>3
        <5> QED BY <4>1, <4>3, <5>2, <5>3
      <4>6. b \in Seq(S) /\ Len(b) = Len(d) /\ \A i \in 1..Len(d) : b[i] = p[i]
        <5>1. 1 \in 1..(Len(p) + 1) /\ Len(d) \in 0..Len(p)  BY <3>1, <4>3
        <5>2. /\ SubSeq(p, 1, Len(d)) \in Seq(S)
              /\ Len(SubSeq(p, 1, Len(d))) = IF 1 <= Len(d) THEN Len(d) - 1 + 1 ELSE 0
              /\ \A i \in 1..(Len(d) - 1 + 1) : SubSeq(p, 1, Len(d))[i] = p[1 + i - 1]
          BY <5>1, SubSeqProperties
        <5>3. Len(d) - 1 + 1 = Len(d) /\ \A i \in 1..Len(d) : 1 + i - 1 = i  BY <4>3
        <5> QED BY <4>2, <4>3, <5>2, <5>3
      <4>7. \A i \in 1..Len(a) : a[i] = b[i]  BY <3>1, <4>3, <4>4, <4>5, <4>6
      <4>8. a = b  BY <4>5, <4>6, <4>7, SeqEqual
      <4> QED BY <4>1, <4>2, <4>8
    <3> QED BY <2>1, <3>1, <3>2 DEF OciUnder
  <2> QED BY <1>2, <2>2
<1> QED BY <1>1, <1>2

\* The layers of an image, and the paths their entries name.
LEMMA OciLayerFacts ==
  ASSUME NEW L \in OciGoodLayers, NEW i \in DOMAIN L
  PROVE  /\ DOMAIN L = 1..Len(L) /\ i \in Nat /\ L[i] \in Seq(OciEntrySet)
         /\ DOMAIN L[i] = 1..Len(L[i]) /\ Len(L[i]) \in Nat
         /\ \A k \in DOMAIN L[i] : /\ L[i][k] \in OciEntrySet /\ L[i][k].path \in Seq(STRING)
                                   /\ L[i][k].kind \in {"file", "whiteout", "opaque", "unsafe"}
<1>1. /\ DOMAIN L = 1..Len(L) /\ i \in Nat /\ L[i] \in Seq(OciEntrySet)
  BY DEF OciGoodLayers
<1>2. DOMAIN L[i] = 1..Len(L[i]) /\ Len(L[i]) \in Nat  BY <1>1
<1>3. \A k \in DOMAIN L[i] : L[i][k] \in OciEntrySet  BY <1>1, <1>2
<1>4. \A e \in OciEntrySet : e.path \in Seq(STRING)
                             /\ e.kind \in {"file", "whiteout", "opaque", "unsafe"}
  BY DEF OciEntrySet
<1> QED BY <1>1, <1>2, <1>3, <1>4

\* Paths are sequences of names.
LEMMA OciPathFacts ==
  ASSUME NEW L \in OciGoodLayers
  PROVE  /\ \A p \in OciPaths(L) : p \in Seq(STRING) /\ Len(p) >= 1
         /\ \A i \in DOMAIN L : \A k \in DOMAIN L[i] : OciPrefixes(L[i][k].path) \subseteq OciPaths(L)
<1>1. ASSUME NEW p \in OciPaths(L) PROVE p \in Seq(STRING) /\ Len(p) >= 1
  <2>1. PICK i \in DOMAIN L : p \in UNION {OciPrefixes(e.path) : e \in OciEntries(L[i])}
    BY <1>1, Zenon DEF OciPaths
  <2>2. PICK e \in OciEntries(L[i]) : p \in OciPrefixes(e.path)  BY <2>1, Zenon
  <2>3. PICK h \in DOMAIN L[i] : e = L[i][h]  BY <2>2 DEF OciEntries
  <2>4. PICK P : P = e.path  OBVIOUS
  <2>5. P \in Seq(STRING)  BY <2>3, <2>4, OciLayerFacts
  <2>6. PICK k \in 1..Len(P) : p = SubSeq(P, 1, k)  BY <2>2, <2>4 DEF OciPrefixes
  <2>7. PICK S : S = STRING  OBVIOUS
  <2>8. P \in Seq(S) /\ 1 \in 1..(Len(P) + 1) /\ k \in 0..Len(P)  BY <2>5, <2>7
  <2>9. /\ SubSeq(P, 1, k) \in Seq(S)
        /\ Len(SubSeq(P, 1, k)) = IF 1 <= k THEN k - 1 + 1 ELSE 0
    BY <2>8, SubSeqProperties
  <2> QED BY <2>6, <2>7, <2>9
<1>2. ASSUME NEW i \in DOMAIN L, NEW k \in DOMAIN L[i], NEW p \in OciPrefixes(L[i][k].path)
      PROVE  p \in OciPaths(L)
  <2>1. L[i][k] \in OciEntries(L[i])  BY DEF OciEntries
  <2>2. p \in UNION {OciPrefixes(e.path) : e \in OciEntries(L[i])}  BY <2>1, Zenon
  <2> QED BY <2>2, Zenon DEF OciPaths
<1> QED BY <1>1, <1>2

\* One entry more: it shows its own path, and keeps what it does not veil.
LEMMA OciShownNext ==
  ASSUME NEW L \in OciGoodLayers, NEW l \in DOMAIN L, NEW m \in DOMAIN L[l], NEW p
  PROVE  OciShown(L, l, m + 1, p) <=>
           OciShows(L[l][m], p) \/ (OciShown(L, l, m, p) /\ ~OciVeils(L[l][m], p))
<1>1. l \in Nat /\ m \in Nat  BY OciLayerFacts
<1>2. \A i \in DOMAIN L : \A k \in DOMAIN L[i] : i \in Nat /\ k \in Nat  BY OciLayerFacts
<1>3. \A i \in DOMAIN L : \A k \in DOMAIN L[i] :
        /\ OciBefore(i, k, l, m + 1) <=> OciBefore(i, k, l, m) \/ (i = l /\ k = m)
        /\ OciBefore(i, k, l, m) => ~OciBefore(l, m, i, k)
  BY <1>1, <1>2 DEF OciBefore
<1>4. ~OciBefore(l, m, l, m)  BY <1>1 DEF OciBefore
<1>5. ASSUME OciShown(L, l, m + 1, p)
      PROVE  OciShows(L[l][m], p) \/ (OciShown(L, l, m, p) /\ ~OciVeils(L[l][m], p))
  <2>0. PICK i \in DOMAIN L : \E k \in DOMAIN L[i] : OciShownBy(L, l, m + 1, p, i, k)
    BY <1>5 DEF OciShown
  <2>9. PICK k \in DOMAIN L[i] : OciShownBy(L, l, m + 1, p, i, k)  BY <2>0
  <2>1. /\ OciBefore(i, k, l, m + 1) /\ OciShows(L[i][k], p)
        /\ \A j \in DOMAIN L : \A h \in DOMAIN L[j] :
             OciBefore(j, h, l, m + 1) /\ OciBefore(i, k, j, h) => ~OciVeils(L[j][h], p)
    BY <2>9 DEF OciShownBy
  <2>2. CASE i = l /\ k = m  BY <2>1, <2>2
  <2>3. CASE ~(i = l /\ k = m)
    <3>1. OciBefore(i, k, l, m)  BY <1>3, <2>1, <2>3
    <3>2. ~OciVeils(L[l][m], p)  BY <1>3, <2>1, <3>1
    <3>3. \A j \in DOMAIN L : \A h \in DOMAIN L[j] :
            OciBefore(j, h, l, m) /\ OciBefore(i, k, j, h) => ~OciVeils(L[j][h], p)
      BY <1>3, <2>1
    <3>4. OciShown(L, l, m, p)  BY <2>1, <3>1, <3>3, Zenon DEF OciShown, OciShownBy
    <3> QED BY <3>2, <3>4
  <2> QED BY <2>2, <2>3
<1>6. ASSUME OciShows(L[l][m], p) PROVE OciShown(L, l, m + 1, p)
  <2>1. OciBefore(l, m, l, m + 1)  BY <1>3
  <2>2. \A j \in DOMAIN L : \A h \in DOMAIN L[j] :
          ~(OciBefore(j, h, l, m + 1) /\ OciBefore(l, m, j, h))
    BY <1>3, <1>4
  <2> QED BY <1>6, <2>1, <2>2, Zenon DEF OciShown, OciShownBy
<1>7. ASSUME OciShown(L, l, m, p), ~OciVeils(L[l][m], p) PROVE OciShown(L, l, m + 1, p)
  <2>0. PICK i \in DOMAIN L : \E k \in DOMAIN L[i] : OciShownBy(L, l, m, p, i, k)
    BY <1>7 DEF OciShown
  <2>9. PICK k \in DOMAIN L[i] : OciShownBy(L, l, m, p, i, k)  BY <2>0
  <2>1. /\ OciBefore(i, k, l, m) /\ OciShows(L[i][k], p)
        /\ \A j \in DOMAIN L : \A h \in DOMAIN L[j] :
             OciBefore(j, h, l, m) /\ OciBefore(i, k, j, h) => ~OciVeils(L[j][h], p)
    BY <2>9 DEF OciShownBy
  <2>2. OciBefore(i, k, l, m + 1)  BY <1>3, <2>1
  <2>3. \A j \in DOMAIN L : \A h \in DOMAIN L[j] :
          OciBefore(j, h, l, m + 1) /\ OciBefore(i, k, j, h) => ~OciVeils(L[j][h], p)
    BY <1>3, <1>7, <2>1
  <2> QED BY <2>1, <2>2, <2>3, Zenon DEF OciShown, OciShownBy
<1> QED BY <1>5, <1>6, <1>7

\* The end of a layer: nothing more is before the start of the next one.
LEMMA OciLayerEnds ==
  ASSUME NEW L \in OciGoodLayers, NEW l \in DOMAIN L, NEW m \in Nat, m > Len(L[l])
  PROVE  OciSeen(L, l + 1, 1) = OciSeen(L, l, m)
<1>1. \A i \in DOMAIN L : \A k \in DOMAIN L[i] :
        /\ i \in Nat /\ k \in Nat /\ k >= 1 /\ (i = l => k < m)
  BY OciLayerFacts
<1>2. l \in Nat  BY OciLayerFacts
<1>3. \A i \in DOMAIN L : \A k \in DOMAIN L[i] :
        OciBefore(i, k, l + 1, 1) <=> OciBefore(i, k, l, m)
  BY <1>1, <1>2 DEF OciBefore
<1>4. ASSUME NEW p, NEW i \in DOMAIN L, NEW k \in DOMAIN L[i]
      PROVE  OciShownBy(L, l + 1, 1, p, i, k) <=> OciShownBy(L, l, m, p, i, k)
  BY <1>3 DEF OciShownBy
<1>5. \A p : OciShown(L, l + 1, 1, p) <=> OciShown(L, l, m, p)
  BY <1>4 DEF OciShown
<1> QED BY <1>5 DEF OciSeen

\* Before the first entry nothing is shown.
LEMMA OciSeenFirst ==
  ASSUME NEW L \in OciGoodLayers
  PROVE  OciSeen(L, 1, 1) = {}
<1>1. \A i \in DOMAIN L : \A k \in DOMAIN L[i] : i \in Nat /\ k \in Nat /\ i >= 1 /\ k >= 1
  BY OciLayerFacts
<1>2. \A i \in DOMAIN L : \A k \in DOMAIN L[i] : ~OciBefore(i, k, 1, 1)
  BY <1>1 DEF OciBefore
<1>3. \A p : ~OciShown(L, 1, 1, p)  BY <1>2 DEF OciShown, OciShownBy
<1> QED BY <1>3 DEF OciSeen

\* Layer by layer or entry by entry: after the last entry the overlay is there.
LEMMA OciSeenAll ==
  ASSUME NEW L \in OciGoodLayers, NEW l \in Nat, NEW m \in Nat, l > Len(L),
         \A i \in DOMAIN L : OciMarkersFirst(L[i])
  PROVE  OciSeen(L, l, m) = {p \in OciPaths(L) : OciVisible(L, p)}
<1>1. \A i \in DOMAIN L : i \in Nat /\ i < l  BY DEF OciGoodLayers
<1>2. \A i \in DOMAIN L : \A k \in DOMAIN L[i] : OciBefore(i, k, l, m)
  BY <1>1 DEF OciBefore
<1>3. ASSUME NEW i \in DOMAIN L, NEW p
      PROVE  /\ OciHides(L[i], p) <=> \E k \in DOMAIN L[i] : OciVeils(L[i][k], p)
             /\ OciAdds(L[i], p) # {} <=> \E k \in DOMAIN L[i] : OciShows(L[i][k], p)
  <2>1. \A k \in DOMAIN L[i] : L[i][k] \in OciEntries(L[i])  BY DEF OciEntries
  <2>2. \A e \in OciEntries(L[i]) : \E k \in DOMAIN L[i] : e = L[i][k]  BY DEF OciEntries
  <2>3. OciHides(L[i], p) <=> \E e \in OciEntries(L[i]) : OciVeils(e, p)
    BY DEF OciHides, OciVeils
  <2>4. OciAdds(L[i], p) # {} <=> \E e \in OciEntries(L[i]) : OciShows(e, p)
    BY DEF OciAdds, OciShows
  <2> QED BY <2>1, <2>2, <2>3, <2>4
<1>4. ASSUME NEW p \in OciPaths(L), OciShown(L, l, m, p) PROVE OciVisible(L, p)
  <2>1. PICK i \in DOMAIN L : \E k \in DOMAIN L[i] : OciShownBy(L, l, m, p, i, k)
    BY <1>4 DEF OciShown
  <2>2. PICK k \in DOMAIN L[i] : OciShownBy(L, l, m, p, i, k)  BY <2>1
  <2>3. OciAdds(L[i], p) # {}  BY <1>3, <2>2 DEF OciShownBy
  <2>4. ASSUME NEW j \in DOMAIN L, j > i PROVE ~OciHides(L[j], p)
    <3>1. \A h \in DOMAIN L[j] : OciBefore(j, h, l, m) /\ OciBefore(i, k, j, h)
      BY <1>1, <1>2, <2>4 DEF OciBefore
    <3>2. \A h \in DOMAIN L[j] : ~OciVeils(L[j][h], p)  BY <2>2, <3>1 DEF OciShownBy
    <3> QED BY <1>3, <3>2
  <2> QED BY <2>3, <2>4 DEF OciVisible
<1>5. ASSUME NEW p \in OciPaths(L), OciVisible(L, p) PROVE OciShown(L, l, m, p)
  <2>1. PICK i \in DOMAIN L : /\ OciAdds(L[i], p) # {}
                              /\ \A j \in DOMAIN L : j > i => ~OciHides(L[j], p)
    BY <1>5 DEF OciVisible
  <2>2. PICK k \in DOMAIN L[i] : OciShows(L[i][k], p)  BY <1>3, <2>1
  <2>3. ASSUME NEW h \in DOMAIN L[i], k < h PROVE ~OciVeils(L[i][h], p)
    <3>1. PICK e : e = L[i][h]  OBVIOUS
    <3>2. PICK P : P = L[i][k].path  OBVIOUS
    <3>3. L[i][k].kind = "file" /\ (P = p \/ OciUnder(P, p))  BY <2>2, <3>2 DEF OciShows
    <3>4. ~OciHides(<<e>>, P)
      BY <2>3, <3>1, <3>2, <3>3 DEF OciMarkersFirst
    <3>5. ~OciVeils(e, P)
      <4>1. PICK s : s = <<e>>  OBVIOUS
      <4>2. 1 \in DOMAIN s /\ s[1] = e  BY <4>1
      <4>3. e \in OciEntries(s)  BY <4>2 DEF OciEntries
      <4> QED BY <3>4, <4>1, <4>3 DEF OciHides, OciVeils
    <3>6. P \in Seq(STRING) /\ e.path \in Seq(STRING) /\ p \in Seq(STRING)
      BY <3>1, <3>2, OciLayerFacts, OciPathFacts
    <3>7. PICK d : d = e.path  OBVIOUS
    <3>8. /\ OciUnder(p, d) => OciUnder(P, d)
          /\ p = d => P = d \/ OciUnder(P, d)
      BY <3>3, <3>6, <3>7, OciUnderPrefix
    <3> QED BY <3>1, <3>5, <3>7, <3>8 DEF OciVeils
  <2>4. ASSUME NEW j \in DOMAIN L, NEW h \in DOMAIN L[j], OciBefore(i, k, j, h)
        PROVE  ~OciVeils(L[j][h], p)
    <3>1. CASE i = j
      <4>1. k < h  BY <1>1, <2>4, <3>1 DEF OciBefore
      <4> QED BY <2>3, <3>1, <4>1
    <3>2. CASE i # j
      <4>1. j > i  BY <1>1, <2>4, <3>2 DEF OciBefore
      <4> QED BY <1>3, <2>1, <4>1
    <3> QED BY <3>1, <3>2
  <2>5. OciShownBy(L, l, m, p, i, k)  BY <1>2, <2>2, <2>4 DEF OciShownBy
  <2> QED BY <2>5 DEF OciShown
<1> QED BY <1>4, <1>5 DEF OciSeen

\* Of the entries before m of layer l, entry k of layer i is the last one that
\* makes the path.
OciLastBefore(L, l, m, p, i, k) ==
  /\ OciBefore(i, k, l, m) /\ OciShows(L[i][k], p)
  /\ \A j \in DOMAIN L : \A h \in DOMAIN L[j] :
       OciBefore(j, h, l, m) /\ OciBefore(i, k, j, h) => ~OciShows(L[j][h], p)

\* The paths of a set have the contents those entries give them.
OciFilled(tree, paths, L, l, m) ==
  \A p \in paths : \A i \in DOMAIN L : \A k \in DOMAIN L[i] :
    OciLastBefore(L, l, m, p, i, k) => tree[p] = OciMakes(L[i][k], p)

\* The end of a layer changes no content.
LEMMA OciFilledEnds ==
  ASSUME NEW L \in OciGoodLayers, NEW l \in DOMAIN L, NEW m \in Nat, m > Len(L[l]),
         NEW tree, NEW paths, OciFilled(tree, paths, L, l, m)
  PROVE  OciFilled(tree, paths, L, l + 1, 1)
<1>1. \A i \in DOMAIN L : \A k \in DOMAIN L[i] :
        /\ i \in Nat /\ k \in Nat /\ k >= 1 /\ (i = l => k < m)
  BY OciLayerFacts
<1>2. l \in Nat  BY OciLayerFacts
<1>3. \A i \in DOMAIN L : \A k \in DOMAIN L[i] :
        OciBefore(i, k, l + 1, 1) <=> OciBefore(i, k, l, m)
  BY <1>1, <1>2 DEF OciBefore
<1>4. ASSUME NEW p, NEW i \in DOMAIN L, NEW k \in DOMAIN L[i]
      PROVE  OciLastBefore(L, l + 1, 1, p, i, k) <=> OciLastBefore(L, l, m, p, i, k)
  BY <1>3 DEF OciLastBefore
<1> QED BY <1>4 DEF OciFilled

\* After the last entry, the last one that makes a path is the last of all.
LEMMA OciFilledAll ==
  ASSUME NEW L \in OciGoodLayers, NEW l \in Nat, NEW m \in Nat, l > Len(L),
         NEW p, NEW i \in DOMAIN L, NEW k \in DOMAIN L[i], OciLast(L, p, i, k)
  PROVE  OciLastBefore(L, l, m, p, i, k)
<1>1. \A j \in DOMAIN L : j \in Nat /\ j < l  BY DEF OciGoodLayers
<1>2. \A j \in DOMAIN L : \A h \in DOMAIN L[j] : OciBefore(j, h, l, m)
  BY <1>1 DEF OciBefore
<1>3. ASSUME NEW j \in DOMAIN L, NEW h \in DOMAIN L[j]
      PROVE  OciShows(L[j][h], p) <=> L[j][h] \in OciAdds(L[j], p)
  <2>1. L[j][h] \in OciEntries(L[j])  BY DEF OciEntries
  <2> QED BY <2>1 DEF OciAdds, OciShows
<1>4. ASSUME NEW j \in DOMAIN L, NEW h \in DOMAIN L[j], OciBefore(i, k, j, h)
      PROVE  j > i \/ (j = i /\ h > k)
  <2>1. i \in Nat /\ j \in Nat /\ k \in Nat /\ h \in Nat  BY OciLayerFacts
  <2> QED BY <1>4, <2>1 DEF OciBefore
<1>5. \A j \in DOMAIN L : \A h \in DOMAIN L[j] :
        OciBefore(i, k, j, h) => ~OciShows(L[j][h], p)
  BY <1>3, <1>4 DEF OciLast
<1>6. OciShows(L[i][k], p)  BY <1>3 DEF OciLast
<1> QED BY <1>2, <1>5, <1>6 DEF OciLastBefore

\* An entry fills its own path and those above it, and leaves the others.
LEMMA OciAppliedFills ==
  ASSUME NEW L \in OciGoodLayers, NEW l \in DOMAIN L, NEW m \in DOMAIN L[l], NEW tree,
         DOMAIN tree = OciSeen(L, l, m), L[l][m].kind # "unsafe",
         OciFilled(tree, DOMAIN tree, L, l, m),
         DOMAIN OciApplied(tree, L[l][m]) = OciSeen(L, l, m + 1)
  PROVE  OciFilled(OciApplied(tree, L[l][m]), DOMAIN OciApplied(tree, L[l][m]), L, l, m + 1)
<1>1. PICK e : e = L[l][m]  OBVIOUS
<1>2. e.path \in Seq(STRING) /\ e.kind \in {"file", "whiteout", "opaque"}
  BY <1>1, OciLayerFacts
<1>3. PICK new : new = OciApplied(tree, e)  OBVIOUS
<1>4. SUFFICES ASSUME NEW p \in DOMAIN new, NEW i \in DOMAIN L, NEW k \in DOMAIN L[i],
                      OciLastBefore(L, l, m + 1, p, i, k)
               PROVE  new[p] = OciMakes(L[i][k], p)
  BY <1>1, <1>3 DEF OciFilled
<1>5. p \in OciPaths(L) /\ OciShown(L, l, m + 1, p)  BY <1>1, <1>3 DEF OciSeen
<1>6. p \in Seq(STRING) /\ Len(p) >= 1  BY <1>5, OciPathFacts
<1>7. OciShows(e, p) <=> e.kind = "file" /\ p \in OciPrefixes(e.path)
  <2>1. (e.path = p \/ OciUnder(e.path, p)) <=> p \in OciPrefixes(e.path)
    BY <1>2, <1>6, OciPrefixIs
  <2> QED BY <2>1 DEF OciShows
<1>8. CASE i = l /\ k = m
  <2>1. OciShows(e, p) /\ L[i][k] = e  BY <1>1, <1>4, <1>8 DEF OciLastBefore
  <2>2. new = OciPlaced(tree, e.path, e.content)
    BY <1>3, <1>7, <2>1, Zenon DEF OciApplied
  <2>3. new[p] = IF p = e.path THEN e.content ELSE "dir"
    BY <1>7, <2>1, <2>2 DEF OciPlaced
  <2> QED BY <2>1, <2>3 DEF OciMakes
<1>9. CASE ~(i = l /\ k = m)
  <2>1. l \in Nat /\ m \in Nat  BY OciLayerFacts
  <2>2. \A j \in DOMAIN L : \A h \in DOMAIN L[j] : j \in Nat /\ h \in Nat  BY OciLayerFacts
  <2>3. \A j \in DOMAIN L : \A h \in DOMAIN L[j] :
          /\ OciBefore(j, h, l, m + 1) <=> OciBefore(j, h, l, m) \/ (j = l /\ h = m)
    BY <2>1, <2>2 DEF OciBefore
  <2>4. OciBefore(i, k, l, m)  BY <1>4, <1>9, <2>3 DEF OciLastBefore
  <2>5. ~OciShows(e, p)
    <3>1. OciBefore(l, m, l, m + 1)  BY <2>3
    <3> QED BY <1>1, <1>4, <2>4, <3>1 DEF OciLastBefore
  <2>6. OciLastBefore(L, l, m, p, i, k)  BY <1>4, <2>3, <2>4 DEF OciLastBefore
  <2>7. p \in DOMAIN tree
    <3>1. OciShown(L, l, m, p)  BY <1>1, <1>5, <2>5, OciShownNext
    <3> QED BY <1>5, <3>1 DEF OciSeen
  <2>8. tree[p] = OciMakes(L[i][k], p)  BY <2>6, <2>7 DEF OciFilled
  <2>9. new[p] = tree[p]
    <3>1. CASE e.kind = "file"
      <4>1. new = OciPlaced(tree, e.path, e.content)  BY <1>3, <3>1, Zenon DEF OciApplied
      <4>2. p \notin OciPrefixes(e.path)  BY <1>7, <2>5, <3>1
      <4>3. p # e.path
        <5>1. e.path = p => OciShows(e, p)  BY <3>1 DEF OciShows
        <5> QED BY <2>5, <5>1
      <4> QED BY <2>7, <4>1, <4>2, <4>3 DEF OciPlaced
    <3>2. CASE e.kind = "whiteout"
      <4>1. new = OciRemoved(tree, e.path)  BY <1>3, <3>2 DEF OciApplied
      <4> QED BY <1>4, <4>1 DEF OciRemoved, OciWithout
    <3>3. CASE e.kind = "opaque"
      <4>1. new = OciCleared(tree, e.path)  BY <1>3, <3>3 DEF OciApplied
      <4> QED BY <1>4, <4>1 DEF OciCleared, OciWithout
    <3> QED BY <1>2, <3>1, <3>2, <3>3
  <2> QED BY <2>8, <2>9
<1> QED BY <1>8, <1>9

\* What an entry does to the set of paths.
LEMMA OciAppliedDomain ==
  ASSUME NEW L \in OciGoodLayers, NEW l \in DOMAIN L, NEW m \in DOMAIN L[l], NEW tree,
         DOMAIN tree = OciSeen(L, l, m), L[l][m].kind # "unsafe"
  PROVE  DOMAIN OciApplied(tree, L[l][m]) = OciSeen(L, l, m + 1)
<1>1. PICK e : e = L[l][m]  OBVIOUS
<1>2. e.path \in Seq(STRING) /\ e.kind \in {"file", "whiteout", "opaque"}
  BY <1>1, OciLayerFacts
<1>3. \A p \in OciPaths(L) : p \in OciSeen(L, l, m + 1) <=>
        OciShows(e, p) \/ (p \in OciSeen(L, l, m) /\ ~OciVeils(e, p))
  BY <1>1, OciShownNext DEF OciSeen
<1>4. OciSeen(L, l, m) \subseteq OciPaths(L) /\ OciSeen(L, l, m + 1) \subseteq OciPaths(L)
  BY DEF OciSeen
<1>5. CASE e.kind = "file"
  <2>1. \A p \in OciPaths(L) : OciShows(e, p) <=> p \in OciPrefixes(e.path)
    <3>1. ASSUME NEW p \in OciPaths(L)
          PROVE  (e.path = p \/ OciUnder(e.path, p)) <=> p \in OciPrefixes(e.path)
      <4>1. p \in Seq(STRING) /\ Len(p) >= 1  BY OciPathFacts
      <4> QED BY <1>2, <4>1, OciPrefixIs
    <3> QED BY <1>5, <3>1 DEF OciShows
  <2>2. OciPrefixes(e.path) \subseteq OciPaths(L)  BY <1>1, OciPathFacts
  <2>3. \A p : ~OciVeils(e, p)  BY <1>5 DEF OciVeils
  <2>4. DOMAIN OciApplied(tree, e) = (DOMAIN tree) \union OciPrefixes(e.path)
    <3>1. OciApplied(tree, e) = OciPlaced(tree, e.path, e.content)
      BY <1>5, Zenon DEF OciApplied
    <3> QED BY <3>1 DEF OciPlaced
  <2> QED BY <1>1, <1>3, <1>4, <2>1, <2>2, <2>3, <2>4
<1>6. CASE e.kind = "whiteout"
  <2>1. OciApplied(tree, e) = OciRemoved(tree, e.path)
    BY <1>6 DEF OciApplied
  <2>2. DOMAIN OciApplied(tree, e) =
          {q \in DOMAIN tree : ~(q = e.path \/ OciUnder(q, e.path))}
    BY <2>1 DEF OciRemoved, OciWithout
  <2>3. \A p : ~OciShows(e, p) /\ (OciVeils(e, p) <=> (p = e.path \/ OciUnder(p, e.path)))
    BY <1>6 DEF OciShows, OciVeils
  <2> QED BY <1>1, <1>3, <1>4, <2>2, <2>3
<1>7. CASE e.kind = "opaque"
  <2>1. OciApplied(tree, e) = OciCleared(tree, e.path)
    BY <1>7 DEF OciApplied
  <2>2. DOMAIN OciApplied(tree, e) = {q \in DOMAIN tree : ~OciUnder(q, e.path)}
    BY <2>1 DEF OciCleared, OciWithout
  <2>3. \A p : ~OciShows(e, p) /\ (OciVeils(e, p) <=> OciUnder(p, e.path))
    BY <1>7 DEF OciShows, OciVeils
  <2> QED BY <1>1, <1>3, <1>4, <2>2, <2>3
<1> QED BY <1>2, <1>5, <1>6, <1>7

-----------------------------------------------------------------------------

OciSteps == {"manifest", "config", "pulling", "flattening", "building", "imported", "failed"}

OciTypeOK ==
  /\ ociStep \in OciSteps
  /\ ociImage \in [layers : OciGoodLayers, declared : Nat, corrupt : Nat]
  /\ ociCharged \in Nat /\ ociUnpacked \in Nat
  /\ ociAt \in [layer : Nat \ {0}, entry : Nat \ {0}]

\* The layers spooled are the first ones, and none of them is the corrupt one.
OciSpooled(k) == ociSpool = 1..k /\ ociImage.corrupt \notin 1..k

OciPulled ==
  /\ ociImage.corrupt <= OciCount
  /\ ociStep = "pulling" => \E k \in 0..OciCount : OciSpooled(k)
  /\ ociStep # "pulling" => ociSpool = {}
  /\ ociStep \in {"flattening", "building", "imported"} => ociImage.corrupt = 0

OciFlattened ==
  /\ ociStep \in {"manifest", "config", "pulling"} =>
       ociAt = [layer |-> 1, entry |-> 1] /\ DOMAIN ociTree = {}
  /\ ociStep = "flattening" =>
       /\ DOMAIN ociTree = OciSeen(ociImage.layers, ociAt.layer, ociAt.entry)
       /\ OciFilled(ociTree, DOMAIN ociTree, ociImage.layers, ociAt.layer, ociAt.entry)
  /\ ociStep \in {"building", "imported"} =>
       /\ ociAt.layer > OciCount
       /\ OciFilled(ociTree, (DOMAIN ociTree) \ OciInjected, ociImage.layers, ociAt.layer,
                    ociAt.entry)
       /\ ociTree[<<"init">>] = "agent" /\ ociTree[<<"usr", "agent">>] = "agent"
       /\ DOMAIN ociTree = OciSeen(ociImage.layers, ociAt.layer, ociAt.entry) \cup OciInjected

OciPlacedFile ==
  /\ ociStep = "building" <=> ociDest = "partial"
  /\ ociStep = "imported" <=> ociDest = "built"

OciWithin == ociStep # "failed" => ociCharged <= OciDownload /\ ociUnpacked <= OciUnpacked

OciInv == OciTypeOK /\ OciPulled /\ OciFlattened /\ OciPlacedFile /\ OciWithin

\* Nothing is pulled at first.
LEMMA OciInitInv == OciInit => OciInv
<1> SUFFICES ASSUME OciInit PROVE OciInv  OBVIOUS
<1>1. <<>> \in OciGoodLayers /\ Len(<<>>) = 0  BY DEF OciGoodLayers
<1>2. ociImage = [layers |-> <<>>, declared |-> 0, corrupt |-> 0]
  BY DEF OciInit, OciNoImage
<1>3. OciTypeOK  BY <1>1, <1>2 DEF OciInit, OciTypeOK, OciSteps
<1>4. OciPulled  BY <1>1, <1>2 DEF OciInit, OciPulled, OciCount
<1>5. DOMAIN ociTree = {}  BY DEF OciInit, OciEmpty
<1>6. OciFlattened  BY <1>5 DEF OciInit, OciFlattened
<1>7. OciPlacedFile /\ OciWithin  BY OciAssumption DEF OciInit, OciPlacedFile, OciWithin
<1> QED BY <1>3, <1>4, <1>6, <1>7 DEF OciInv

\* The invariant says that an import is faithful.
LEMMA OciInvFaithful == OciInv => OciFaithful
<1> SUFFICES ASSUME OciInv PROVE OciFaithful  OBVIOUS
<1>1. ASSUME ociStep = "imported"
      PROVE  /\ ociImage.corrupt = 0
             /\ (\A i \in DOMAIN ociImage.layers : OciMarkersFirst(ociImage.layers[i])) =>
                  DOMAIN ociTree =
                    {p \in OciPaths(ociImage.layers) : OciVisible(ociImage.layers, p)}
                    \union {<<"usr">>, <<"usr", "agent">>, <<"init">>}
             /\ \A p \in (DOMAIN ociTree) \ {<<"usr">>, <<"usr", "agent">>, <<"init">>} :
                  \A i \in DOMAIN ociImage.layers : \A k \in DOMAIN ociImage.layers[i] :
                    OciLast(ociImage.layers, p, i, k) =>
                      ociTree[p] = OciMakes(ociImage.layers[i][k], p)
             /\ ociTree[<<"init">>] = "agent" /\ ociTree[<<"usr", "agent">>] = "agent"
  <2>1. ociImage.corrupt = 0  BY <1>1 DEF OciInv, OciPulled
  <2>2. /\ ociAt.layer > OciCount
        /\ DOMAIN ociTree = OciSeen(ociImage.layers, ociAt.layer, ociAt.entry) \cup OciInjected
    BY <1>1 DEF OciInv, OciFlattened
  <2>3. ociImage.layers \in OciGoodLayers /\ ociAt.layer \in Nat /\ ociAt.entry \in Nat
    BY DEF OciInv, OciTypeOK
  <2>4. ASSUME \A i \in DOMAIN ociImage.layers : OciMarkersFirst(ociImage.layers[i])
        PROVE  OciSeen(ociImage.layers, ociAt.layer, ociAt.entry) =
                 {p \in OciPaths(ociImage.layers) : OciVisible(ociImage.layers, p)}
    BY <2>2, <2>3, <2>4, OciSeenAll DEF OciCount
  <2>5. /\ OciFilled(ociTree, (DOMAIN ociTree) \ OciInjected, ociImage.layers, ociAt.layer,
                     ociAt.entry)
        /\ ociTree[<<"init">>] = "agent" /\ ociTree[<<"usr", "agent">>] = "agent"
    BY <1>1 DEF OciInv, OciFlattened
  <2>6. ASSUME NEW p \in (DOMAIN ociTree) \ OciInjected, NEW i \in DOMAIN ociImage.layers,
               NEW k \in DOMAIN ociImage.layers[i], OciLast(ociImage.layers, p, i, k)
        PROVE  ociTree[p] = OciMakes(ociImage.layers[i][k], p)
    <3>1. OciLastBefore(ociImage.layers, ociAt.layer, ociAt.entry, p, i, k)
      BY <2>2, <2>3, <2>6, OciFilledAll DEF OciCount
    <3> QED BY <2>5, <2>6, <3>1 DEF OciFilled
  <2> QED BY <2>1, <2>2, <2>4, <2>5, <2>6 DEF OciInjected
<1>2. ociStep \in {"imported", "failed"} =>
        ociSpool = {} /\ (ociDest = "built" <=> ociStep = "imported") /\ ociDest # "partial"
  BY DEF OciInv, OciPulled, OciPlacedFile
<1>3. ociStep # "failed" => ociCharged <= OciDownload /\ ociUnpacked <= OciUnpacked
  BY DEF OciInv, OciWithin
<1> QED BY <1>1, <1>2, <1>3 DEF OciFaithful

\* The configuration is charged before the first layer.
LEMMA OciConfigStep ==
  ASSUME OciInv, NEW size \in {1, OciDownload}, NEW good \in BOOLEAN, OciConfig(size, good)
  PROVE  OciInv'
<1>1. /\ ociStep = "config" /\ ociCharged' = ociCharged + size
      /\ UNCHANGED <<ociImage, ociAuth, ociSpool, ociOpened, ociUnpacked, ociAt, ociTree, ociDest>>
      /\ \/ ociStep' = "failed"
         \/ ociStep' = "pulling" /\ ~(ociCharged + size > OciDownload)
  BY DEF OciConfig, OciFlatState
<1>2. size \in Nat /\ ociCharged \in Nat  BY OciAssumption DEF OciInv, OciTypeOK
<1>3. OciTypeOK'  BY <1>1, <1>2 DEF OciInv, OciTypeOK, OciSteps
<1>4. OciPulled'
  <2>1. ociSpool' = {} /\ ociSpool' = 1..0 /\ ociImage'.corrupt \notin 1..0 /\ OciCount' = OciCount
    BY <1>1 DEF OciInv, OciPulled, OciCount
  <2>2. 0 \in 0..OciCount'
    BY <2>1 DEF OciInv, OciTypeOK, OciCount, OciGoodLayers
  <2> QED BY <1>1, <2>1, <2>2 DEF OciInv, OciPulled, OciSpooled
<1>5. OciFlattened'  BY <1>1 DEF OciInv, OciFlattened
<1>6. OciPlacedFile' /\ OciWithin'
  BY <1>1, <1>2, OciAssumption DEF OciInv, OciPlacedFile, OciWithin
<1> QED BY <1>3, <1>4, <1>5, <1>6 DEF OciInv

\* The manifest, or none.
LEMMA OciManifestSteps ==
  ASSUME OciInv,
         \/ OciChallenged \/ OciNoManifest
         \/ \E ls \in OciImages, d \in {1, OciDownload + 1} :
              \E c \in 0..Len(ls) : OciManifest(ls, d, c)
  PROVE  OciInv'
<1>1. CASE OciChallenged
  BY <1>1 DEF OciChallenged, OciFlatState, OciInv, OciTypeOK, OciPulled, OciSpooled,
              OciFlattened, OciPlacedFile, OciWithin, OciCount
<1>2. CASE OciNoManifest
  BY <1>2 DEF OciNoManifest, OciFail, OciPullState, OciFlatState, OciInv, OciTypeOK, OciSteps,
              OciPulled, OciFlattened, OciPlacedFile, OciWithin, OciCount
<1>3. ASSUME NEW ls \in OciImages, NEW d \in {1, OciDownload + 1}, NEW c \in 0..Len(ls),
             OciManifest(ls, d, c)
      PROVE  OciInv'
  <2>1. ls \in OciGoodLayers /\ Len(ls) \in Nat
    <3>1. PICK n \in 1..OciMaxLayers : ls \in [1..n -> OciLayers]  BY DEF OciImages
    <3>2. OciLayers \subseteq Seq(OciEntrySet)  BY OciAssumption DEF OciEntrySet
    <3>3. n \in Nat  OBVIOUS
    <3>4. ls \in Seq(Seq(OciEntrySet))  BY <3>1, <3>2, <3>3
    <3> QED BY <3>4 DEF OciGoodLayers
  <2>2. PICK i : i = [layers |-> ls, declared |-> d, corrupt |-> c]  OBVIOUS
  <2>3. /\ i \in [layers : OciGoodLayers, declared : Nat, corrupt : Nat]
        /\ i.layers = ls /\ i.corrupt = c /\ i.declared = d
    BY <2>1, <2>2, OciAssumption
  <2>4. /\ ociImage' = i /\ ociStep = "manifest" /\ ociStep' \in {"failed", "config"}
        /\ UNCHANGED <<ociAuth, ociCharged, ociSpool, ociOpened, ociUnpacked, ociAt, ociTree,
                       ociDest>>
    BY <1>3, <2>2 DEF OciManifest, OciFlatState
  <2>5. OciTypeOK'  BY <2>3, <2>4 DEF OciInv, OciTypeOK, OciSteps
  <2>6. OciPulled'
    <3>1. ociSpool' = {}
      BY <2>1, <2>4 DEF OciInv, OciPulled
    <3>2. ociImage'.corrupt = c /\ ociImage'.layers = ls /\ c <= Len(ls)  BY <2>1, <2>3, <2>4
    <3> QED BY <2>4, <3>1, <3>2 DEF OciPulled, OciSpooled, OciCount
  <2>7. OciFlattened'  BY <2>4 DEF OciInv, OciFlattened
  <2>8. OciPlacedFile' /\ OciWithin'  BY <2>4 DEF OciInv, OciPlacedFile, OciWithin
  <2> QED BY <2>5, <2>6, <2>7, <2>8 DEF OciInv
<1> QED BY <1>1, <1>2, <1>3

\* The next layer is downloaded, or the pull ends.
LEMMA OciDownloadStep ==
  ASSUME OciInv, NEW size \in {1, OciDownload}, OciDownloadLayer(size)
  PROVE  OciInv'
<1>1. PICK k \in 0..OciCount : OciSpooled(k)
  BY DEF OciDownloadLayer, OciInv, OciPulled
<1>2. k \in Nat /\ OciCount \in Nat
  BY DEF OciInv, OciTypeOK, OciCount, OciGoodLayers
<1>3. OciNextLayer = k + 1 /\ k + 1 \in 1..OciCount
  <2>1. Cardinality(1..k) = IF 1 > k THEN 0 ELSE k - 1 + 1  BY <1>2, FS_Interval
  <2>2. Cardinality(1..k) = k  BY <1>2, <2>1
  <2> QED BY <1>1, <1>2, <2>2 DEF OciSpooled, OciNextLayer, OciDownloadLayer
<1>4. size \in Nat /\ ociCharged \in Nat  BY OciAssumption DEF OciInv, OciTypeOK
<1>5. /\ ociStep = "pulling" /\ ociCharged' = ociCharged + size
      /\ UNCHANGED <<ociImage, ociAuth, ociOpened, ociUnpacked, ociAt, ociTree, ociDest>>
      /\ \/ ociStep' = "failed" /\ ociSpool' = {}
         \/ /\ ~(ociCharged + size > OciDownload \/ ociImage.corrupt = k + 1)
            /\ ociStep' = "pulling" /\ ociSpool' = ociSpool \union {k + 1}
  BY <1>3 DEF OciDownloadLayer, OciFlatState
<1>6. OciTypeOK'  BY <1>4, <1>5 DEF OciInv, OciTypeOK, OciSteps
<1>7. OciPulled'
  <2>1. CASE ociStep' = "failed" /\ ociSpool' = {}
    BY <1>5, <2>1 DEF OciInv, OciPulled, OciCount
  <2>2. CASE ~(ociStep' = "failed" /\ ociSpool' = {})
    <3>1. /\ ociImage.corrupt # k + 1 /\ ociSpool' = (1..k) \union {k + 1}
          /\ ociStep' = "pulling" /\ ociImage.corrupt \notin 1..k
      BY <1>1, <1>5, <2>2 DEF OciSpooled
    <3>2. (1..k) \union {k + 1} = 1..(k + 1)  BY <1>2
    <3>3. ociImage.corrupt \notin 1..(k + 1)  BY <3>1, <3>2
    <3>4. OciSpooled(k + 1)'  BY <1>5, <3>1, <3>2, <3>3 DEF OciSpooled
    <3>5. k + 1 \in 0..OciCount'  BY <1>2, <1>3, <1>5 DEF OciCount
    <3> QED BY <1>5, <3>1, <3>4, <3>5 DEF OciInv, OciPulled, OciCount
  <2> QED BY <2>1, <2>2
<1>8. OciFlattened'  BY <1>5 DEF OciInv, OciFlattened
<1>9. OciPlacedFile' /\ OciWithin'
  BY <1>4, <1>5, OciAssumption DEF OciInv, OciPlacedFile, OciWithin
<1> QED BY <1>6, <1>7, <1>8, <1>9 DEF OciInv

\* Every layer was spooled, so none was corrupt.
LEMMA OciOpenStep ==
  ASSUME OciInv, OciOpen
  PROVE  OciInv'
<1>1. PICK k \in 0..OciCount : OciSpooled(k)
  BY DEF OciOpen, OciInv, OciPulled
<1>2. k \in Nat /\ OciCount \in Nat
  BY DEF OciInv, OciTypeOK, OciCount, OciGoodLayers
<1>3. k = OciCount
  <2>1. Cardinality(1..k) = IF 1 > k THEN 0 ELSE k - 1 + 1  BY <1>2, FS_Interval
  <2>2. Cardinality(1..k) = k  BY <1>2, <2>1
  <2> QED BY <1>1, <1>2, <2>2 DEF OciSpooled, OciNextLayer, OciOpen
<1>4. ociImage.corrupt = 0
  <2>1. ociImage.corrupt \in Nat /\ ociImage.corrupt <= OciCount
    BY DEF OciInv, OciTypeOK, OciPulled
  <2> QED BY <1>1, <1>2, <1>3, <2>1 DEF OciSpooled
<1>5. /\ ociStep = "pulling" /\ ociStep' = "flattening" /\ ociSpool' = {}
      /\ UNCHANGED <<ociImage, ociAuth, ociCharged, ociUnpacked, ociAt, ociTree, ociDest>>
  BY DEF OciOpen
<1>6. OciTypeOK'  BY <1>5 DEF OciInv, OciTypeOK, OciSteps
<1>7. OciPulled'  BY <1>4, <1>5 DEF OciInv, OciPulled, OciCount
<1>8. OciFlattened'
  <2>1. ociAt = [layer |-> 1, entry |-> 1] /\ DOMAIN ociTree = {}
    BY <1>5 DEF OciInv, OciFlattened
  <2>2. ociAt.layer = 1 /\ ociAt.entry = 1  BY <2>1
  <2>3. OciSeen(ociImage.layers, 1, 1) = {}  BY OciSeenFirst DEF OciInv, OciTypeOK
  <2>4. OciFilled(ociTree, DOMAIN ociTree, ociImage.layers, 1, 1)  BY <2>1 DEF OciFilled
  <2> QED BY <1>5, <2>1, <2>2, <2>3, <2>4 DEF OciFlattened
<1>9. OciPlacedFile' /\ OciWithin'  BY <1>5 DEF OciInv, OciPlacedFile, OciWithin
<1> QED BY <1>6, <1>7, <1>8, <1>9 DEF OciInv

\* One entry is applied, a layer ends, or the extraction does.
LEMMA OciUnpackStep ==
  ASSUME OciInv, OciUnpack
  PROVE  OciInv'
<1>1. PICK L : L = ociImage.layers  OBVIOUS
<1>2. PICK l : l = ociAt.layer  OBVIOUS
<1>3. PICK m : m = ociAt.entry  OBVIOUS
<1>4. L \in OciGoodLayers /\ l \in Nat \ {0} /\ m \in Nat \ {0} /\ ociUnpacked \in Nat
  BY <1>1, <1>2, <1>3 DEF OciInv, OciTypeOK
<1>5. l \in DOMAIN L /\ Len(L[l]) \in Nat /\ DOMAIN L[l] = 1..Len(L[l])
  <2>1. l \in DOMAIN L  BY <1>1, <1>2, <1>4 DEF OciUnpack, OciCount, OciGoodLayers
  <2> QED BY <1>4, <2>1, OciLayerFacts
<1>6. DOMAIN ociTree = OciSeen(L, l, m) /\ OciFilled(ociTree, DOMAIN ociTree, L, l, m)
  BY <1>1, <1>2, <1>3 DEF OciUnpack, OciInv, OciFlattened
<1>7. /\ ociStep = "flattening"
      /\ UNCHANGED <<ociImage, ociAuth, ociCharged, ociSpool, ociOpened, ociDest>>
  BY DEF OciUnpack
<1>8. CASE m > Len(L[l])
  <2>1. /\ ociAt' = [layer |-> l + 1, entry |-> 1] /\ UNCHANGED <<ociStep, ociUnpacked, ociTree>>
    BY <1>1, <1>2, <1>3, <1>8 DEF OciUnpack
  <2>2. OciSeen(L, l + 1, 1) = OciSeen(L, l, m)  BY <1>4, <1>5, <1>8, OciLayerEnds
  <2>3. ociAt' \in [layer : Nat \ {0}, entry : Nat \ {0}] /\ ociAt'.layer = l + 1
        /\ ociAt'.entry = 1
    BY <1>4, <2>1
  <2>4. OciTypeOK'  BY <1>7, <2>1, <2>3 DEF OciInv, OciTypeOK
  <2>5. OciPulled'  BY <1>7, <2>1 DEF OciInv, OciPulled, OciCount
  <2>8. OciFilled(ociTree, DOMAIN ociTree, L, l + 1, 1)
    BY <1>4, <1>5, <1>6, <1>8, OciFilledEnds
  <2>6. OciFlattened'  BY <1>1, <1>6, <1>7, <2>1, <2>2, <2>3, <2>8 DEF OciFlattened
  <2>7. OciPlacedFile' /\ OciWithin'  BY <1>7, <2>1 DEF OciInv, OciPlacedFile, OciWithin
  <2> QED BY <2>4, <2>5, <2>6, <2>7 DEF OciInv
<1>9. CASE ~(m > Len(L[l])) /\ ociStep' = "failed"
  <2>1. ociUnpacked' = ociUnpacked + 1 /\ (ociAt' = ociAt)
    BY <1>1, <1>2, <1>3, <1>7, <1>9 DEF OciUnpack
  <2>2. OciTypeOK'  BY <1>4, <1>7, <1>9, <2>1 DEF OciInv, OciTypeOK, OciSteps
  <2>3. OciPulled'  BY <1>7, <1>9 DEF OciInv, OciPulled, OciCount
  <2>4. OciFlattened'  BY <1>9 DEF OciFlattened
  <2>5. OciPlacedFile' /\ OciWithin'  BY <1>7, <1>9 DEF OciInv, OciPlacedFile, OciWithin
  <2> QED BY <2>2, <2>3, <2>4, <2>5 DEF OciInv
<1>10. CASE ~(m > Len(L[l])) /\ ociStep' # "failed"
  <2>1. m \in DOMAIN L[l]  BY <1>4, <1>5, <1>10
  <2>2. PICK e : e = L[l][m]  OBVIOUS
  <2>3. /\ ~(ociUnpacked + 1 > OciUnpacked) /\ e.kind # "unsafe"
        /\ ociUnpacked' = ociUnpacked + 1 /\ ociStep' = ociStep
        /\ ociAt' = [ociAt EXCEPT !.entry = @ + 1] /\ ociTree' = OciApplied(ociTree, e)
    BY <1>1, <1>2, <1>3, <1>10, <2>2 DEF OciUnpack, OciEntry
  <2>4. DOMAIN ociTree' = OciSeen(L, l, m + 1)
    BY <1>4, <1>5, <1>6, <2>1, <2>2, <2>3, OciAppliedDomain
  <2>11. OciFilled(ociTree', DOMAIN ociTree', L, l, m + 1)
    <3>1. DOMAIN OciApplied(ociTree, L[l][m]) = OciSeen(L, l, m + 1)  BY <2>2, <2>3, <2>4
    <3>2. OciFilled(OciApplied(ociTree, L[l][m]), DOMAIN OciApplied(ociTree, L[l][m]), L, l, m + 1)
      BY <1>4, <1>5, <1>6, <2>1, <2>2, <2>3, <3>1, OciAppliedFills
    <3> QED BY <2>2, <2>3, <3>2
  <2>5. /\ ociAt' \in [layer : Nat \ {0}, entry : Nat \ {0}]
        /\ ociAt'.layer = l /\ ociAt'.entry = m + 1
    BY <1>2, <1>3, <1>4, <2>3 DEF OciInv, OciTypeOK
  <2>6. OciTypeOK'  BY <1>4, <1>7, <2>3, <2>5 DEF OciInv, OciTypeOK
  <2>7. OciPulled'  BY <1>7, <2>3 DEF OciInv, OciPulled, OciCount
  <2>8. OciFlattened'  BY <1>1, <1>7, <2>3, <2>4, <2>5, <2>11 DEF OciFlattened
  <2>9. OciPlacedFile'  BY <1>7, <2>3 DEF OciInv, OciPlacedFile
  <2>10. OciWithin'  BY <1>4, <1>7, <2>3, OciAssumption DEF OciInv, OciWithin
  <2> QED BY <2>6, <2>7, <2>8, <2>9, <2>10 DEF OciInv
<1> QED BY <1>8, <1>9, <1>10

\* The agent is added and the file system built.
LEMMA OciBuildSteps ==
  ASSUME OciInv, OciBuild \/ \E ok \in BOOLEAN : OciBuilt(ok)
  PROVE  OciInv'
<1>1. CASE OciBuild
  <2>1. /\ ociStep = "flattening" /\ ociAt.layer > OciCount /\ ociStep' = "building"
        /\ ociDest' = "partial"
        /\ UNCHANGED <<ociImage, ociAuth, ociCharged, ociSpool, ociOpened, ociUnpacked, ociAt>>
    BY <1>1 DEF OciBuild, OciPullState
  <2>2. DOMAIN ociTree' = (DOMAIN ociTree) \cup OciInjected
    <3>1. \A t, p, c : DOMAIN OciWith(t, p, c) = (DOMAIN t) \union {p}  BY DEF OciWith
    <3>2. PICK a : a = OciWith(ociTree, <<"usr">>, "dir")  OBVIOUS
    <3>3. PICK b : b = OciWith(a, <<"usr", "agent">>, "agent")  OBVIOUS
    <3>4. ociTree' = OciWith(b, <<"init">>, "agent")  BY <1>1, <3>2, <3>3 DEF OciBuild
    <3>5. DOMAIN a = (DOMAIN ociTree) \union {<<"usr">>}  BY <3>1, <3>2, Zenon
    <3>6. DOMAIN b = (DOMAIN a) \union {<<"usr", "agent">>}  BY <3>1, <3>3, Zenon
    <3>7. DOMAIN ociTree' = (DOMAIN b) \union {<<"init">>}  BY <3>1, <3>4, Zenon
    <3>8. \A x, y, z, D : ((D \union {x}) \union {y}) \union {z} = D \cup {x, y, z}  OBVIOUS
    <3> QED BY <3>5, <3>6, <3>7, <3>8, Zenon DEF OciInjected
  <2>3. OciTypeOK'  BY <2>1 DEF OciInv, OciTypeOK, OciSteps
  <2>4. OciPulled'  BY <2>1 DEF OciInv, OciPulled, OciCount
  <2>7. /\ ociTree'[<<"init">>] = "agent" /\ ociTree'[<<"usr", "agent">>] = "agent"
        /\ \A p \in (DOMAIN ociTree) \ OciInjected : ociTree'[p] = ociTree[p]
    <3>1. PICK x : x = <<"usr">>  OBVIOUS
    <3>2. PICK y : y = <<"usr", "agent">>  OBVIOUS
    <3>3. PICK z : z = <<"init">>  OBVIOUS
    <3>4. y # z /\ OciInjected = {x, y, z}  BY <3>1, <3>2, <3>3 DEF OciInjected
    <3>5. ociTree' = OciWith(OciWith(OciWith(ociTree, x, "dir"), y, "agent"), z, "agent")
      BY <1>1, <3>1, <3>2, <3>3 DEF OciBuild
    <3>6. PICK a : a = OciWith(ociTree, x, "dir")  OBVIOUS
    <3>7. PICK b : b = OciWith(a, y, "agent")  OBVIOUS
    <3>8. DOMAIN a = (DOMAIN ociTree) \union {x} /\ \A p \in DOMAIN ociTree : p # x => a[p] = ociTree[p]
      BY <3>6 DEF OciWith
    <3>9. /\ DOMAIN b = (DOMAIN a) \union {y} /\ b[y] = "agent"
          /\ \A p \in DOMAIN a : p # y => b[p] = a[p]
      BY <3>7 DEF OciWith
    <3>10. /\ ociTree'[z] = "agent" /\ \A p \in DOMAIN b : p # z => ociTree'[p] = b[p]
      BY <3>5, <3>6, <3>7 DEF OciWith
    <3>11. ociTree'[y] = "agent"  BY <3>4, <3>9, <3>10
    <3>12. ASSUME NEW p \in (DOMAIN ociTree) \ OciInjected PROVE ociTree'[p] = ociTree[p]
      BY <3>4, <3>8, <3>9, <3>10
    <3> QED BY <3>2, <3>3, <3>10, <3>11, <3>12
  <2>8. OciFilled(ociTree', (DOMAIN ociTree') \ OciInjected, ociImage.layers, ociAt.layer,
                  ociAt.entry)
    <3>1. OciFilled(ociTree, DOMAIN ociTree, ociImage.layers, ociAt.layer, ociAt.entry)
      BY <2>1 DEF OciInv, OciFlattened
    <3> QED BY <2>2, <2>7, <3>1 DEF OciFilled
  <2>5. OciFlattened'  BY <2>1, <2>2, <2>7, <2>8 DEF OciInv, OciFlattened, OciCount
  <2>6. OciPlacedFile' /\ OciWithin'  BY <2>1 DEF OciInv, OciPlacedFile, OciWithin
  <2> QED BY <2>3, <2>4, <2>5, <2>6 DEF OciInv
<1>2. ASSUME NEW ok \in BOOLEAN, OciBuilt(ok) PROVE OciInv'
  <2>1. /\ ociStep = "building"
        /\ \/ ociStep' = "imported" /\ ociDest' = "built"
           \/ ociStep' = "failed" /\ ociDest' = "absent"
        /\ UNCHANGED <<ociImage, ociAuth, ociCharged, ociSpool, ociOpened, ociUnpacked, ociAt,
                       ociTree>>
    BY <1>2 DEF OciBuilt, OciPullState, OciFlatState
  <2>2. OciTypeOK'  BY <2>1 DEF OciInv, OciTypeOK, OciSteps
  <2>3. OciPulled'  BY <2>1 DEF OciInv, OciPulled, OciCount
  <2>4. OciFlattened'  BY <2>1 DEF OciInv, OciFlattened, OciCount
  <2>5. OciPlacedFile' /\ OciWithin'  BY <2>1 DEF OciInv, OciPlacedFile, OciWithin
  <2> QED BY <2>2, <2>3, <2>4, <2>5 DEF OciInv
<1> QED BY <1>1, <1>2

\* Every step of an import keeps the invariant.
LEMMA OciStepInv ==
  ASSUME OciInv, [OciNext]_ociVars
  PROVE  OciInv'
<1>1. CASE UNCHANGED ociVars
  BY <1>1 DEF ociVars, OciInv, OciTypeOK, OciPulled, OciSpooled, OciFlattened, OciPlacedFile,
              OciWithin, OciCount
<1>2. CASE OciNext
  BY <1>2, OciManifestSteps, OciConfigStep, OciDownloadStep, OciOpenStep, OciUnpackStep, OciBuildSteps
     DEF OciNext
<1> QED BY <1>1, <1>2

(***************************************************************************)
(* MacImages: a name's bundle and attachment, what every command knows at  *)
(* its place, and which commands can be under way beside each other.       *)
(***************************************************************************)

MacFirst(s, k) == {s[i] : i \in 1..k}

MacDisks == [os : BOOLEAN, agent : SUBSET MacTotal(MacAgentFiles), clean : BOOLEAN]
MacBundles == [parts : SUBSET MacTotal(MacArtifacts), manifest : {"none", "bare", "agent"},
               disk : MacDisks]
MacPlaces == MacBundles \cup {MacNoBundle}

MacInstalls ==
  [kind : {"install"}, name : MacNames,
   at : {"fetch", "get", "body", "load", "write", "run", "manifest", "publish", "tidy"},
   download : BOOLEAN, keep : BOOLEAN, build : BOOLEAN, own : BOOLEAN]
MacProvisions ==
  [kind : {"provision"}, name : MacNames,
   at : {"unseal", "attach", "mount", "write", "detach", "drop", "seal"},
   lock : {"exclusive"}, wrote : 0..3, signalled : BOOLEAN]
MacCreates ==
  [kind : {"create"}, name : MacNames, at : {"disk", "aux", "boot"},
   lock : {"shared", "none"}, disk : MacDisks]
MacCommands == MacInstalls \cup MacProvisions \cup MacCreates \cup {MacIdle}
MacMounts == {"off", "attached", "mounted"}

MacTypeOK ==
  /\ macDir \in [MacNames -> MacPlaces] /\ macStage \in [MacNames -> MacPlaces]
  /\ macMount \in [MacNames -> MacMounts] /\ macOp \in [MacProcs -> MacCommands]
  /\ macIpsw \in {MacNoFile, MacSize}

\* A published bundle is a finished install, and ready only when whole.
MacNameOK(b, m) ==
  b # MacNoBundle =>
    /\ b.manifest # "none" /\ b.parts = MacTotal(MacArtifacts) /\ b.disk.os
    /\ b.manifest = "agent" => MacWholeDisk(b.disk) /\ m = "off"

\* The staging bundle of an install that has written k artifacts.
MacOsDisk == [os |-> TRUE, agent |-> {}, clean |-> TRUE]
MacStageOf(k, disk, manifest) ==
  [parts |-> MacFirst(MacArtifacts, k), manifest |-> manifest, disk |-> disk]

MacStaged == {"write", "run", "manifest", "publish"}

MacInstallOK(o, b, s, i) ==
  /\ o.at # "tidy" => b = MacNoBundle
  /\ o.at = "fetch" => ~o.build
  /\ o.at # "fetch" /\ o.download => o.build
  /\ o.own => o.build
  /\ o.at \in MacStaged => s # MacNoBundle /\ (o.download => i # MacNoFile)
  /\ o.at = "write" => \E k \in 0..3 : s = MacStageOf(k, MacBlankDisk, "none")
  /\ o.at = "run" => s = MacStageOf(4, MacBlankDisk, "none")
  /\ o.at = "manifest" => s = MacStageOf(4, MacOsDisk, "none")
  /\ o.at = "publish" => s = MacStageOf(4, MacOsDisk, "bare")

MacProvisionOK(o, b, m) ==
  /\ b # MacNoBundle
  /\ o.at # "unseal" => b.manifest = "bare"
  /\ MacFirst(MacAgentFiles, o.wrote) \subseteq b.disk.agent
  /\ o.at \in {"unseal", "attach", "mount"} => o.wrote = 0
  /\ o.at = "write" => o.wrote < 3
  /\ o.at \in {"detach", "seal"} => o.wrote = 3
  /\ o.at = "seal" => m = "off" /\ b.disk.clean

MacCreateOK(o, b) ==
  /\ o.at \in {"disk", "aux"} => o.lock = "shared"
  /\ o.lock = "shared" => b # MacNoBundle /\ b.manifest = "agent"
  /\ o.at # "disk" => MacWholeDisk(o.disk)

MacOpOK(o, b, s, m, i) ==
  /\ o.kind = "install" => MacInstallOK(o, b, s, i)
  /\ o.kind = "provision" => MacProvisionOK(o, b, m)
  /\ o.kind = "create" => MacCreateOK(o, b)

MacHolds(o, D, S, M, i) == o.kind # "idle" => MacOpOK(o, D[o.name], S[o.name], M[o.name], i)

\* Two commands beside each other: the locks.
MacExcludes(a, b) ==
  /\ a.kind = "install" /\ b.kind = "install" => a.name # b.name /\ ~(a.build /\ b.build)
  /\ a.kind = "provision" /\ b.kind \in {"provision", "create"} /\ a.name = b.name =>
       b.kind = "create" /\ b.lock = "none"
MacApart(a, b) == MacExcludes(a, b) /\ MacExcludes(b, a)

MacInv ==
  /\ MacTypeOK
  /\ \A n \in MacNames : MacNameOK(macDir[n], macMount[n])
  /\ \A d \in macVms : MacWholeDisk(d)
  /\ \A p \in MacProcs : MacHolds(macOp[p], macDir, macStage, macMount, macIpsw)
  /\ \A p, q \in MacProcs : p # q => MacApart(macOp[p], macOp[q])

\* The kinds of commands.
LEMMA MacKinds ==
  ASSUME NEW o \in MacCommands
  PROVE  /\ o.kind \in {"install", "provision", "create", "idle"}
         /\ o.kind = "install" => o \in MacInstalls
         /\ o.kind = "provision" => o \in MacProvisions
         /\ o.kind = "create" => o \in MacCreates
         /\ o.kind = "idle" => o = MacIdle
         /\ o.kind # "idle" => o.name \in MacNames
BY DEF MacCommands, MacInstalls, MacProvisions, MacCreates, MacIdle

\* Nothing is there at first.
LEMMA MacInitInv == MacInit => MacInv
<1> SUFFICES ASSUME MacInit PROVE MacInv  OBVIOUS
<1>1. \A p \in MacProcs : macOp[p].kind = "idle"  BY DEF MacInit, MacIdle
<1>2. MacTypeOK  BY DEF MacInit, MacTypeOK, MacPlaces, MacMounts, MacCommands
<1>3. \A n \in MacNames : macDir[n] = MacNoBundle  BY DEF MacInit
<1>4. macVms = {}  BY DEF MacInit
<1> QED BY <1>1, <1>2, <1>3, <1>4 DEF MacInv, MacNameOK, MacHolds, MacApart, MacExcludes

\* The invariant says that what VMs clone is sound.
LEMMA MacInvSound == MacInv => MacSound
<1> SUFFICES ASSUME MacInv PROVE MacSound  OBVIOUS
<1>1. MacTotal(MacArtifacts) = {"hardware_model", "machine_identifier", "aux", "disk"}
  BY DEF MacTotal, MacArtifacts
<1>2. ASSUME NEW n \in MacNames, macDir[n] # MacNoBundle
      PROVE  /\ MacValid(macDir[n])
             /\ macDir[n].parts = MacTotal(MacArtifacts) /\ macDir[n].disk.os
             /\ macDir[n].manifest = "agent" => MacWholeDisk(macDir[n].disk) /\ macMount[n] = "off"
  BY <1>1, <1>2 DEF MacInv, MacNameOK, MacValid
<1>3. ASSUME NEW p \in MacProcs, macOp[p].kind = "install",
             macOp[p].at \in {"write", "run", "manifest", "publish"}
      PROVE  MacSourceThere(p) /\ macStage[macOp[p].name] # MacNoBundle
  BY <1>3 DEF MacInv, MacHolds, MacOpOK, MacInstallOK, MacStaged, MacSourceThere
<1>4. macIpsw \in {MacNoFile, MacSize} /\ \A d \in macVms : MacWholeDisk(d)
  BY DEF MacInv, MacTypeOK
<1> QED BY <1>2, <1>3, <1>4 DEF MacSound

\* A command beside one that takes a step on a name.
MacBeside(u, n, o, b, s, m, i) ==
  /\ MacApart(o, u)
  /\ u.kind # "idle" /\ u.name = n => MacOpOK(u, b, s, m, i)
  /\ u.kind # "idle" /\ u.name # n =>
       MacOpOK(u, macDir[u.name], macStage[u.name], macMount[u.name], i)

\* A step of one command, which changes its own name's things and perhaps
\* the restore image.
MacTurn(p, n, o, b, s, m, i) ==
  /\ o \in MacCommands /\ (o.kind # "idle" => o.name = n)
  /\ b \in MacPlaces /\ s \in MacPlaces /\ m \in MacMounts /\ i \in {MacNoFile, MacSize}
  /\ macOp' = [macOp EXCEPT ![p] = o] /\ macDir' = [macDir EXCEPT ![n] = b]
  /\ macStage' = [macStage EXCEPT ![n] = s] /\ macMount' = [macMount EXCEPT ![n] = m]
  /\ macIpsw' = i /\ (\A d \in macVms' : MacWholeDisk(d))
  /\ MacNameOK(b, m) /\ (o.kind # "idle" => MacOpOK(o, b, s, m, i))
  /\ \A q \in MacProcs \ {p} : MacBeside(macOp[q], n, o, b, s, m, i)

\* Such a step keeps the invariant.
LEMMA MacStep ==
  ASSUME MacInv, NEW p \in MacProcs, NEW n \in MacNames, NEW o, NEW b, NEW s, NEW m, NEW i,
         MacTurn(p, n, o, b, s, m, i)
  PROVE  MacInv'
<1>0. /\ o \in MacCommands /\ (o.kind # "idle" => o.name = n)
      /\ b \in MacPlaces /\ s \in MacPlaces /\ m \in MacMounts /\ i \in {MacNoFile, MacSize}
      /\ macOp' = [macOp EXCEPT ![p] = o] /\ macDir' = [macDir EXCEPT ![n] = b]
      /\ macStage' = [macStage EXCEPT ![n] = s] /\ macMount' = [macMount EXCEPT ![n] = m]
      /\ macIpsw' = i /\ (\A d \in macVms' : MacWholeDisk(d))
      /\ MacNameOK(b, m) /\ (o.kind # "idle" => MacOpOK(o, b, s, m, i))
      /\ \A q \in MacProcs \ {p} :
           /\ MacApart(o, macOp[q])
           /\ macOp[q].kind # "idle" /\ macOp[q].name = n => MacOpOK(macOp[q], b, s, m, i)
           /\ macOp[q].kind # "idle" /\ macOp[q].name # n =>
                MacOpOK(macOp[q], macDir[macOp[q].name], macStage[macOp[q].name],
                        macMount[macOp[q].name], i)
  BY DEF MacTurn, MacBeside
<1>1. MacTypeOK'  BY <1>0 DEF MacInv, MacTypeOK
<1>2. ASSUME NEW x \in MacNames PROVE MacNameOK(macDir'[x], macMount'[x])
  BY <1>0 DEF MacInv, MacTypeOK
<1>3. ASSUME NEW q \in MacProcs PROVE MacHolds(macOp'[q], macDir', macStage', macMount', macIpsw')
  <2>1. CASE q = p
    <3>1. macOp'[q] = o  BY <1>0, <2>1 DEF MacInv, MacTypeOK
    <3>2. macDir'[n] = b /\ macStage'[n] = s /\ macMount'[n] = m  BY <1>0 DEF MacInv, MacTypeOK
    <3> QED BY <1>0, <3>1, <3>2 DEF MacHolds
  <2>2. CASE q # p
    <3>1. PICK u : u = macOp[q]  OBVIOUS
    <3>2. macOp'[q] = u /\ u \in MacCommands  BY <1>0, <2>2, <3>1 DEF MacInv, MacTypeOK
    <3>3. CASE u.kind = "idle"  BY <3>2, <3>3 DEF MacHolds
    <3>4. CASE u.kind # "idle" /\ u.name = n
      <4>1. macDir'[n] = b /\ macStage'[n] = s /\ macMount'[n] = m  BY <1>0 DEF MacInv, MacTypeOK
      <4>2. MacOpOK(u, b, s, m, i)  BY <1>0, <2>2, <3>1, <3>4
      <4> QED BY <1>0, <3>2, <3>4, <4>1, <4>2 DEF MacHolds
    <3>5. CASE u.kind # "idle" /\ u.name # n
      <4>0. u.name \in MacNames  BY <3>2, <3>5, MacKinds
      <4>1. /\ macDir'[u.name] = macDir[u.name] /\ macStage'[u.name] = macStage[u.name]
            /\ macMount'[u.name] = macMount[u.name]
        BY <1>0, <3>5, <4>0 DEF MacInv, MacTypeOK
      <4>2. MacOpOK(u, macDir[u.name], macStage[u.name], macMount[u.name], i)
        BY <1>0, <2>2, <3>1, <3>5
      <4> QED BY <1>0, <3>2, <3>5, <4>1, <4>2 DEF MacHolds
    <3> QED BY <3>3, <3>4, <3>5
  <2> QED BY <2>1, <2>2
<1>4. ASSUME NEW q \in MacProcs, NEW r \in MacProcs, q # r PROVE MacApart(macOp'[q], macOp'[r])
  <2>1. \A c, d : MacApart(c, d) => MacApart(d, c)  BY DEF MacApart
  <2>2. \A x \in MacProcs : macOp'[x] = IF x = p THEN o ELSE macOp[x]
    BY <1>0 DEF MacInv, MacTypeOK
  <2>3. CASE q = p  BY <1>0, <1>4, <2>2, <2>3
  <2>4. CASE r = p  BY <1>0, <1>4, <2>1, <2>2, <2>4
  <2>5. CASE q # p /\ r # p  BY <1>4, <2>2, <2>5 DEF MacInv
  <2> QED BY <2>3, <2>4, <2>5
<1> QED BY <1>0, <1>1, <1>2, <1>3, <1>4 DEF MacInv

\* What is known of a command under way.
LEMMA MacFacts ==
  ASSUME MacInv, NEW p \in MacProcs, macOp[p].kind # "idle"
  PROVE  /\ macOp[p] \in MacCommands /\ macOp[p].name \in MacNames
         /\ MacOpOK(macOp[p], macDir[macOp[p].name], macStage[macOp[p].name],
                    macMount[macOp[p].name], macIpsw)
         /\ \A q \in MacProcs \ {p} : MacApart(macOp[p], macOp[q])
<1>1. macOp[p] \in MacCommands  BY DEF MacInv, MacTypeOK
<1>2. macOp[p].name \in MacNames  BY <1>1, MacKinds
<1> QED BY <1>1, <1>2 DEF MacInv, MacHolds

\* What is known of an image name.
LEMMA MacNameFacts ==
  ASSUME MacInv, NEW n \in MacNames
  PROVE  /\ macDir[n] \in MacPlaces /\ macStage[n] \in MacPlaces /\ macMount[n] \in MacMounts
         /\ macIpsw \in {MacNoFile, MacSize} /\ MacNameOK(macDir[n], macMount[n])
         /\ \A d \in macVms : MacWholeDisk(d)
         /\ macDir = [macDir EXCEPT ![n] = macDir[n]]
         /\ macStage = [macStage EXCEPT ![n] = macStage[n]]
         /\ macMount = [macMount EXCEPT ![n] = macMount[n]]
BY DEF MacInv, MacTypeOK

\* What one command relies on that the others' things do not touch.
LEMMA MacUntouched ==
  ASSUME NEW u, NEW b, NEW s, NEW m, NEW i, MacOpOK(u, b, s, m, i)
  PROVE  /\ u.kind # "install" => \A t, j : MacOpOK(u, b, t, m, j)
         /\ i = MacNoFile => \A j : MacOpOK(u, b, s, m, j)
         /\ \A j : j # MacNoFile => MacOpOK(u, b, s, m, j)
BY DEF MacOpOK, MacInstallOK

\* Locks go by kind, name and what is held.
LEMMA MacSameLocks ==
  ASSUME NEW u, NEW o, NEW x, MacApart(u, x), o.kind = u.kind, o.name = u.name,
         o.kind = "install" => (o.build <=> u.build),
         o.kind = "create" => o.lock \in {u.lock, "none"}
  PROVE  MacApart(o, x)
BY DEF MacApart, MacExcludes

\* A process without a command excludes nobody.
LEMMA MacIdleApart ==
  ASSUME NEW x PROVE MacApart(MacIdle, x) /\ MacIdle \in MacCommands /\ MacIdle.kind = "idle"
BY DEF MacApart, MacExcludes, MacIdle, MacCommands

\* A command changes its own record and nothing else.
LEMMA MacOwnStep ==
  ASSUME MacInv, NEW p \in MacProcs, NEW n \in MacNames, NEW o \in MacCommands,
         macOp' = [macOp EXCEPT ![p] = o],
         o.kind # "idle" =>
           o.name = n /\ MacOpOK(o, macDir[n], macStage[n], macMount[n], macIpsw),
         \A q \in MacProcs \ {p} : MacApart(o, macOp[q]),
         UNCHANGED <<macDir, macStage, macMount, macIpsw>>,
         \A d \in macVms' : MacWholeDisk(d)
  PROVE  MacInv'
<1>1. PICK b, s, m, i : b = macDir[n] /\ s = macStage[n] /\ m = macMount[n] /\ i = macIpsw
  OBVIOUS
<1>2. /\ b \in MacPlaces /\ s \in MacPlaces /\ m \in MacMounts /\ i \in {MacNoFile, MacSize}
      /\ MacNameOK(b, m)
  BY <1>1, MacNameFacts
<1>3. /\ macDir' = [macDir EXCEPT ![n] = b] /\ macStage' = [macStage EXCEPT ![n] = s]
      /\ macMount' = [macMount EXCEPT ![n] = m] /\ macIpsw' = i
  BY <1>1, MacNameFacts
<1>4. \A q \in MacProcs \ {p} : MacBeside(macOp[q], n, o, b, s, m, i)
  BY <1>1, MacFacts DEF MacBeside
<1>5. (o.kind # "idle" => o.name = n) /\ (o.kind # "idle" => MacOpOK(o, b, s, m, i))
  BY <1>1
<1>6. MacTurn(p, n, o, b, s, m, i)  BY <1>2, <1>3, <1>4, <1>5 DEF MacTurn
<1> QED BY <1>6, MacStep

\* A command ends, or is killed.
LEMMA MacEnds ==
  ASSUME MacInv, NEW p \in MacProcs, macOp[p].kind # "idle", MacEnd(p),
         UNCHANGED <<macDir, macStage, macMount, macIpsw>>,
         \A d \in macVms' : MacWholeDisk(d)
  PROVE  MacInv'
<1>1. PICK n \in MacNames : n = macOp[p].name  BY MacFacts
<1>2. macOp' = [macOp EXCEPT ![p] = MacIdle]  BY DEF MacEnd
<1> QED BY <1>2, MacIdleApart, MacOwnStep

\* An install goes on, or ends, and changes its staging bundle.
LEMMA MacStageStep ==
  ASSUME MacInv, NEW p \in MacProcs, macOp[p].kind = "install",
         NEW n \in MacNames, n = macOp[p].name, NEW o \in MacCommands,
         o = MacIdle \/ (/\ o.kind = "install" /\ o.name = n /\ (o.build <=> macOp[p].build)),
         NEW s \in MacPlaces, o.kind # "idle" => MacInstallOK(o, macDir[n], s, macIpsw),
         macOp' = [macOp EXCEPT ![p] = o], macStage' = [macStage EXCEPT ![n] = s],
         UNCHANGED <<macDir, macMount, macIpsw, macVms>>
  PROVE  MacInv'
<1>1. PICK b, m, i : b = macDir[n] /\ m = macMount[n] /\ i = macIpsw  OBVIOUS
<1>2. /\ b \in MacPlaces /\ m \in MacMounts /\ i \in {MacNoFile, MacSize} /\ MacNameOK(b, m)
      /\ \A d \in macVms' : MacWholeDisk(d)
  BY <1>1, MacNameFacts
<1>3. macDir' = [macDir EXCEPT ![n] = b] /\ macMount' = [macMount EXCEPT ![n] = m]
      /\ macIpsw' = i
  BY <1>1, MacNameFacts
<1>4. ASSUME NEW q \in MacProcs \ {p}
      PROVE  MacBeside(macOp[q], n, o, b, s, m, i)
  <2>1. MacApart(macOp[p], macOp[q])  BY MacFacts
  <2>2. MacApart(o, macOp[q])
    <3>1. CASE o = MacIdle  BY <3>1, MacIdleApart
    <3>2. CASE o # MacIdle
      <4>1. /\ o.kind = macOp[p].kind /\ o.name = macOp[p].name /\ o.kind = "install"
            /\ (o.build <=> macOp[p].build)
        BY <3>2
      <4> QED BY <2>1, <4>1, MacSameLocks
    <3> QED BY <3>1, <3>2
  <2>3. ASSUME macOp[q].kind # "idle", macOp[q].name = n PROVE MacOpOK(macOp[q], b, s, m, i)
    <3>1. macOp[q].kind # "install"  BY <2>1, <2>3 DEF MacApart, MacExcludes
    <3>2. MacOpOK(macOp[q], b, macStage[n], m, i)  BY <1>1, <2>3, MacFacts
    <3> QED BY <3>1, <3>2, MacUntouched
  <2>4. ASSUME macOp[q].kind # "idle"
        PROVE  MacOpOK(macOp[q], macDir[macOp[q].name], macStage[macOp[q].name],
                       macMount[macOp[q].name], i)
    BY <1>1, <2>4, MacFacts
  <2> QED BY <2>2, <2>3, <2>4 DEF MacBeside
<1>5. (o.kind # "idle" => o.name = n) /\ (o.kind # "idle" => MacOpOK(o, b, s, m, i))
  BY <1>1, MacIdleApart DEF MacOpOK
<1>6. MacTurn(p, n, o, b, s, m, i)  BY <1>2, <1>3, <1>4, <1>5 DEF MacTurn
<1> QED BY <1>6, MacStep

\* An install begins: its name is free and nothing is published there.
LEMMA MacInstallStep ==
  ASSUME MacInv, NEW p \in MacProcs, NEW n \in MacNames, NEW download \in BOOLEAN,
         NEW keep \in BOOLEAN, MacInstall(p, n, download, keep)
  PROVE  MacInv'
<1>0. PICK a \in {"fetch", "load"} : a = IF download THEN "fetch" ELSE "load"  OBVIOUS
<1>1. PICK o : o = [kind |-> "install", name |-> n, at |-> a, download |-> download,
                    keep |-> keep, build |-> FALSE, own |-> FALSE]
  OBVIOUS
<1>2. /\ o \in MacInstalls /\ o.kind = "install" /\ o.name = n /\ o.at = a /\ ~o.build /\ ~o.own
      /\ (a = "load" => ~o.download)
  BY <1>0, <1>1 DEF MacInstalls
<1>3. o \in MacCommands  BY <1>2 DEF MacCommands
<1>4. PICK b, s, m, i : b = macDir[n] /\ s = MacNoBundle /\ m = macMount[n] /\ i = macIpsw
  OBVIOUS
<1>5. /\ b = MacNoBundle /\ MacNameFree(n) /\ macStage' = [macStage EXCEPT ![n] = s]
      /\ macOp' = [macOp EXCEPT ![p] = o] /\ UNCHANGED <<macIpsw, macDir, macMount, macVms>>
  BY <1>0, <1>1, <1>4, Zenon DEF MacInstall, MacBundlesAlone
<1>6. /\ b \in MacPlaces /\ s \in MacPlaces /\ m \in MacMounts /\ i \in {MacNoFile, MacSize}
      /\ MacNameOK(b, m) /\ \A d \in macVms' : MacWholeDisk(d)
      /\ macDir' = [macDir EXCEPT ![n] = b] /\ macMount' = [macMount EXCEPT ![n] = m]
      /\ macIpsw' = i
  BY <1>4, <1>5, MacNameFacts DEF MacPlaces
<1>7. MacOpOK(o, b, s, m, i)
  BY <1>2, <1>5 DEF MacOpOK, MacInstallOK, MacStaged
<1>8. ASSUME NEW q \in MacProcs \ {p}
      PROVE  MacBeside(macOp[q], n, o, b, s, m, i)
  <2>1. ~(macOp[q].kind = "install" /\ macOp[q].name = n)  BY <1>5 DEF MacNameFree
  <2>2. MacApart(o, macOp[q])  BY <1>2, <2>1 DEF MacApart, MacExcludes
  <2>3. ASSUME macOp[q].kind # "idle", macOp[q].name = n PROVE MacOpOK(macOp[q], b, s, m, i)
    <3>1. MacOpOK(macOp[q], b, macStage[n], m, i)  BY <1>4, <2>3, MacFacts
    <3> QED BY <2>1, <2>3, <3>1, MacUntouched
  <2>4. ASSUME macOp[q].kind # "idle"
        PROVE  MacOpOK(macOp[q], macDir[macOp[q].name], macStage[macOp[q].name],
                       macMount[macOp[q].name], i)
    BY <1>4, <2>4, MacFacts
  <2> QED BY <2>2, <2>3, <2>4 DEF MacBeside
<1>9. MacTurn(p, n, o, b, s, m, i)  BY <1>2, <1>3, <1>5, <1>6, <1>7, <1>8 DEF MacTurn
<1> QED BY <1>9, MacStep

\* What is known of an install.
LEMMA MacInstallFacts ==
  ASSUME MacInv, NEW p \in MacProcs, macOp[p].kind = "install"
  PROVE  /\ macOp[p] \in MacInstalls /\ macOp[p].name \in MacNames
         /\ MacInstallOK(macOp[p], macDir[macOp[p].name], macStage[macOp[p].name], macIpsw)
         /\ \A q \in MacProcs \ {p} : MacApart(macOp[p], macOp[q])
         /\ macIpsw \in {MacNoFile, MacSize}
<1>1. macOp[p] \in MacCommands /\ macOp[p].name \in MacNames  BY MacFacts
<1>2. macOp[p] \in MacInstalls  BY <1>1, MacKinds
<1> QED BY <1>1, <1>2, MacFacts, MacNameFacts DEF MacOpOK

\* The restore image: looked up, downloaded under the build lock.
LEMMA MacFetchStep ==
  ASSUME MacInv, NEW p \in MacProcs, MacFetch(p)
  PROVE  MacInv'
<1>1. /\ macOp[p].kind = "install" /\ macOp[p].at = "fetch"
      /\ UNCHANGED <<macDir, macStage, macMount, macIpsw, macVms>>
  BY DEF MacFetch, MacAt, MacBundlesAlone
<1>2. \A d \in macVms' : MacWholeDisk(d)  BY <1>1 DEF MacInv
<1>3. CASE MacEnd(p)  BY <1>1, <1>2, <1>3, MacEnds
<1>4. CASE ~MacEnd(p)
  <2>1. PICK u : u = macOp[p]  OBVIOUS
  <2>2. PICK n \in MacNames : n = u.name  BY <1>1, <2>1, MacInstallFacts
  <2>3. PICK w \in BOOLEAN : w = (macIpsw = MacNoFile /\ ~u.keep)  OBVIOUS
  <2>4. PICK a \in {"get", "load"} : a = IF macIpsw = MacNoFile THEN "get" ELSE "load"
    OBVIOUS
  <2>5. PICK o : o = [u EXCEPT !.build = TRUE, !.own = w, !.at = a]  OBVIOUS
  <2>6. MacBuildFree /\ macOp' = [macOp EXCEPT ![p] = o]
    BY <1>4, <2>1, <2>3, <2>4, <2>5 DEF MacFetch
  <2>7. u \in MacInstalls /\ MacInstallOK(u, macDir[n], macStage[n], macIpsw)
    BY <1>1, <2>1, <2>2, MacInstallFacts
  <2>8. /\ o \in MacInstalls /\ o.kind = "install" /\ o.name = n /\ o.build /\ o.at = a
    BY <2>2, <2>5, <2>7 DEF MacInstalls
  <2>9. o \in MacCommands  BY <2>8 DEF MacCommands
  <2>10. macDir[n] = MacNoBundle  BY <1>1, <2>1, <2>7 DEF MacInstallOK
  <2>11. MacOpOK(o, macDir[n], macStage[n], macMount[n], macIpsw)
    BY <2>8, <2>10 DEF MacOpOK, MacInstallOK, MacStaged
  <2>12. ASSUME NEW q \in MacProcs \ {p} PROVE MacApart(o, macOp[q])
    <3>1. MacApart(u, macOp[q])  BY <1>1, <2>1, MacInstallFacts
    <3>2. ~(macOp[q].kind = "install" /\ macOp[q].build)  BY <2>6 DEF MacBuildFree
    <3> QED BY <1>1, <2>1, <2>2, <2>8, <3>1, <3>2 DEF MacApart, MacExcludes
  <2> QED BY <1>1, <1>2, <2>6, <2>8, <2>9, <2>11, <2>12, MacOwnStep
<1> QED BY <1>3, <1>4

\* An install at another place of its run.
MacTo(u, a) == [u EXCEPT !.at = a]

\* Only its place is another.
LEMMA MacMoved ==
  ASSUME NEW u \in MacInstalls,
         NEW a \in {"body", "load", "write", "run", "manifest", "publish", "tidy"},
         NEW o, o = MacTo(u, a)
  PROVE  /\ o \in MacCommands /\ o.kind = "install" /\ o.name = u.name /\ o.at = a
         /\ (o.build <=> u.build) /\ (o.download <=> u.download) /\ (o.own <=> u.own)
<1>1. o \in MacInstalls  BY DEF MacInstalls, MacTo
<1>2. /\ o.kind = "install" /\ o.name = u.name /\ o.at = a
      /\ o.build = u.build /\ o.download = u.download /\ o.own = u.own
  BY DEF MacInstalls, MacTo
<1> QED BY <1>1, <1>2 DEF MacCommands

\* The response opens the part file, or ends the install.
LEMMA MacOpensStep ==
  ASSUME MacInv, NEW p \in MacProcs, MacDownloadOpens(p)
  PROVE  MacInv'
<1>1. /\ macOp[p].kind = "install" /\ macOp[p].at = "get"
      /\ UNCHANGED <<macDir, macStage, macMount, macIpsw, macVms>>
  BY DEF MacDownloadOpens, MacAt, MacBundlesAlone
<1>2. \A d \in macVms' : MacWholeDisk(d)  BY <1>1 DEF MacInv
<1>3. CASE MacEnd(p)  BY <1>1, <1>2, <1>3, MacEnds
<1>4. CASE ~MacEnd(p)
  <2>1. PICK u : u = macOp[p]  OBVIOUS
  <2>2. PICK n \in MacNames : n = u.name  BY <1>1, <2>1, MacInstallFacts
  <2>3. PICK o : o = MacTo(u, "body")  OBVIOUS
  <2>4. macOp' = [macOp EXCEPT ![p] = o]  BY <1>4, <2>1, <2>3 DEF MacDownloadOpens, MacGo, MacTo
  <2>5. u \in MacInstalls /\ MacInstallOK(u, macDir[n], macStage[n], macIpsw)
    BY <1>1, <2>1, <2>2, MacInstallFacts
  <2>6. /\ o \in MacCommands /\ o.kind = "install" /\ o.name = n /\ o.at = "body"
        /\ (o.build <=> u.build) /\ (o.download <=> u.download) /\ (o.own <=> u.own)
    BY <2>2, <2>3, <2>5, MacMoved
  <2>7. MacOpOK(o, macDir[n], macStage[n], macMount[n], macIpsw)
    BY <1>1, <2>1, <2>5, <2>6 DEF MacOpOK, MacInstallOK, MacStaged
  <2>8. ASSUME NEW q \in MacProcs \ {p} PROVE MacApart(o, macOp[q])
    <3>1. MacApart(u, macOp[q])  BY <1>1, <2>1, MacInstallFacts
    <3> QED BY <1>1, <2>1, <2>2, <2>6, <3>1, MacSameLocks
  <2> QED BY <1>1, <1>2, <2>4, <2>6, <2>7, <2>8, MacOwnStep
<1> QED BY <1>3, <1>4

\* A piece of the restore image arrives in the part file.
LEMMA MacChunkStep ==
  ASSUME MacInv, NEW p \in MacProcs, MacChunk(p)
  PROVE  MacInv'
BY DEF MacInv, MacTypeOK, MacChunk, MacBundlesAlone

\* The body ends: only a whole one takes the cached name.
LEMMA MacDownloadEndsStep ==
  ASSUME MacInv, NEW p \in MacProcs, MacDownloadEnds(p)
  PROVE  MacInv'
<1>1. /\ macOp[p].kind = "install" /\ macOp[p].at = "body"
      /\ UNCHANGED <<macDir, macStage, macMount, macVms>>
  BY DEF MacDownloadEnds, MacAt, MacBundlesAlone
<1>2. \A d \in macVms' : MacWholeDisk(d)  BY <1>1 DEF MacInv
<1>3. CASE MacEnd(p) /\ UNCHANGED macIpsw  BY <1>1, <1>2, <1>3, MacEnds
<1>4. CASE MacWholeDownload /\ MacGo(p, "load") /\ macIpsw' = macPart
  <2>1. PICK u : u = macOp[p]  OBVIOUS
  <2>2. PICK n \in MacNames : n = u.name  BY <1>1, <2>1, MacInstallFacts
  <2>3. PICK o : o = MacTo(u, "load")  OBVIOUS
  <2>4. macOp' = [macOp EXCEPT ![p] = o]  BY <1>4, <2>1, <2>3 DEF MacGo, MacTo
  <2>5. u \in MacInstalls /\ MacInstallOK(u, macDir[n], macStage[n], macIpsw)
    BY <1>1, <2>1, <2>2, MacInstallFacts
  <2>6. /\ o \in MacCommands /\ o.kind = "install" /\ o.name = n /\ o.at = "load"
        /\ (o.build <=> u.build) /\ (o.download <=> u.download) /\ (o.own <=> u.own)
    BY <2>2, <2>3, <2>5, MacMoved
  <2>7. PICK b, s, m, i : b = macDir[n] /\ s = macStage[n] /\ m = macMount[n] /\ i = MacSize
    OBVIOUS
  <2>8. i # MacNoFile /\ macIpsw' = i
    BY <1>4, <2>7, MacAssumption DEF MacNoFile, MacWholeDownload
  <2>9. /\ b \in MacPlaces /\ s \in MacPlaces /\ m \in MacMounts /\ i \in {MacNoFile, MacSize}
        /\ MacNameOK(b, m) /\ macDir' = [macDir EXCEPT ![n] = b]
        /\ macStage' = [macStage EXCEPT ![n] = s] /\ macMount' = [macMount EXCEPT ![n] = m]
    BY <1>1, <2>7, MacNameFacts
  <2>10. MacOpOK(o, b, s, m, i)
    BY <1>1, <2>1, <2>5, <2>6, <2>7 DEF MacOpOK, MacInstallOK, MacStaged
  <2>11. ASSUME NEW q \in MacProcs \ {p} PROVE MacBeside(macOp[q], n, o, b, s, m, i)
    <3>1. MacApart(u, macOp[q])  BY <1>1, <2>1, MacInstallFacts
    <3>2. MacApart(o, macOp[q])  BY <1>1, <2>1, <2>2, <2>6, <3>1, MacSameLocks
    <3>3. ASSUME macOp[q].kind # "idle"
          PROVE  MacOpOK(macOp[q], macDir[macOp[q].name], macStage[macOp[q].name],
                         macMount[macOp[q].name], i)
      <4>1. MacOpOK(macOp[q], macDir[macOp[q].name], macStage[macOp[q].name],
                    macMount[macOp[q].name], macIpsw)
        BY <3>3, MacFacts
      <4> QED BY <2>8, <4>1, MacUntouched
    <3> QED BY <2>7, <3>2, <3>3 DEF MacBeside
  <2>12. MacTurn(p, n, o, b, s, m, i)
    BY <1>2, <2>4, <2>6, <2>8, <2>9, <2>10, <2>11 DEF MacTurn
  <2> QED BY <2>12, MacStep
<1> QED BY <1>3, <1>4 DEF MacDownloadEnds

\* A staging bundle is a bundle.
LEMMA MacStageOfFacts ==
  ASSUME NEW k \in 0..4, NEW d \in {MacBlankDisk, MacOsDisk}, NEW f \in {"none", "bare"}
  PROVE  /\ MacStageOf(k, d, f) \in MacPlaces /\ MacStageOf(k, d, f) # MacNoBundle
         /\ MacStageOf(k, d, f).parts = MacFirst(MacArtifacts, k)
         /\ MacStageOf(k, d, f).manifest = f
         /\ MacStageOf(k, d, f).disk = d
<1>1. MacFirst(MacArtifacts, k) \subseteq MacTotal(MacArtifacts)
  BY DEF MacFirst, MacTotal, MacArtifacts
<1>5. MacBlankDisk \in MacDisks  BY DEF MacDisks, MacBlankDisk
<1>6. MacOsDisk \in MacDisks  BY DEF MacDisks, MacOsDisk
<1>2. d \in MacDisks  BY <1>5, <1>6
<1>4. MacStageOf(k, d, f) \in MacBundles  BY <1>1, <1>2 DEF MacStageOf, MacBundles
<1>3. MacStageOf(k, d, f) # MacNoBundle  BY DEF MacStageOf, MacNoBundle
<1> QED BY <1>3, <1>4 DEF MacPlaces, MacStageOf

\* A step of install_into that fails.
LEMMA MacFailStep ==
  ASSUME MacInv, NEW p \in MacProcs, macOp[p].kind = "install", MacInstallFails(p),
         UNCHANGED <<macDir, macMount, macIpsw, macVms>>
  PROVE  MacInv'
<1>1. PICK n \in MacNames : n = macOp[p].name  BY MacInstallFacts
<1>2. PICK o, s : o = MacIdle /\ s = MacNoBundle  OBVIOUS
<1>3. /\ macOp' = [macOp EXCEPT ![p] = o] /\ macStage' = [macStage EXCEPT ![n] = s]
      /\ s \in MacPlaces /\ o \in MacCommands /\ o.kind = "idle"
  BY <1>1, <1>2, MacIdleApart DEF MacInstallFails, MacEnd, MacPlaces
<1> QED BY <1>1, <1>2, <1>3, MacStageStep

\* The restore image is loaded and the staging bundle created.
LEMMA MacLoadStep ==
  ASSUME MacInv, NEW p \in MacProcs, MacLoad(p)
  PROVE  MacInv'
<1>1. /\ macOp[p].kind = "install" /\ macOp[p].at = "load"
      /\ UNCHANGED <<macDir, macMount, macIpsw, macVms>>
  BY DEF MacLoad, MacAt, MacBundlesAlone
<1>2. \A d \in macVms' : MacWholeDisk(d)  BY <1>1 DEF MacInv
<1>3. CASE MacEnd(p) /\ UNCHANGED macStage  BY <1>1, <1>2, <1>3, MacEnds
<1>4. CASE ~(MacEnd(p) /\ UNCHANGED macStage)
  <2>1. PICK u : u = macOp[p]  OBVIOUS
  <2>2. PICK n \in MacNames : n = u.name  BY <1>1, <2>1, MacInstallFacts
  <2>3. PICK o, s : o = MacTo(u, "write") /\ s = MacEmptyBundle  OBVIOUS
  <2>4. /\ macOp' = [macOp EXCEPT ![p] = o] /\ macStage' = [macStage EXCEPT ![n] = s]
        /\ MacSourceThere(p)
    BY <1>4, <2>1, <2>2, <2>3 DEF MacLoad, MacGo, MacTo
  <2>5. u \in MacInstalls /\ MacInstallOK(u, macDir[n], macStage[n], macIpsw)
    BY <1>1, <2>1, <2>2, MacInstallFacts
  <2>6. /\ o \in MacCommands /\ o.kind = "install" /\ o.name = n /\ o.at = "write"
        /\ (o.build <=> u.build) /\ (o.download <=> u.download) /\ (o.own <=> u.own)
    BY <2>2, <2>3, <2>5, MacMoved
  <2>7. MacFirst(MacArtifacts, 0) = {}  BY DEF MacFirst
  <2>8. s = MacStageOf(0, MacBlankDisk, "none")
    BY <2>3, <2>7 DEF MacStageOf, MacEmptyBundle
  <2>9. 0 \in 0..3 /\ 0 \in 0..4  OBVIOUS
  <2>12. s \in MacPlaces /\ s # MacNoBundle  BY <2>8, <2>9, MacStageOfFacts
  <2>10. u.download => macIpsw # MacNoFile  BY <2>1, <2>4 DEF MacSourceThere
  <2>11. MacInstallOK(o, macDir[n], s, macIpsw)
    BY <1>1, <2>1, <2>5, <2>6, <2>8, <2>9, <2>10, <2>12 DEF MacInstallOK, MacStaged
  <2> QED BY <1>1, <2>1, <2>2, <2>4, <2>6, <2>11, <2>12, MacStageStep
<1> QED BY <1>3, <1>4

\* The artifacts are written one by one, each another file.
LEMMA MacArtifactsCounted ==
  ASSUME NEW k \in 0..3
  PROVE  /\ Cardinality(MacFirst(MacArtifacts, k)) = k
         /\ MacFirst(MacArtifacts, k) \cup {MacArtifacts[k + 1]} = MacFirst(MacArtifacts, k + 1)
<1>0. /\ MacArtifacts[1] = "hardware_model" /\ MacArtifacts[2] = "machine_identifier"
      /\ MacArtifacts[3] = "aux" /\ MacArtifacts[4] = "disk"
  BY DEF MacArtifacts
<1>1. MacFirst(MacArtifacts, 0) = {}  BY DEF MacFirst
<1>2. MacFirst(MacArtifacts, 1) = {"hardware_model"}  BY <1>0 DEF MacFirst
<1>3. MacFirst(MacArtifacts, 2) = {"hardware_model", "machine_identifier"}  BY <1>0 DEF MacFirst
<1>4. MacFirst(MacArtifacts, 3) = {"hardware_model", "machine_identifier", "aux"}
  BY <1>0 DEF MacFirst
<1>5. MacFirst(MacArtifacts, 4) = {"hardware_model", "machine_identifier", "aux", "disk"}
  BY <1>0 DEF MacFirst
<1>6. IsFiniteSet({}) /\ Cardinality({}) = 0  BY FS_EmptySet
<1>7. IsFiniteSet({"hardware_model"}) /\ Cardinality({"hardware_model"}) = 1
  BY FS_Singleton
<1>8. /\ IsFiniteSet({"hardware_model", "machine_identifier"})
      /\ Cardinality({"hardware_model", "machine_identifier"}) = 2
  <2>1. {"hardware_model", "machine_identifier"} = {"hardware_model"} \cup {"machine_identifier"}
    OBVIOUS
  <2>2. "machine_identifier" \notin {"hardware_model"}  OBVIOUS
  <2> QED BY <1>7, <2>1, <2>2, FS_AddElement
<1>9. Cardinality({"hardware_model", "machine_identifier", "aux"}) = 3
  <2>1. {"hardware_model", "machine_identifier", "aux"}
          = {"hardware_model", "machine_identifier"} \cup {"aux"}
    OBVIOUS
  <2>2. "aux" \notin {"hardware_model", "machine_identifier"}  OBVIOUS
  <2> QED BY <1>8, <2>1, <2>2, FS_AddElement
<1>10. CASE k = 0  BY <1>0, <1>1, <1>2, <1>6, <1>10
<1>11. CASE k = 1  BY <1>0, <1>2, <1>3, <1>7, <1>11
<1>12. CASE k = 2  BY <1>0, <1>3, <1>4, <1>8, <1>12
<1>13. CASE k = 3  BY <1>0, <1>4, <1>5, <1>9, <1>13
<1> QED BY <1>10, <1>11, <1>12, <1>13

\* An artifact is written.
LEMMA MacWriteStep ==
  ASSUME MacInv, NEW p \in MacProcs, MacWriteArtifact(p)
  PROVE  MacInv'
<1>1. /\ macOp[p].kind = "install" /\ macOp[p].at = "write"
      /\ UNCHANGED <<macDir, macMount, macIpsw, macVms>>
  BY DEF MacWriteArtifact, MacAt, MacBundlesAlone
<1>2. CASE MacInstallFails(p)  BY <1>1, <1>2, MacFailStep
<1>3. CASE ~MacInstallFails(p)
  <2>1. PICK u : u = macOp[p]  OBVIOUS
  <2>2. PICK n \in MacNames : n = u.name  BY <1>1, <2>1, MacInstallFacts
  <2>3. PICK c : c = macStage[n]  OBVIOUS
  <2>4. u \in MacInstalls /\ MacInstallOK(u, macDir[n], c, macIpsw)
    BY <1>1, <2>1, <2>2, <2>3, MacInstallFacts
  <2>5. PICK k \in 0..3 : c = MacStageOf(k, MacBlankDisk, "none")
    BY <1>1, <2>1, <2>4 DEF MacInstallOK
  <2>6. k \in 0..4 /\ k + 1 \in 0..4  OBVIOUS
  <2>7. c.parts = MacFirst(MacArtifacts, k)  BY <2>5, <2>6, MacStageOfFacts
  <2>8. /\ Cardinality(c.parts) = k
        /\ c.parts \cup {MacArtifacts[k + 1]} = MacFirst(MacArtifacts, k + 1)
    BY <2>7, MacArtifactsCounted
  <2>9. PICK a \in {"run", "write"} : a = IF k + 1 = Len(MacArtifacts) THEN "run" ELSE "write"
    OBVIOUS
  <2>10. Len(MacArtifacts) = 4  BY DEF MacArtifacts
  <2>11. PICK o, s : o = MacTo(u, a) /\ s = [c EXCEPT !.parts = MacFirst(MacArtifacts, k + 1)]
    OBVIOUS
  <2>12. macOp' = [macOp EXCEPT ![p] = o] /\ macStage' = [macStage EXCEPT ![n] = s]
    BY <1>3, <2>1, <2>2, <2>3, <2>8, <2>9, <2>11 DEF MacWriteArtifact, MacGo, MacTo
  <2>13. s = MacStageOf(k + 1, MacBlankDisk, "none")  BY <2>5, <2>11 DEF MacStageOf
  <2>14. s \in MacPlaces /\ s # MacNoBundle  BY <2>6, <2>13, MacStageOfFacts
  <2>15. /\ o \in MacCommands /\ o.kind = "install" /\ o.name = n /\ o.at = a
         /\ (o.build <=> u.build) /\ (o.download <=> u.download) /\ (o.own <=> u.own)
    BY <2>2, <2>4, <2>11, MacMoved
  <2>16. CASE k = 3
    <3>1. a = "run" /\ s = MacStageOf(4, MacBlankDisk, "none")  BY <2>9, <2>10, <2>13, <2>16
    <3>2. MacInstallOK(o, macDir[n], s, macIpsw)
      BY <1>1, <2>1, <2>4, <2>14, <2>15, <3>1 DEF MacInstallOK, MacStaged
    <3> QED BY <1>1, <2>1, <2>2, <2>12, <2>14, <2>15, <3>2, MacStageStep
  <2>17. CASE k # 3
    <3>1. a = "write" /\ k + 1 \in 0..3  BY <2>9, <2>10, <2>17
    <3>2. MacInstallOK(o, macDir[n], s, macIpsw)
      BY <1>1, <2>1, <2>4, <2>13, <2>14, <2>15, <3>1 DEF MacInstallOK, MacStaged
    <3> QED BY <1>1, <2>1, <2>2, <2>12, <2>14, <2>15, <3>2, MacStageStep
  <2> QED BY <2>16, <2>17
<1> QED BY <1>2, <1>3

\* The installer runs to its completion handler.
LEMMA MacRunStep ==
  ASSUME MacInv, NEW p \in MacProcs, MacRunInstaller(p)
  PROVE  MacInv'
<1>1. /\ macOp[p].kind = "install" /\ macOp[p].at = "run"
      /\ UNCHANGED <<macDir, macMount, macIpsw, macVms>>
  BY DEF MacRunInstaller, MacAt, MacBundlesAlone
<1>2. CASE MacInstallFails(p)  BY <1>1, <1>2, MacFailStep
<1>3. CASE ~MacInstallFails(p)
  <2>1. PICK u : u = macOp[p]  OBVIOUS
  <2>2. PICK n \in MacNames : n = u.name  BY <1>1, <2>1, MacInstallFacts
  <2>3. PICK c : c = macStage[n]  OBVIOUS
  <2>4. u \in MacInstalls /\ MacInstallOK(u, macDir[n], c, macIpsw)
    BY <1>1, <2>1, <2>2, <2>3, MacInstallFacts
  <2>5. c = MacStageOf(4, MacBlankDisk, "none")
    BY <1>1, <2>1, <2>4 DEF MacInstallOK
  <2>6. PICK o, s : o = MacTo(u, "manifest") /\ s = [c EXCEPT !.disk.os = TRUE]
    OBVIOUS
  <2>7. macOp' = [macOp EXCEPT ![p] = o] /\ macStage' = [macStage EXCEPT ![n] = s]
    BY <1>3, <2>1, <2>2, <2>3, <2>6 DEF MacRunInstaller, MacGo, MacTo
  <2>8. s = MacStageOf(4, MacOsDisk, "none")
    BY <2>5, <2>6 DEF MacStageOf, MacOsDisk, MacBlankDisk
  <2>9. 4 \in 0..4  OBVIOUS
  <2>10. s \in MacPlaces /\ s # MacNoBundle  BY <2>8, <2>9, MacStageOfFacts
  <2>11. /\ o \in MacCommands /\ o.kind = "install" /\ o.name = n /\ o.at = "manifest"
         /\ (o.build <=> u.build) /\ (o.download <=> u.download) /\ (o.own <=> u.own)
    BY <2>2, <2>4, <2>6, MacMoved
  <2>12. MacInstallOK(o, macDir[n], s, macIpsw)
    BY <1>1, <2>1, <2>4, <2>8, <2>10, <2>11 DEF MacInstallOK, MacStaged
  <2> QED BY <1>1, <2>1, <2>2, <2>7, <2>10, <2>11, <2>12, MacStageStep
<1> QED BY <1>2, <1>3

\* The manifest is written last.
LEMMA MacManifestStep ==
  ASSUME MacInv, NEW p \in MacProcs, MacInstallManifest(p)
  PROVE  MacInv'
<1>1. /\ macOp[p].kind = "install" /\ macOp[p].at = "manifest"
      /\ UNCHANGED <<macDir, macMount, macIpsw, macVms>>
  BY DEF MacInstallManifest, MacAt, MacBundlesAlone
<1>2. CASE MacInstallFails(p)  BY <1>1, <1>2, MacFailStep
<1>3. CASE ~MacInstallFails(p)
  <2>1. PICK u : u = macOp[p]  OBVIOUS
  <2>2. PICK n \in MacNames : n = u.name  BY <1>1, <2>1, MacInstallFacts
  <2>3. PICK c : c = macStage[n]  OBVIOUS
  <2>4. u \in MacInstalls /\ MacInstallOK(u, macDir[n], c, macIpsw)
    BY <1>1, <2>1, <2>2, <2>3, MacInstallFacts
  <2>5. c = MacStageOf(4, MacOsDisk, "none")
    BY <1>1, <2>1, <2>4 DEF MacInstallOK
  <2>6. PICK o, s : o = MacTo(u, "publish") /\ s = [c EXCEPT !.manifest = "bare"]
    OBVIOUS
  <2>7. macOp' = [macOp EXCEPT ![p] = o] /\ macStage' = [macStage EXCEPT ![n] = s]
    BY <1>3, <2>1, <2>2, <2>3, <2>6 DEF MacInstallManifest, MacGo, MacTo
  <2>8. s = MacStageOf(4, MacOsDisk, "bare")  BY <2>5, <2>6 DEF MacStageOf
  <2>9. 4 \in 0..4  OBVIOUS
  <2>10. s \in MacPlaces /\ s # MacNoBundle  BY <2>8, <2>9, MacStageOfFacts
  <2>11. /\ o \in MacCommands /\ o.kind = "install" /\ o.name = n /\ o.at = "publish"
         /\ (o.build <=> u.build) /\ (o.download <=> u.download) /\ (o.own <=> u.own)
    BY <2>2, <2>4, <2>6, MacMoved
  <2>12. MacInstallOK(o, macDir[n], s, macIpsw)
    BY <1>1, <2>1, <2>4, <2>8, <2>10, <2>11 DEF MacInstallOK, MacStaged
  <2> QED BY <1>1, <2>1, <2>2, <2>7, <2>10, <2>11, <2>12, MacStageStep
<1> QED BY <1>2, <1>3

\* The bundle takes the image's name: no other command has a use for a name
\* nothing is published under.
LEMMA MacPublishStep ==
  ASSUME MacInv, NEW p \in MacProcs, MacPublish(p)
  PROVE  MacInv'
<1>1. /\ macOp[p].kind = "install" /\ macOp[p].at = "publish"
      /\ UNCHANGED <<macMount, macIpsw, macVms>>
  BY DEF MacPublish, MacAt
<1>2. \A d \in macVms' : MacWholeDisk(d)  BY <1>1 DEF MacInv
<1>3. CASE MacEnd(p) /\ UNCHANGED <<macDir, macStage>>  BY <1>1, <1>2, <1>3, MacEnds
<1>4. CASE ~(MacEnd(p) /\ UNCHANGED <<macDir, macStage>>)
  <2>1. PICK u : u = macOp[p]  OBVIOUS
  <2>2. PICK n \in MacNames : n = u.name  BY <1>1, <2>1, MacInstallFacts
  <2>3. PICK o : o = MacTo(u, "tidy")  OBVIOUS
  <2>4. u \in MacInstalls /\ MacInstallOK(u, macDir[n], macStage[n], macIpsw)
    BY <1>1, <2>1, <2>2, MacInstallFacts
  <2>5. PICK b, s, m, i : b = macStage[n] /\ s = MacNoBundle /\ m = macMount[n] /\ i = macIpsw
    OBVIOUS
  <2>6. /\ macOp' = [macOp EXCEPT ![p] = o] /\ macDir' = [macDir EXCEPT ![n] = b]
        /\ macStage' = [macStage EXCEPT ![n] = s]
    BY <1>4, <2>1, <2>2, <2>3, <2>5 DEF MacPublish, MacGo, MacTo
  <2>7. /\ o \in MacCommands /\ o.kind = "install" /\ o.name = n /\ o.at = "tidy"
        /\ (o.build <=> u.build) /\ (o.download <=> u.download) /\ (o.own <=> u.own)
    BY <2>2, <2>3, <2>4, MacMoved
  <2>8. b = MacStageOf(4, MacOsDisk, "bare") /\ macDir[n] = MacNoBundle
    BY <1>1, <2>1, <2>4, <2>5 DEF MacInstallOK
  <2>9. 4 \in 0..4  OBVIOUS
  <2>10. /\ b \in MacPlaces /\ b.manifest = "bare" /\ b.disk = MacOsDisk
         /\ b.parts = MacFirst(MacArtifacts, 4)
    BY <2>8, <2>9, MacStageOfFacts
  <2>11. MacFirst(MacArtifacts, 4) = MacTotal(MacArtifacts)
    BY DEF MacFirst, MacTotal, MacArtifacts
  <2>12. MacNameOK(b, m)  BY <2>10, <2>11 DEF MacNameOK, MacOsDisk
  <2>13. /\ s \in MacPlaces /\ m \in MacMounts /\ i \in {MacNoFile, MacSize}
         /\ macMount' = [macMount EXCEPT ![n] = m] /\ macIpsw' = i
    BY <1>1, <2>5, MacNameFacts DEF MacPlaces
  <2>14. MacOpOK(o, b, s, m, i)
    BY <1>1, <2>1, <2>4, <2>7 DEF MacOpOK, MacInstallOK, MacStaged
  <2>15. ASSUME NEW q \in MacProcs \ {p} PROVE MacBeside(macOp[q], n, o, b, s, m, i)
    <3>1. MacApart(u, macOp[q])  BY <1>1, <2>1, MacInstallFacts
    <3>2. MacApart(o, macOp[q])  BY <1>1, <2>1, <2>2, <2>7, <3>1, MacSameLocks
    <3>3. ASSUME macOp[q].kind # "idle"
          PROVE  MacOpOK(macOp[q], macDir[macOp[q].name], macStage[macOp[q].name],
                         macMount[macOp[q].name], i)
      BY <2>5, <3>3, MacFacts
    <3>4. ASSUME macOp[q].kind # "idle", macOp[q].name = n PROVE MacOpOK(macOp[q], b, s, m, i)
      <4>1. macOp[q].kind # "install"
        BY <1>1, <2>1, <2>2, <3>1, <3>4 DEF MacApart, MacExcludes
      <4>2. MacOpOK(macOp[q], MacNoBundle, macStage[n], m, i)  BY <2>5, <2>8, <3>3, <3>4
      <4>3. macOp[q].kind # "provision"  BY <4>2 DEF MacOpOK, MacProvisionOK
      <4> QED BY <4>1, <4>2, <4>3 DEF MacOpOK, MacCreateOK
    <3> QED BY <2>5, <3>2, <3>3, <3>4 DEF MacBeside
  <2>16. MacTurn(p, n, o, b, s, m, i)
    BY <1>2, <2>6, <2>7, <2>10, <2>12, <2>13, <2>14, <2>15 DEF MacTurn
  <2> QED BY <2>16, MacStep
<1> QED BY <1>3, <1>4

\* Only an install's own download is deleted, which no other install uses:
\* it holds the build.
LEMMA MacTidyStep ==
  ASSUME MacInv, NEW p \in MacProcs, MacTidy(p)
  PROVE  MacInv'
<1>1. /\ macOp[p].kind = "install" /\ macOp[p].at = "tidy"
      /\ MacEnd(p) /\ UNCHANGED <<macDir, macStage, macMount, macVms>>
  BY DEF MacTidy, MacAt, MacBundlesAlone
<1>2. \A d \in macVms' : MacWholeDisk(d)  BY <1>1 DEF MacInv
<1>3. CASE UNCHANGED macIpsw  BY <1>1, <1>2, <1>3, MacEnds
<1>4. CASE ~UNCHANGED macIpsw
  <2>1. PICK u : u = macOp[p]  OBVIOUS
  <2>2. PICK n \in MacNames : n = u.name  BY <1>1, <2>1, MacInstallFacts
  <2>3. u.own /\ macIpsw' = MacNoFile  BY <1>4, <2>1 DEF MacTidy
  <2>4. u \in MacInstalls /\ MacInstallOK(u, macDir[n], macStage[n], macIpsw)
    BY <1>1, <2>1, <2>2, MacInstallFacts
  <2>5. u.build  BY <2>3, <2>4 DEF MacInstallOK
  <2>6. PICK o, b, s, m, i :
          o = MacIdle /\ b = macDir[n] /\ s = macStage[n] /\ m = macMount[n] /\ i = MacNoFile
    OBVIOUS
  <2>7. /\ macOp' = [macOp EXCEPT ![p] = o] /\ o \in MacCommands /\ o.kind = "idle"
    BY <1>1, <2>6, MacIdleApart DEF MacEnd
  <2>8. /\ b \in MacPlaces /\ s \in MacPlaces /\ m \in MacMounts /\ i \in {MacNoFile, MacSize}
        /\ MacNameOK(b, m) /\ macDir' = [macDir EXCEPT ![n] = b] /\ macIpsw' = i
        /\ macStage' = [macStage EXCEPT ![n] = s] /\ macMount' = [macMount EXCEPT ![n] = m]
    BY <1>1, <2>3, <2>6, MacNameFacts
  <2>9. ASSUME NEW q \in MacProcs \ {p} PROVE MacBeside(macOp[q], n, o, b, s, m, i)
    <3>1. MacApart(u, macOp[q])  BY <1>1, <2>1, MacInstallFacts
    <3>2. MacApart(o, macOp[q])  BY <2>6, MacIdleApart
    <3>3. ASSUME macOp[q].kind # "idle"
          PROVE  MacOpOK(macOp[q], macDir[macOp[q].name], macStage[macOp[q].name],
                         macMount[macOp[q].name], i)
      <4>1. MacOpOK(macOp[q], macDir[macOp[q].name], macStage[macOp[q].name],
                    macMount[macOp[q].name], macIpsw)
        BY <3>3, MacFacts
      <4>2. CASE macOp[q].kind # "install"  BY <4>1, <4>2, MacUntouched
      <4>3. CASE macOp[q].kind = "install"
        <5>1. ~macOp[q].build  BY <1>1, <2>1, <2>5, <3>1, <4>3 DEF MacApart, MacExcludes
        <5>2. MacInstallOK(macOp[q], macDir[macOp[q].name], macStage[macOp[q].name], macIpsw)
          BY <4>1, <4>3 DEF MacOpOK
        <5>3. MacInstallOK(macOp[q], macDir[macOp[q].name], macStage[macOp[q].name], i)
          BY <5>1, <5>2 DEF MacInstallOK, MacStaged
        <5> QED BY <4>3, <5>3 DEF MacOpOK
      <4> QED BY <4>2, <4>3
    <3> QED BY <2>6, <3>2, <3>3 DEF MacBeside
  <2>10. MacTurn(p, n, o, b, s, m, i)  BY <1>2, <2>7, <2>8, <2>9 DEF MacTurn
  <2> QED BY <2>10, MacStep
<1> QED BY <1>3, <1>4

\* What is known of a provision.
LEMMA MacProvisionFacts ==
  ASSUME MacInv, NEW p \in MacProcs, macOp[p].kind = "provision"
  PROVE  /\ macOp[p] \in MacProvisions /\ macOp[p].name \in MacNames
         /\ MacProvisionOK(macOp[p], macDir[macOp[p].name], macMount[macOp[p].name])
         /\ macDir[macOp[p].name] \in MacBundles /\ macMount[macOp[p].name] \in MacMounts
         /\ MacNameOK(macDir[macOp[p].name], macMount[macOp[p].name])
<1>1. macOp[p] \in MacCommands /\ macOp[p].name \in MacNames  BY MacFacts
<1>2. macOp[p] \in MacProvisions  BY <1>1, MacKinds
<1>3. MacProvisionOK(macOp[p], macDir[macOp[p].name], macMount[macOp[p].name])
  BY MacFacts DEF MacOpOK
<1>4. macDir[macOp[p].name] \in MacBundles  BY <1>1, <1>3, MacNameFacts DEF MacPlaces, MacProvisionOK
<1> QED BY <1>1, <1>2, <1>3, <1>4, MacNameFacts

\* A provision goes on, or ends, and changes its bundle or its attachment:
\* under the exclusive lock only a clone already taken, or an install that
\* has published, can be beside it.
LEMMA MacProvisionTurn ==
  ASSUME MacInv, NEW p \in MacProcs, macOp[p].kind = "provision",
         NEW n \in MacNames, n = macOp[p].name, NEW o \in MacCommands,
         o = MacIdle \/ (o.kind = "provision" /\ o.name = n),
         NEW b \in MacBundles, NEW m \in MacMounts, MacNameOK(b, m),
         o.kind # "idle" => MacProvisionOK(o, b, m),
         macOp' = [macOp EXCEPT ![p] = o], macDir' = [macDir EXCEPT ![n] = b],
         macMount' = [macMount EXCEPT ![n] = m], UNCHANGED <<macStage, macIpsw, macVms>>
  PROVE  MacInv'
<1>1. PICK s, i : s = macStage[n] /\ i = macIpsw  OBVIOUS
<1>2. /\ b \in MacPlaces /\ s \in MacPlaces /\ i \in {MacNoFile, MacSize}
      /\ \A d \in macVms' : MacWholeDisk(d)
  BY <1>1, MacNameFacts DEF MacPlaces
<1>3. macStage' = [macStage EXCEPT ![n] = s] /\ macIpsw' = i  BY <1>1, MacNameFacts
<1>4. ASSUME NEW q \in MacProcs \ {p}
      PROVE  MacBeside(macOp[q], n, o, b, s, m, i)
  <2>1. MacApart(macOp[p], macOp[q])  BY MacFacts
  <2>2. MacApart(o, macOp[q])
    <3>1. CASE o = MacIdle  BY <3>1, MacIdleApart
    <3>2. CASE o # MacIdle  BY <2>1, <3>2 DEF MacApart, MacExcludes
    <3> QED BY <3>1, <3>2
  <2>3. ASSUME macOp[q].kind # "idle"
        PROVE  MacOpOK(macOp[q], macDir[macOp[q].name], macStage[macOp[q].name],
                       macMount[macOp[q].name], i)
    BY <1>1, <2>3, MacFacts
  <2>4. ASSUME macOp[q].kind # "idle", macOp[q].name = n PROVE MacOpOK(macOp[q], b, s, m, i)
    <3>1. macOp[q].kind # "provision"  BY <2>1, <2>4 DEF MacApart, MacExcludes
    <3>2. macOp[q].kind = "create" => macOp[q].lock = "none"
      BY <2>1, <2>4 DEF MacApart, MacExcludes
    <3>3. MacOpOK(macOp[q], macDir[n], s, macMount[n], i)  BY <1>1, <2>3, <2>4
    <3>4. macDir[n] # MacNoBundle  BY MacProvisionFacts DEF MacProvisionOK
    <3>5. macOp[q].kind = "create" => MacCreateOK(macOp[q], b)
      BY <3>2, <3>3 DEF MacOpOK, MacCreateOK
    <3>6. macOp[q].kind = "install" => MacInstallOK(macOp[q], b, s, i)
      BY <3>3, <3>4 DEF MacOpOK, MacInstallOK
    <3> QED BY <3>1, <3>5, <3>6 DEF MacOpOK
  <2> QED BY <2>2, <2>3, <2>4 DEF MacBeside
<1>5. (o.kind # "idle" => o.name = n) /\ (o.kind # "idle" => MacOpOK(o, b, s, m, i))
  BY MacIdleApart DEF MacOpOK
<1>6. MacTurn(p, n, o, b, s, m, i)  BY <1>2, <1>3, <1>4, <1>5 DEF MacTurn
<1> QED BY <1>6, MacStep

\* A provision at another place of its run.
LEMMA MacProvisionMoved ==
  ASSUME NEW u \in MacProvisions,
         NEW a \in {"attach", "mount", "write", "detach", "drop", "seal"},
         NEW o, o = MacTo(u, a)
  PROVE  /\ o \in MacCommands /\ o.kind = "provision" /\ o.name = u.name /\ o.at = a
         /\ o.wrote = u.wrote
<1>1. o \in MacProvisions  BY DEF MacProvisions, MacTo
<1> QED BY <1>1 DEF MacCommands, MacProvisions, MacTo

\* A provision begins under the exclusive lock.
LEMMA MacProvisionStep ==
  ASSUME MacInv, NEW p \in MacProcs, NEW n \in MacNames, MacProvision(p, n)
  PROVE  MacInv'
<1>1. PICK o : o = [kind |-> "provision", name |-> n, at |-> "unseal", lock |-> "exclusive",
                    wrote |-> 0, signalled |-> FALSE]
  OBVIOUS
<1>2. /\ macOp' = [macOp EXCEPT ![p] = o] /\ macDir[n] # MacNoBundle /\ MacTryLock(n, TRUE)
      /\ UNCHANGED <<macDir, macStage, macMount, macIpsw, macVms>>
  BY <1>1 DEF MacProvision, MacBundlesAlone
<1>3. /\ o \in MacProvisions /\ o.kind = "provision" /\ o.name = n /\ o.at = "unseal"
      /\ o.wrote = 0
  BY <1>1 DEF MacProvisions
<1>4. o \in MacCommands  BY <1>3 DEF MacCommands
<1>5. MacFirst(MacAgentFiles, 0) = {}  BY DEF MacFirst
<1>6. MacOpOK(o, macDir[n], macStage[n], macMount[n], macIpsw)
  BY <1>2, <1>3, <1>5 DEF MacOpOK, MacProvisionOK
<1>7. ASSUME NEW q \in MacProcs \ {p} PROVE MacApart(o, macOp[q])
  <2>1. macOp[q].kind \in {"provision", "create"} /\ macOp[q].name = n => macOp[q].lock = "none"
    BY <1>2 DEF MacTryLock
  <2>2. macOp[q] \in MacCommands  BY DEF MacInv, MacTypeOK
  <2>3. macOp[q].kind = "provision" => macOp[q].lock = "exclusive"
    BY <2>2, MacKinds DEF MacProvisions
  <2> QED BY <1>3, <2>1, <2>3 DEF MacApart, MacExcludes
<1>8. \A d \in macVms' : MacWholeDisk(d)  BY <1>2 DEF MacInv
<1> QED BY <1>2, <1>3, <1>4, <1>6, <1>7, <1>8, MacOwnStep

\* The bundle validates under the lock and is marked unprovisioned.
LEMMA MacUnsealStep ==
  ASSUME MacInv, NEW p \in MacProcs, MacUnseal(p)
  PROVE  MacInv'
<1>1. /\ macOp[p].kind = "provision" /\ macOp[p].at = "unseal"
      /\ UNCHANGED <<macStage, macMount, macIpsw, macVms>>
  BY DEF MacUnseal, MacAt
<1>2. \A d \in macVms' : MacWholeDisk(d)  BY <1>1 DEF MacInv
<1>3. CASE MacEnd(p) /\ UNCHANGED macDir  BY <1>1, <1>2, <1>3, MacEnds
<1>4. CASE ~(MacEnd(p) /\ UNCHANGED macDir)
  <2>1. PICK u : u = macOp[p]  OBVIOUS
  <2>2. PICK n \in MacNames : n = u.name  BY <1>1, <2>1, MacProvisionFacts
  <2>3. PICK c, m : c = macDir[n] /\ m = macMount[n]  OBVIOUS
  <2>4. /\ u \in MacProvisions /\ c \in MacBundles /\ m \in MacMounts /\ MacNameOK(c, m)
        /\ MacProvisionOK(u, c, m)
    BY <1>1, <2>1, <2>2, <2>3, MacProvisionFacts
  <2>5. PICK o, b : o = MacTo(u, "attach") /\ b = [c EXCEPT !.manifest = "bare"]  OBVIOUS
  <2>6. macOp' = [macOp EXCEPT ![p] = o] /\ macDir' = [macDir EXCEPT ![n] = b]
    BY <1>4, <2>1, <2>2, <2>3, <2>5 DEF MacUnseal, MacGo, MacTo, MacUnsealed
  <2>7. /\ o \in MacCommands /\ o.kind = "provision" /\ o.name = n /\ o.at = "attach"
        /\ o.wrote = u.wrote
    BY <2>2, <2>4, <2>5, MacProvisionMoved
  <2>8. b \in MacBundles /\ b.manifest = "bare" /\ b.parts = c.parts /\ b.disk = c.disk
    BY <2>4, <2>5 DEF MacBundles
  <2>9. c # MacNoBundle /\ b # MacNoBundle  BY <2>4, <2>8 DEF MacProvisionOK, MacBundles, MacNoBundle
  <2>10. MacNameOK(b, m)  BY <2>4, <2>8, <2>9 DEF MacNameOK
  <2>11. MacProvisionOK(o, b, m)
    BY <1>1, <2>1, <2>4, <2>7, <2>8, <2>9 DEF MacProvisionOK
  <2>12. macMount' = [macMount EXCEPT ![n] = m]  BY <1>1, <2>3, MacNameFacts
  <2> QED BY <1>1, <2>1, <2>2, <2>4, <2>6, <2>7, <2>8, <2>10, <2>11, <2>12, MacProvisionTurn
<1> QED BY <1>3, <1>4

\* The disk is attached.
LEMMA MacAttachStep ==
  ASSUME MacInv, NEW p \in MacProcs, MacAttach(p)
  PROVE  MacInv'
<1>1. /\ macOp[p].kind = "provision" /\ macOp[p].at = "attach"
      /\ UNCHANGED <<macStage, macDir, macIpsw, macVms>>
  BY DEF MacAttach, MacAt
<1>2. \A d \in macVms' : MacWholeDisk(d)  BY <1>1 DEF MacInv
<1>3. CASE MacEnd(p) /\ UNCHANGED macMount  BY <1>1, <1>2, <1>3, MacEnds
<1>4. CASE ~(MacEnd(p) /\ UNCHANGED macMount)
  <2>1. PICK u : u = macOp[p]  OBVIOUS
  <2>2. PICK n \in MacNames : n = u.name  BY <1>1, <2>1, MacProvisionFacts
  <2>3. PICK b, k : b = macDir[n] /\ k = macMount[n]  OBVIOUS
  <2>4. /\ u \in MacProvisions /\ b \in MacBundles /\ k \in MacMounts /\ MacNameOK(b, k)
        /\ MacProvisionOK(u, b, k)
    BY <1>1, <2>1, <2>2, <2>3, MacProvisionFacts
  <2>5. PICK o, m : o = MacTo(u, "mount") /\ m = IF k = "off" THEN "attached" ELSE k  OBVIOUS
  <2>6. macOp' = [macOp EXCEPT ![p] = o] /\ macMount' = [macMount EXCEPT ![n] = m]
    BY <1>4, <2>1, <2>2, <2>3, <2>5 DEF MacAttach, MacGo, MacTo
  <2>7. /\ o \in MacCommands /\ o.kind = "provision" /\ o.name = n /\ o.at = "mount"
        /\ o.wrote = u.wrote
    BY <2>2, <2>4, <2>5, MacProvisionMoved
  <2>8. m \in MacMounts  BY <2>4, <2>5 DEF MacMounts
  <2>9. b.manifest = "bare"  BY <1>1, <2>1, <2>4 DEF MacProvisionOK
  <2>10. MacNameOK(b, m)  BY <2>4, <2>9 DEF MacNameOK
  <2>11. MacProvisionOK(o, b, m)
    BY <1>1, <2>1, <2>4, <2>7, <2>9 DEF MacProvisionOK
  <2>12. macDir' = [macDir EXCEPT ![n] = b]  BY <1>1, <2>3, MacNameFacts
  <2> QED BY <1>1, <2>1, <2>2, <2>4, <2>6, <2>7, <2>8, <2>10, <2>11, <2>12, MacProvisionTurn
<1> QED BY <1>3, <1>4

\* A provision that stops goes on to the drop.
LEMMA MacStopsStep ==
  ASSUME MacInv, NEW p \in MacProcs, macOp[p].kind = "provision", macOp[p].at # "unseal",
         MacGo(p, "drop"), UNCHANGED <<macDir, macMount, macStage, macIpsw, macVms>>
  PROVE  MacInv'
<1>1. PICK u : u = macOp[p]  OBVIOUS
<1>2. PICK n \in MacNames : n = u.name  BY <1>1, MacProvisionFacts
<1>3. PICK b, m : b = macDir[n] /\ m = macMount[n]  OBVIOUS
<1>4. /\ u \in MacProvisions /\ b \in MacBundles /\ m \in MacMounts /\ MacNameOK(b, m)
      /\ MacProvisionOK(u, b, m)
  BY <1>1, <1>2, <1>3, MacProvisionFacts
<1>5. PICK o : o = MacTo(u, "drop")  OBVIOUS
<1>6. macOp' = [macOp EXCEPT ![p] = o]  BY <1>1, <1>5 DEF MacGo, MacTo
<1>7. /\ o \in MacCommands /\ o.kind = "provision" /\ o.name = n /\ o.at = "drop"
      /\ o.wrote = u.wrote
  BY <1>2, <1>4, <1>5, MacProvisionMoved
<1>8. MacProvisionOK(o, b, m)  BY <1>1, <1>4, <1>7 DEF MacProvisionOK
<1>9. macDir' = [macDir EXCEPT ![n] = b] /\ macMount' = [macMount EXCEPT ![n] = m]
  BY <1>3, MacNameFacts
<1> QED BY <1>1, <1>2, <1>4, <1>6, <1>7, <1>8, <1>9, MacProvisionTurn

\* The Data volume is mounted, which makes the disk inconsistent.
LEMMA MacMountStep ==
  ASSUME MacInv, NEW p \in MacProcs, MacMountData(p)
  PROVE  MacInv'
<1>1. /\ macOp[p].kind = "provision" /\ macOp[p].at = "mount"
      /\ UNCHANGED <<macStage, macIpsw, macVms>>
  BY DEF MacMountData, MacAt
<1>2. CASE MacGo(p, "drop") /\ UNCHANGED <<macMount, macDir>>  BY <1>1, <1>2, MacStopsStep
<1>3. CASE ~(MacGo(p, "drop") /\ UNCHANGED <<macMount, macDir>>)
  <2>1. PICK u : u = macOp[p]  OBVIOUS
  <2>2. PICK n \in MacNames : n = u.name  BY <1>1, <2>1, MacProvisionFacts
  <2>3. PICK c, k : c = macDir[n] /\ k = macMount[n]  OBVIOUS
  <2>4. /\ u \in MacProvisions /\ c \in MacBundles /\ MacNameOK(c, k)
        /\ MacProvisionOK(u, c, k)
    BY <1>1, <2>1, <2>2, <2>3, MacProvisionFacts
  <2>5. PICK a \in {"drop", "write"} : a = IF u.signalled THEN "drop" ELSE "write"  OBVIOUS
  <2>6. PICK o, b, m : /\ o = MacTo(u, a) /\ m = "mounted"
                       /\ b = [c EXCEPT !.disk = [c.disk EXCEPT !.clean = FALSE]]
    OBVIOUS
  <2>7. /\ macOp' = [macOp EXCEPT ![p] = o] /\ macMount' = [macMount EXCEPT ![n] = m]
        /\ macDir' = [macDir EXCEPT ![n] = b]
    BY <1>3, <2>1, <2>2, <2>3, <2>5, <2>6 DEF MacMountData, MacGo, MacTo
  <2>8. /\ o \in MacCommands /\ o.kind = "provision" /\ o.name = n /\ o.at = a
        /\ o.wrote = u.wrote
    BY <2>2, <2>4, <2>6, MacProvisionMoved
  <2>9. c.disk \in MacDisks  BY <2>4 DEF MacBundles
  <2>10. PICK d : d = [c.disk EXCEPT !.clean = FALSE]  OBVIOUS
  <2>11. d \in MacDisks /\ (d.os <=> c.disk.os) /\ d.agent = c.disk.agent  BY <2>9, <2>10 DEF MacDisks
  <2>12. b \in MacBundles /\ b.manifest = c.manifest /\ b.parts = c.parts /\ b.disk = d
    BY <2>4, <2>6, <2>10, <2>11 DEF MacBundles
  <2>13. c # MacNoBundle /\ b # MacNoBundle /\ c.manifest = "bare" /\ m \in MacMounts
    BY <1>1, <2>1, <2>4, <2>6, <2>12 DEF MacProvisionOK, MacBundles, MacNoBundle, MacMounts
  <2>14. MacNameOK(b, m)  BY <2>4, <2>11, <2>12, <2>13 DEF MacNameOK
  <2>15. MacProvisionOK(o, b, m)
    BY <1>1, <2>1, <2>4, <2>8, <2>11, <2>12, <2>13 DEF MacProvisionOK
  <2> QED BY <1>1, <2>1, <2>2, <2>7, <2>8, <2>12, <2>13, <2>14, <2>15, MacProvisionTurn
<1> QED BY <1>2, <1>3

\* The agent's files, one more at a time.
LEMMA MacAgentCounted ==
  ASSUME NEW k \in 0..2
  PROVE  /\ MacFirst(MacAgentFiles, k + 1) = MacFirst(MacAgentFiles, k) \cup {MacAgentFiles[k + 1]}
         /\ MacAgentFiles[k + 1] \in MacTotal(MacAgentFiles)
         /\ MacFirst(MacAgentFiles, 3) = MacTotal(MacAgentFiles) /\ Len(MacAgentFiles) = 3
<1>1. Len(MacAgentFiles) = 3  BY DEF MacAgentFiles
<1>2. 1..(k + 1) = 1..k \cup {k + 1}  OBVIOUS
<1>3. MacFirst(MacAgentFiles, k + 1) = MacFirst(MacAgentFiles, k) \cup {MacAgentFiles[k + 1]}
  BY <1>2 DEF MacFirst
<1>4. k + 1 \in 1..3  OBVIOUS
<1> QED BY <1>1, <1>3, <1>4 DEF MacFirst, MacTotal

\* One agent file is put in place.
LEMMA MacAgentStep ==
  ASSUME MacInv, NEW p \in MacProcs, MacWriteAgent(p)
  PROVE  MacInv'
<1>1. /\ macOp[p].kind = "provision" /\ macOp[p].at = "write"
      /\ UNCHANGED <<macStage, macMount, macIpsw, macVms>>
  BY DEF MacWriteAgent, MacAt
<1>2. CASE MacGo(p, "drop") /\ UNCHANGED macDir  BY <1>1, <1>2, MacStopsStep
<1>3. CASE ~(MacGo(p, "drop") /\ UNCHANGED macDir)
  <2>1. PICK u : u = macOp[p]  OBVIOUS
  <2>2. PICK n \in MacNames : n = u.name  BY <1>1, <2>1, MacProvisionFacts
  <2>3. PICK c, m : c = macDir[n] /\ m = macMount[n]  OBVIOUS
  <2>4. /\ u \in MacProvisions /\ c \in MacBundles /\ m \in MacMounts /\ MacNameOK(c, m)
        /\ MacProvisionOK(u, c, m)
    BY <1>1, <2>1, <2>2, <2>3, MacProvisionFacts
  <2>5. u.wrote \in 0..2  BY <1>1, <2>1, <2>4 DEF MacProvisionOK, MacProvisions
  <2>6. PICK w \in 1..3 : w = u.wrote + 1  BY <2>5
  <2>7. PICK f : f = MacAgentFiles[w]  OBVIOUS
  <2>8. /\ MacFirst(MacAgentFiles, w) = MacFirst(MacAgentFiles, u.wrote) \cup {f}
        /\ f \in MacTotal(MacAgentFiles) /\ Len(MacAgentFiles) = 3
    BY <2>5, <2>6, <2>7, MacAgentCounted
  <2>9. PICK a \in {"detach", "write"} : a = IF w = 3 THEN "detach" ELSE "write"  OBVIOUS
  <2>10. PICK d : d = [c.disk EXCEPT !.agent = @ \cup {f}]  OBVIOUS
  <2>11. PICK o, b : o = [u EXCEPT !.wrote = w, !.at = a] /\ b = [c EXCEPT !.disk = d]
    OBVIOUS
  <2>12. /\ macOp' = [macOp EXCEPT ![p] = o] /\ macDir' = [macDir EXCEPT ![n] = b]
    BY <1>3, <2>1, <2>2, <2>3, <2>6, <2>7, <2>8, <2>9, <2>10, <2>11 DEF MacWriteAgent
  <2>23. w \in 0..3 /\ a \in {"unseal", "attach", "mount", "write", "detach", "drop", "seal"}
    OBVIOUS
  <2>24. o \in MacProvisions  BY <2>4, <2>11, <2>23, Zenon DEF MacProvisions
  <2>13. o \in MacProvisions /\ o.kind = "provision" /\ o.name = n /\ o.at = a /\ o.wrote = w
    BY <2>2, <2>4, <2>11, <2>24 DEF MacProvisions
  <2>14. o \in MacCommands  BY <2>13 DEF MacCommands
  <2>15. c.disk \in MacDisks  BY <2>4 DEF MacBundles
  <2>16. d \in MacDisks /\ (d.os <=> c.disk.os) /\ d.agent = c.disk.agent \cup {f}
    BY <2>8, <2>10, <2>15 DEF MacDisks
  <2>17. b \in MacBundles /\ b.manifest = c.manifest /\ b.parts = c.parts /\ b.disk = d
    BY <2>4, <2>11, <2>16 DEF MacBundles
  <2>18. c # MacNoBundle /\ b # MacNoBundle /\ c.manifest = "bare"
    BY <1>1, <2>1, <2>4, <2>17 DEF MacProvisionOK, MacBundles, MacNoBundle
  <2>19. MacNameOK(b, m)  BY <2>4, <2>16, <2>17, <2>18 DEF MacNameOK
  <2>20. MacFirst(MacAgentFiles, w) \subseteq d.agent
    BY <2>4, <2>8, <2>16 DEF MacProvisionOK
  <2>21. MacProvisionOK(o, b, m)
    BY <2>9, <2>13, <2>17, <2>18, <2>20 DEF MacProvisionOK
  <2>22. macMount' = [macMount EXCEPT ![n] = m]  BY <1>1, <2>3, MacNameFacts
  <2> QED BY <1>1, <2>1, <2>2, <2>4, <2>12, <2>13, <2>14, <2>17, <2>19, <2>21, <2>22, MacProvisionTurn
<1> QED BY <1>2, <1>3

\* A clean detach flushes the volume.
LEMMA MacDetachStep ==
  ASSUME MacInv, NEW p \in MacProcs, MacDetach(p)
  PROVE  MacInv'
<1>1. /\ macOp[p].kind = "provision" /\ macOp[p].at = "detach"
      /\ UNCHANGED <<macStage, macIpsw, macVms>>
  BY DEF MacDetach, MacAt
<1>2. CASE MacGo(p, "drop") /\ UNCHANGED <<macMount, macDir>>  BY <1>1, <1>2, MacStopsStep
<1>3. CASE ~(MacGo(p, "drop") /\ UNCHANGED <<macMount, macDir>>)
  <2>1. PICK u : u = macOp[p]  OBVIOUS
  <2>2. PICK n \in MacNames : n = u.name  BY <1>1, <2>1, MacProvisionFacts
  <2>3. PICK c, k : c = macDir[n] /\ k = macMount[n]  OBVIOUS
  <2>4. /\ u \in MacProvisions /\ c \in MacBundles /\ MacNameOK(c, k)
        /\ MacProvisionOK(u, c, k)
    BY <1>1, <2>1, <2>2, <2>3, MacProvisionFacts
  <2>5. PICK d : d = [c.disk EXCEPT !.clean = TRUE]  OBVIOUS
  <2>6. PICK o, b, m : o = MacTo(u, "seal") /\ m = "off" /\ b = [c EXCEPT !.disk = d]
    OBVIOUS
  <2>7. /\ macOp' = [macOp EXCEPT ![p] = o] /\ macMount' = [macMount EXCEPT ![n] = m]
        /\ macDir' = [macDir EXCEPT ![n] = b]
    BY <1>3, <2>1, <2>2, <2>3, <2>5, <2>6 DEF MacDetach, MacGo, MacTo
  <2>8. /\ o \in MacCommands /\ o.kind = "provision" /\ o.name = n /\ o.at = "seal"
        /\ o.wrote = u.wrote
    BY <2>2, <2>4, <2>6, MacProvisionMoved
  <2>9. c.disk \in MacDisks  BY <2>4 DEF MacBundles
  <2>10. /\ d \in MacDisks /\ (d.os <=> c.disk.os) /\ d.agent = c.disk.agent /\ d.clean
    BY <2>5, <2>9 DEF MacDisks
  <2>11. b \in MacBundles /\ b.manifest = c.manifest /\ b.parts = c.parts /\ b.disk = d
    BY <2>4, <2>6, <2>10 DEF MacBundles
  <2>12. c # MacNoBundle /\ b # MacNoBundle /\ c.manifest = "bare" /\ m \in MacMounts
    BY <1>1, <2>1, <2>4, <2>6, <2>11 DEF MacProvisionOK, MacBundles, MacNoBundle, MacMounts
  <2>13. MacNameOK(b, m)  BY <2>4, <2>10, <2>11, <2>12 DEF MacNameOK
  <2>14. MacProvisionOK(o, b, m)
    BY <1>1, <2>1, <2>4, <2>6, <2>8, <2>10, <2>11, <2>12 DEF MacProvisionOK
  <2> QED BY <1>1, <2>1, <2>2, <2>7, <2>8, <2>11, <2>12, <2>13, <2>14, MacProvisionTurn
<1> QED BY <1>2, <1>3

\* The drop ends the provision and may leave the disk attached.
LEMMA MacDropStep ==
  ASSUME MacInv, NEW p \in MacProcs, MacDrop(p)
  PROVE  MacInv'
<1>1. /\ macOp[p].kind = "provision" /\ macOp[p].at = "drop"
      /\ MacEnd(p) /\ UNCHANGED <<macStage, macDir, macIpsw, macVms>>
  BY DEF MacDrop, MacAt
<1>2. PICK u : u = macOp[p]  OBVIOUS
<1>3. PICK n \in MacNames : n = u.name  BY <1>1, <1>2, MacProvisionFacts
<1>4. PICK b, k : b = macDir[n] /\ k = macMount[n]  OBVIOUS
<1>5. /\ b \in MacBundles /\ k \in MacMounts /\ MacNameOK(b, k) /\ MacProvisionOK(u, b, k)
  BY <1>1, <1>2, <1>3, <1>4, MacProvisionFacts
<1>6. PICK o : o = MacIdle  OBVIOUS
<1>7. macOp' = [macOp EXCEPT ![p] = o] /\ o \in MacCommands /\ o.kind = "idle"
  BY <1>1, <1>6, MacIdleApart DEF MacEnd
<1>8. PICK m \in {k, "off"} : macMount' = [macMount EXCEPT ![n] = m]
  <2>1. macMount' = macMount \/ macMount' = [macMount EXCEPT ![n] = "off"]
    BY <1>2, <1>3 DEF MacDrop
  <2> QED BY <1>4, <2>1, MacNameFacts
<1>9. m \in MacMounts  BY <1>5, <1>8 DEF MacMounts
<1>10. MacNameOK(b, m)  BY <1>1, <1>2, <1>5 DEF MacNameOK, MacProvisionOK
<1>11. macDir' = [macDir EXCEPT ![n] = b]  BY <1>1, <1>4, MacNameFacts
<1> QED BY <1>1, <1>2, <1>3, <1>5, <1>6, <1>7, <1>8, <1>9, <1>10, <1>11, MacProvisionTurn

\* Only a whole, detached disk is marked ready.
LEMMA MacSealStep ==
  ASSUME MacInv, NEW p \in MacProcs, MacSeal(p)
  PROVE  MacInv'
<1>1. /\ macOp[p].kind = "provision" /\ macOp[p].at = "seal"
      /\ MacEnd(p) /\ UNCHANGED <<macStage, macMount, macIpsw, macVms>>
  BY DEF MacSeal, MacAt
<1>2. \A d \in macVms' : MacWholeDisk(d)  BY <1>1 DEF MacInv
<1>3. CASE UNCHANGED macDir  BY <1>1, <1>2, <1>3, MacEnds
<1>4. CASE ~UNCHANGED macDir
  <2>1. PICK u : u = macOp[p]  OBVIOUS
  <2>2. PICK n \in MacNames : n = u.name  BY <1>1, <2>1, MacProvisionFacts
  <2>3. PICK c, m : c = macDir[n] /\ m = macMount[n]  OBVIOUS
  <2>4. /\ c \in MacBundles /\ m \in MacMounts /\ MacNameOK(c, m) /\ MacProvisionOK(u, c, m)
    BY <1>1, <2>1, <2>2, <2>3, MacProvisionFacts
  <2>5. PICK o, b : o = MacIdle /\ b = [c EXCEPT !.manifest = "agent"]  OBVIOUS
  <2>6. /\ macOp' = [macOp EXCEPT ![p] = o] /\ o \in MacCommands /\ o.kind = "idle"
        /\ macDir' = [macDir EXCEPT ![n] = b]
    BY <1>1, <1>4, <2>1, <2>2, <2>3, <2>5, MacIdleApart DEF MacEnd, MacSeal
  <2>7. b \in MacBundles /\ b.manifest = "agent" /\ b.parts = c.parts /\ b.disk = c.disk
    BY <2>4, <2>5 DEF MacBundles
  <2>8. u.wrote = 3 /\ m = "off" /\ c.disk.clean /\ c # MacNoBundle
    BY <1>1, <2>1, <2>4 DEF MacProvisionOK
  <2>9. 0 \in 0..2  OBVIOUS
  <2>10. MacTotal(MacAgentFiles) \subseteq c.disk.agent
    BY <2>4, <2>8, <2>9, MacAgentCounted DEF MacProvisionOK
  <2>11. c.disk.agent \subseteq MacTotal(MacAgentFiles)  BY <2>4 DEF MacBundles, MacDisks
  <2>12. MacWholeDisk(c.disk)
    BY <2>4, <2>8, <2>10, <2>11 DEF MacWholeDisk, MacNameOK
  <2>13. MacNameOK(b, m)  BY <2>4, <2>7, <2>8, <2>12 DEF MacNameOK
  <2>14. macMount' = [macMount EXCEPT ![n] = m]  BY <1>1, <2>3, MacNameFacts
  <2> QED BY <1>1, <2>1, <2>2, <2>4, <2>5, <2>6, <2>7, <2>13, <2>14, MacProvisionTurn
<1> QED BY <1>3, <1>4

\* A signal is noted.
LEMMA MacSignalStep ==
  ASSUME MacInv, NEW p \in MacProcs, MacSignal(p)
  PROVE  MacInv'
<1>1. /\ macOp[p].kind = "provision" /\ UNCHANGED <<macStage, macDir, macMount, macIpsw, macVms>>
  BY DEF MacSignal, MacBundlesAlone
<1>2. PICK u : u = macOp[p]  OBVIOUS
<1>3. PICK n \in MacNames : n = u.name  BY <1>1, <1>2, MacProvisionFacts
<1>4. PICK b, m : b = macDir[n] /\ m = macMount[n]  OBVIOUS
<1>5. /\ u \in MacProvisions /\ b \in MacBundles /\ m \in MacMounts /\ MacNameOK(b, m)
      /\ MacProvisionOK(u, b, m)
  BY <1>1, <1>2, <1>3, <1>4, MacProvisionFacts
<1>6. PICK o : o = [u EXCEPT !.signalled = TRUE]  OBVIOUS
<1>7. macOp' = [macOp EXCEPT ![p] = o]  BY <1>2, <1>6 DEF MacSignal
<1>8. /\ o \in MacProvisions /\ o.kind = "provision" /\ o.name = n /\ o.at = u.at
      /\ o.wrote = u.wrote
  BY <1>3, <1>5, <1>6 DEF MacProvisions
<1>9. o \in MacCommands  BY <1>8 DEF MacCommands
<1>10. MacProvisionOK(o, b, m)  BY <1>5, <1>8 DEF MacProvisionOK
<1>11. macDir' = [macDir EXCEPT ![n] = b] /\ macMount' = [macMount EXCEPT ![n] = m]
  BY <1>1, <1>4, MacNameFacts
<1> QED BY <1>1, <1>2, <1>3, <1>5, <1>7, <1>8, <1>9, <1>10, <1>11, MacProvisionTurn

\* What is known of a creation.
LEMMA MacCreateFacts ==
  ASSUME MacInv, NEW p \in MacProcs, macOp[p].kind = "create"
  PROVE  /\ macOp[p] \in MacCreates /\ macOp[p].name \in MacNames
         /\ MacCreateOK(macOp[p], macDir[macOp[p].name])
         /\ \A q \in MacProcs \ {p} : MacApart(macOp[p], macOp[q])
<1>1. macOp[p] \in MacCommands /\ macOp[p].name \in MacNames  BY MacFacts
<1>2. macOp[p] \in MacCreates  BY <1>1, MacKinds
<1> QED BY <1>1, <1>2, MacFacts DEF MacOpOK

\* A creation begins under the shared lock on a ready bundle.
LEMMA MacCreateStep ==
  ASSUME MacInv, NEW p \in MacProcs, NEW n \in MacNames, MacCreate(p, n)
  PROVE  MacInv'
<1>1. PICK o : o = [kind |-> "create", name |-> n, at |-> "disk", lock |-> "shared",
                    disk |-> MacBlankDisk]
  OBVIOUS
<1>2. /\ macOp' = [macOp EXCEPT ![p] = o] /\ MacTryLock(n, FALSE)
      /\ macDir[n] # MacNoBundle /\ macDir[n].manifest = "agent"
      /\ UNCHANGED <<macDir, macStage, macMount, macIpsw, macVms>>
  BY <1>1 DEF MacCreate, MacBundlesAlone, MacBootable, MacValid
<1>3. MacBlankDisk \in MacDisks  BY DEF MacBlankDisk, MacDisks
<1>4. /\ o \in MacCreates /\ o.kind = "create" /\ o.name = n /\ o.at = "disk"
      /\ o.lock = "shared"
  BY <1>1, <1>3 DEF MacCreates
<1>5. o \in MacCommands  BY <1>4 DEF MacCommands
<1>6. MacOpOK(o, macDir[n], macStage[n], macMount[n], macIpsw)
  BY <1>2, <1>4 DEF MacOpOK, MacCreateOK
<1>7. ASSUME NEW q \in MacProcs \ {p} PROVE MacApart(o, macOp[q])
  <2>1. macOp[q].kind = "provision" /\ macOp[q].name = n => macOp[q].lock \in {"none", "shared"}
    BY <1>2 DEF MacTryLock
  <2>2. macOp[q] \in MacCommands  BY DEF MacInv, MacTypeOK
  <2>3. macOp[q].kind = "provision" => macOp[q].lock = "exclusive"
    BY <2>2, MacKinds DEF MacProvisions
  <2> QED BY <1>4, <2>1, <2>3 DEF MacApart, MacExcludes
<1>8. \A d \in macVms' : MacWholeDisk(d)  BY <1>2 DEF MacInv
<1> QED BY <1>2, <1>4, <1>5, <1>6, <1>7, <1>8, MacOwnStep

\* The disk is cloned while the shared lock keeps the bundle ready.
LEMMA MacCloneDiskStep ==
  ASSUME MacInv, NEW p \in MacProcs, MacCloneDisk(p)
  PROVE  MacInv'
<1>1. /\ macOp[p].kind = "create" /\ macOp[p].at = "disk"
      /\ UNCHANGED <<macDir, macStage, macMount, macIpsw, macVms>>
  BY DEF MacCloneDisk, MacAt, MacBundlesAlone
<1>2. \A d \in macVms' : MacWholeDisk(d)  BY <1>1 DEF MacInv
<1>3. CASE MacEnd(p)  BY <1>1, <1>2, <1>3, MacEnds
<1>4. CASE ~MacEnd(p)
  <2>1. PICK u : u = macOp[p]  OBVIOUS
  <2>2. PICK n \in MacNames : n = u.name  BY <1>1, <2>1, MacCreateFacts
  <2>3. PICK b : b = macDir[n]  OBVIOUS
  <2>4. PICK d : d = b.disk  OBVIOUS
  <2>5. PICK o : o = [u EXCEPT !.at = "aux", !.disk = d]  OBVIOUS
  <2>6. macOp' = [macOp EXCEPT ![p] = o]
    BY <1>4, <2>1, <2>2, <2>3, <2>4, <2>5 DEF MacCloneDisk
  <2>7. u \in MacCreates /\ MacCreateOK(u, b)  BY <1>1, <2>1, <2>2, <2>3, MacCreateFacts
  <2>8. u.lock = "shared" /\ b # MacNoBundle /\ b.manifest = "agent"
    BY <1>1, <2>1, <2>7 DEF MacCreateOK
  <2>9. b \in MacBundles /\ MacNameOK(b, macMount[n])
    BY <2>3, <2>8, MacNameFacts DEF MacPlaces
  <2>10. d \in MacDisks /\ MacWholeDisk(d)  BY <2>4, <2>8, <2>9 DEF MacBundles, MacNameOK
  <2>11. /\ o \in MacCreates /\ o.kind = "create" /\ o.name = n /\ o.at = "aux"
         /\ o.lock = "shared" /\ o.disk = d
    BY <2>2, <2>5, <2>7, <2>8, <2>10 DEF MacCreates
  <2>12. o \in MacCommands  BY <2>11 DEF MacCommands
  <2>13. MacOpOK(o, macDir[n], macStage[n], macMount[n], macIpsw)
    BY <2>3, <2>8, <2>10, <2>11 DEF MacOpOK, MacCreateOK
  <2>14. ASSUME NEW q \in MacProcs \ {p} PROVE MacApart(o, macOp[q])
    <3>1. MacApart(u, macOp[q])  BY <1>1, <2>1, MacCreateFacts
    <3> QED BY <1>1, <2>1, <2>2, <2>8, <2>11, <3>1, MacSameLocks
  <2> QED BY <1>1, <1>2, <2>6, <2>11, <2>12, <2>13, <2>14, MacOwnStep
<1> QED BY <1>3, <1>4

\* The second clone ends the shared lock.
LEMMA MacCloneAuxStep ==
  ASSUME MacInv, NEW p \in MacProcs, MacCloneAux(p)
  PROVE  MacInv'
<1>1. /\ macOp[p].kind = "create" /\ macOp[p].at = "aux"
      /\ UNCHANGED <<macDir, macStage, macMount, macIpsw, macVms>>
  BY DEF MacCloneAux, MacAt, MacBundlesAlone
<1>2. \A d \in macVms' : MacWholeDisk(d)  BY <1>1 DEF MacInv
<1>3. CASE MacEnd(p)  BY <1>1, <1>2, <1>3, MacEnds
<1>4. CASE ~MacEnd(p)
  <2>1. PICK u : u = macOp[p]  OBVIOUS
  <2>2. PICK n \in MacNames : n = u.name  BY <1>1, <2>1, MacCreateFacts
  <2>3. PICK o : o = [u EXCEPT !.at = "boot", !.lock = "none"]  OBVIOUS
  <2>4. macOp' = [macOp EXCEPT ![p] = o]  BY <1>4, <2>1, <2>3 DEF MacCloneAux
  <2>5. u \in MacCreates /\ MacCreateOK(u, macDir[n])  BY <1>1, <2>1, <2>2, MacCreateFacts
  <2>6. /\ o \in MacCreates /\ o.kind = "create" /\ o.name = n /\ o.at = "boot"
        /\ o.lock = "none" /\ o.disk = u.disk
    BY <2>2, <2>3, <2>5 DEF MacCreates
  <2>7. o \in MacCommands  BY <2>6 DEF MacCommands
  <2>8. MacOpOK(o, macDir[n], macStage[n], macMount[n], macIpsw)
    BY <1>1, <2>1, <2>5, <2>6 DEF MacOpOK, MacCreateOK
  <2>9. ASSUME NEW q \in MacProcs \ {p} PROVE MacApart(o, macOp[q])
    <3>1. MacApart(u, macOp[q])  BY <1>1, <2>1, MacCreateFacts
    <3> QED BY <1>1, <2>1, <2>2, <2>6, <3>1, MacSameLocks
  <2> QED BY <1>1, <1>2, <2>4, <2>6, <2>7, <2>8, <2>9, MacOwnStep
<1> QED BY <1>3, <1>4

\* The VM boots from its clone.
LEMMA MacBootStep ==
  ASSUME MacInv, NEW p \in MacProcs, MacBoot(p)
  PROVE  MacInv'
<1>1. /\ macOp[p].kind = "create" /\ macOp[p].at = "boot" /\ MacEnd(p)
      /\ UNCHANGED <<macDir, macStage, macMount, macIpsw>>
      /\ macVms' \in {macVms, macVms \cup {macOp[p].disk}}
  BY DEF MacBoot, MacAt
<1>2. MacWholeDisk(macOp[p].disk)  BY <1>1, MacCreateFacts DEF MacCreateOK
<1>3. \A d \in macVms : MacWholeDisk(d)  BY DEF MacInv
<1>4. \A d \in macVms' : MacWholeDisk(d)  BY <1>1, <1>2, <1>3
<1> QED BY <1>1, <1>4, MacEnds

\* A process is killed.
LEMMA MacKillStep ==
  ASSUME MacInv, NEW p \in MacProcs, MacKill(p)
  PROVE  MacInv'
<1>1. /\ macOp[p].kind # "idle" /\ MacEnd(p)
      /\ UNCHANGED <<macDir, macStage, macMount, macIpsw, macVms>>
  BY DEF MacKill, MacBundlesAlone
<1>2. \A d \in macVms' : MacWholeDisk(d)  BY <1>1 DEF MacInv
<1> QED BY <1>1, <1>2, MacEnds

\* Every step keeps the invariant.
LEMMA MacStepInv ==
  ASSUME MacInv, [MacNext]_macVars
  PROVE  MacInv'
<1>1. CASE UNCHANGED macVars  BY <1>1 DEF MacInv, MacTypeOK, macVars
<1>2. CASE MacNext
  <2>1. PICK p \in MacProcs :
          MacInstallSteps(p) \/ MacProvisionSteps(p) \/ MacCreateSteps(p) \/ MacKill(p)
    BY <1>2 DEF MacNext
  <2>2. CASE MacInstallSteps(p)
    BY <2>2, MacInstallStep, MacFetchStep, MacOpensStep, MacChunkStep, MacDownloadEndsStep,
       MacLoadStep, MacWriteStep, MacRunStep, MacManifestStep, MacPublishStep, MacTidyStep
    DEF MacInstallSteps
  <2>3. CASE MacProvisionSteps(p)
    BY <2>3, MacProvisionStep, MacUnsealStep, MacAttachStep, MacMountStep, MacAgentStep,
       MacDetachStep, MacDropStep, MacSealStep, MacSignalStep
    DEF MacProvisionSteps
  <2>4. CASE MacCreateSteps(p)
    BY <2>4, MacCreateStep, MacCloneDiskStep, MacCloneAuxStep, MacBootStep DEF MacCreateSteps
  <2>5. CASE MacKill(p)  BY <2>5, MacKillStep
  <2> QED BY <2>1, <2>2, <2>3, <2>4, <2>5
<1> QED BY <1>1, <1>2
=============================================================================
