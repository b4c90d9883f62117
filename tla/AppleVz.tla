------------------------------ MODULE AppleVz ------------------------------
(***************************************************************************)
(* The Apple Virtualization.framework backend, seen by one VM instance     *)
(* (husker-vmm/src/apple_vz.rs).  Every call into the framework is a       *)
(* closure on the VM's serial queue; the async caller only observes it and *)
(* may stop observing (a 30 s timeout, a dropped future) while the closure *)
(* still runs.  The framework itself is external: VzAllowed and the        *)
(* Guest... actions say what the calls above rely on.                      *)
(***************************************************************************)
EXTENDS Naturals, Sequences

CONSTANTS
  VzConfigs,      \* the configurations callers ask for
  VzMaxCalls      \* bound on the stop/pause/resume/destroy calls explored

ASSUME VzConfigAssumption ==
  VzConfigs \subseteq [offline : BOOLEAN, volume : BOOLEAN, seed : BOOLEAN,
                       shares : BOOLEAN, balloon : BOOLEAN]

VARIABLES
  vzInst,         \* the registered instance: registration, handle, stored info
  vzMachine,      \* the framework's own state of the machine
  vzQueue,        \* closures dispatched to the serial queue and not yet run
  vzOp,           \* where each backend call stands
  vzCalls         \* calls made so far

vzNative == <<vzInst, vzMachine, vzQueue, vzOp>>

VzOps == {"create", "destroy", "stop", "pause", "resume"}

VzNoInstance == [reg |-> "none", vm |-> FALSE, inflight |-> FALSE,
                 info |-> "none", start |-> "none", offline |-> TRUE,
                 devices |-> <<>>]

VzNativeInit ==
  /\ vzInst = VzNoInstance
  /\ vzMachine = "none"
  /\ vzQueue = <<>>
  /\ vzOp = [o \in VzOps |-> "idle"]
  /\ vzCalls = 0

VzHeld == vzInst.reg = "held"
VzAlive == vzMachine \in {"starting", "running", "paused"}
VzEnded == vzMachine \in {"stopped", "error"}

-----------------------------------------------------------------------------
(* Configuration. *)

VzNet(c) == IF c.offline THEN <<>> ELSE <<"net">>

\* What the queued closure attaches: the root disk first, then the volume,
\* then the seed; no network device for an offline VM; a vsock device always;
\* a balloon only when asked for.
VzDevices(c) ==
  <<"root">>
  \o (IF c.volume THEN <<"volume">> ELSE <<>>)
  \o (IF c.seed THEN <<"seed">> ELSE <<>>)
  \o VzNet(c)
  \o <<"vsock">>
  \o (IF c.balloon THEN <<"balloon">> ELSE <<>>)

\* select_backend and validate_for_backend, then the refusal of host shares.
VzServable(c) == ~c.shares

\* create_vm up to the point where the configuration closure is queued.  The
\* creation lock of this UUID is held until the call settles.
VzCreateRegister(c) ==
  /\ vzOp["create"] = "idle" /\ vzOp["destroy"] = "idle"
  /\ vzInst.reg = "none"
  /\ VzServable(c)
  /\ vzInst' = [VzNoInstance EXCEPT !.reg = "held", !.inflight = TRUE,
                                    !.info = "creating", !.offline = c.offline,
                                    !.devices = VzDevices(c)]
  /\ vzQueue' = Append(vzQueue, "configure")
  /\ vzOp' = [vzOp EXCEPT !["create"] = "configure"]
  /\ UNCHANGED <<vzMachine, vzCalls>>

\* The configuration was published: dispatch the start and await it.
VzCreateStart ==
  /\ vzOp["create"] = "configure"
  /\ VzHeld /\ ~vzInst.inflight /\ vzInst.vm
  /\ vzQueue' = Append(vzQueue, "start")
  /\ vzInst' = [vzInst EXCEPT !.start = "pending"]
  /\ vzOp' = [vzOp EXCEPT !["create"] = "start"]
  /\ UNCHANGED <<vzMachine, vzCalls>>

\* create_vm returns.  Only a confirmed start records a running VM; a refused
\* configuration, a refused start and an observation that ran out of time all
\* record a failed one, whatever the queue still does.
VzCreateSettle ==
  /\ vzOp["create"] \in {"configure", "start"}
  /\ vzOp["create"] = "configure" => (vzInst.inflight \/ ~vzInst.vm)
  /\ vzInst' = [vzInst EXCEPT !.info =
                  IF vzOp["create"] = "start" /\ vzInst.start = "ok"
                  THEN "running" ELSE "failed"]
  /\ vzOp' = [vzOp EXCEPT !["create"] = "idle"]
  /\ UNCHANGED <<vzMachine, vzQueue, vzCalls>>

-----------------------------------------------------------------------------
(* The serial queue. *)

\* In which machine states the framework accepts a call (external).
VzAllowed(call) ==
  CASE call = "start"  -> vzMachine = "stopped"
    [] call = "stop"   -> vzMachine \in {"running", "paused"}
    [] call = "pause"  -> vzMachine = "running"
    [] call = "resume" -> vzMachine = "paused"
    [] OTHER           -> FALSE

\* publish_configuration: the closure hands the machine to the instance it was
\* made for, or marks it failed, even when nobody waits for it any more.
VzRunConfigure(ok) ==
  /\ vzQueue # <<>> /\ Head(vzQueue) = "configure"
  /\ vzQueue' = Tail(vzQueue)
  /\ vzInst' = IF ok THEN [vzInst EXCEPT !.inflight = FALSE, !.vm = TRUE]
               ELSE [vzInst EXCEPT !.inflight = FALSE, !.info = "failed"]
  /\ vzMachine' = IF ok THEN "stopped" ELSE vzMachine
  /\ UNCHANGED <<vzOp, vzCalls>>

\* dispatch_vz_op: the closure calls the framework, whose completion handler
\* answers the waiting call; a start completes later (VzStartCompletes).
VzRunOperation ==
  /\ vzQueue # <<>> /\ Head(vzQueue) # "configure"
  /\ LET call == Head(vzQueue) IN
     /\ vzMachine' = IF ~VzAllowed(call) THEN vzMachine
                     ELSE CASE call = "start"  -> "starting"
                            [] call = "stop"   -> "stopped"
                            [] call = "pause"  -> "paused"
                            [] call = "resume" -> "running"
     /\ vzInst' = IF call = "start" /\ ~VzAllowed(call)
                  THEN [vzInst EXCEPT !.start = "error"] ELSE vzInst
     /\ vzOp' = CASE call = "pause" /\ vzOp["pause"] = "asked" ->
                       [vzOp EXCEPT !["pause"] = IF VzAllowed(call) THEN "ok" ELSE "idle"]
                  [] call = "resume" /\ vzOp["resume"] = "asked" ->
                       [vzOp EXCEPT !["resume"] = IF VzAllowed(call) THEN "ok" ELSE "idle"]
                  [] OTHER -> vzOp
  /\ vzQueue' = Tail(vzQueue)
  /\ UNCHANGED vzCalls

VzStartCompletes(ok) ==
  /\ vzMachine = "starting"
  /\ vzMachine' = IF ok THEN "running" ELSE "stopped"
  /\ vzInst' = [vzInst EXCEPT !.start = IF ok THEN "ok" ELSE "error"]
  /\ UNCHANGED <<vzQueue, vzOp, vzCalls>>

\* The guest powers itself off, or the framework abandons it (external).
VzGuestEnds(state) ==
  /\ vzMachine \in {"running", "paused"}
  /\ vzMachine' = state
  /\ UNCHANGED <<vzInst, vzQueue, vzOp, vzCalls>>

-----------------------------------------------------------------------------
(* Destruction. *)

VzForgotten(inst) == [inst EXCEPT !.reg = "forgotten", !.info = "stopped"]

\* destroy_vm: refused while the configuration is in flight, immediate when no
\* machine was ever made, otherwise a force stop is queued.
VzDestroyBegin ==
  /\ vzOp["destroy"] = "idle" /\ vzOp["create"] = "idle"
  /\ VzHeld /\ ~vzInst.inflight
  /\ vzCalls < VzMaxCalls
  /\ vzCalls' = vzCalls + 1
  /\ IF vzInst.vm
     THEN /\ vzQueue' = Append(vzQueue, "stop")
          /\ vzOp' = [vzOp EXCEPT !["destroy"] = "stopping"]
          /\ UNCHANGED vzInst
     ELSE /\ vzInst' = VzForgotten(vzInst)
          /\ UNCHANGED <<vzQueue, vzOp>>
  /\ UNCHANGED vzMachine

\* The stop was answered (or refused): only the machine's own stopped state
\* lets the instance go.  Anything else keeps it for a retry.
VzDestroyJudge ==
  /\ vzOp["destroy"] = "stopping" /\ vzQueue = <<>>
  /\ vzInst' = IF vzMachine = "stopped" THEN VzForgotten(vzInst) ELSE vzInst
  /\ vzOp' = [vzOp EXCEPT !["destroy"] = "idle"]
  /\ UNCHANGED <<vzMachine, vzQueue, vzCalls>>

\* The observer gives up after 5 s, or is cancelled; the closure stays queued.
VzDestroyUnseen ==
  /\ vzOp["destroy"] = "stopping"
  /\ vzOp' = [vzOp EXCEPT !["destroy"] = "idle"]
  /\ UNCHANGED <<vzInst, vzMachine, vzQueue, vzCalls>>

-----------------------------------------------------------------------------
(* The calls of an ordinary VM. *)

VzCall(o) == /\ vzOp[o] = "idle" /\ VzHeld /\ vzInst.vm
             /\ vzCalls < VzMaxCalls
             /\ vzCalls' = vzCalls + 1

\* stop_vm asks the guest; a refusal is accepted only from a machine that has
\* already stopped.
VzStopRequest ==
  /\ VzCall("stop")
  /\ vzMachine \in {"running", "stopped"}
  /\ vzOp' = [vzOp EXCEPT !["stop"] = "grace"]
  /\ UNCHANGED <<vzInst, vzMachine, vzQueue>>

\* The grace period ends with the guest still up: force it off.
VzStopForce ==
  /\ vzOp["stop"] = "grace" /\ ~VzEnded
  /\ vzQueue' = Append(vzQueue, "stop")
  /\ vzOp' = [vzOp EXCEPT !["stop"] = "forced"]
  /\ UNCHANGED <<vzInst, vzMachine, vzCalls>>

\* stop_vm returns once the machine has ended, and records what it found.  A
\* forced stop that was refused for a live machine is an error.
VzStopSettle ==
  /\ vzOp["stop"] \in {"grace", "forced"}
  /\ vzOp["stop"] = "grace" => VzEnded
  /\ vzOp["stop"] = "forced" => vzQueue = <<>>
  /\ vzInst' = IF VzEnded
               THEN [vzInst EXCEPT !.info =
                       IF vzMachine = "error" THEN "failed" ELSE "stopped"]
               ELSE vzInst
  /\ vzOp' = [vzOp EXCEPT !["stop"] = "idle"]
  /\ UNCHANGED <<vzMachine, vzQueue, vzCalls>>

\* pause_vm and resume_vm dispatch, and record the state they asked for once
\* the completion handler answered without error.
VzSwitch(o) ==
  \/ /\ VzCall(o)
     /\ vzQueue' = Append(vzQueue, o)
     /\ vzOp' = [vzOp EXCEPT ![o] = "asked"]
     /\ UNCHANGED <<vzInst, vzMachine>>
  \/ /\ vzOp[o] = "ok"
     /\ vzInst' = [vzInst EXCEPT !.info =
                     IF o = "pause" THEN "paused" ELSE "running"]
     /\ vzOp' = [vzOp EXCEPT ![o] = "idle"]
     /\ UNCHANGED <<vzMachine, vzQueue, vzCalls>>

\* vm_info: a running or paused record is checked against the machine; every
\* other record is returned as stored.
VzInfo ==
  /\ VzHeld /\ vzInst.info \in {"running", "paused"} /\ VzEnded
  /\ vzInst' = [vzInst EXCEPT !.info =
                  IF vzMachine = "error" THEN "failed" ELSE "stopped"]
  /\ UNCHANGED <<vzMachine, vzQueue, vzOp, vzCalls>>

-----------------------------------------------------------------------------
\* What the framework and the queue do, whoever called.
VzBackground ==
  \/ \E ok \in BOOLEAN : VzRunConfigure(ok)
  \/ VzRunOperation
  \/ \E ok \in BOOLEAN : VzStartCompletes(ok)
  \/ \E s \in {"stopped", "error"} : VzGuestEnds(s)

\* The steps of create_vm and destroy_vm after they were called.
VzProgress ==
  \/ VzCreateStart
  \/ VzCreateSettle
  \/ VzDestroyJudge
  \/ VzDestroyUnseen
=============================================================================
