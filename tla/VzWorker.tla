------------------------------ MODULE VzWorker ------------------------------
(***************************************************************************)
(* The supervised child that hosts one offline VZ machine per creation     *)
(* generation: the daemon's registry entry and WorkerOwner (apple_vz_      *)
(* worker.rs, vz_worker_owner.rs), the child's serve loop and its stop     *)
(* receipt (vz_worker.rs), and inside the child the native backend of      *)
(* AppleVz.  The alternative without a child, where the daemon calls the   *)
(* native backend directly, is the mode "direct".                          *)
(***************************************************************************)
EXTENDS AppleVz

CONSTANTS
  WkrMaxDestroys,  \* bound on the destroy attempts explored
  WkrStreamSlots   \* guest streams the child serves at once

VARIABLES
  wkrMode,     \* "direct" or "child": how this daemon runs VZ
  wkrEntry,    \* the registry entry of the generation
  wkrOwner,    \* the entry's process state and its two creation flags
  wkrFiles,    \* the entry's claim on the runtime directory
  wkrDir,      \* what is at the runtime path: absent, own or foreign
  wkrInfo,     \* the state the daemon reports for the VM
  wkrProc,     \* the child: none, booting, serving or exited
  wkrStop,     \* the child's stop state and the receipt file
  wkrMaker,    \* where create_vm stands
  wkrEnder,    \* where destroy_vm stands
  wkrStreams,  \* guest streams open through the child
  wkrDestroys  \* destroy attempts so far

wkrVars == <<vzInst, vzMachine, vzQueue, vzOp, vzCalls, wkrMode, wkrEntry,
             wkrOwner, wkrFiles, wkrDir, wkrInfo, wkrProc, wkrStop, wkrMaker,
             wkrEnder, wkrStreams, wkrDestroys>>
wkrParent == <<wkrEntry, wkrOwner, wkrFiles, wkrDir, wkrInfo, wkrMaker,
               wkrEnder, wkrDestroys>>
wkrChild == <<wkrProc, wkrStop, wkrStreams>>

WkrInit ==
  /\ VzNativeInit
  /\ wkrMode \in {"direct", "child"}
  /\ wkrEntry = "none"
  /\ wkrOwner = [attempted |-> FALSE, fenced |-> FALSE, child |-> FALSE,
                 reaped |-> FALSE, frame |-> FALSE]
  /\ wkrFiles = [mine |-> FALSE, collision |-> FALSE, removed |-> FALSE,
                 confirmed |-> FALSE]
  /\ wkrDir \in {"absent", "foreign"}
  /\ wkrInfo = "none"
  /\ wkrProc = "none"
  /\ wkrStop = [attempted |-> FALSE, confirmed |-> FALSE, receipt |-> FALSE]
  /\ wkrMaker = "idle" /\ wkrEnder = "idle"
  /\ wkrStreams = 0 /\ wkrDestroys = 0

\* validate_request: a Create is served only offline, without a volume, seed,
\* share or balloon, for the generation the child was started for.
WkrAccepts(c) == c.offline /\ ~c.volume /\ ~c.seed /\ ~c.shares /\ ~c.balloon

-----------------------------------------------------------------------------
(* The daemon's create_vm. *)

\* WorkerOwner::new plans without effect; the entry is registered before any
\* file or child exists.
WkrRegister ==
  /\ wkrMode = "child" /\ wkrMaker = "idle" /\ wkrEntry = "none"
  /\ \E c \in VzConfigs : WkrAccepts(c)
  /\ wkrEntry' = "held"
  /\ wkrInfo' = "creating"
  /\ wkrMaker' = "prepare"
  /\ UNCHANGED <<vzNative, vzCalls, wkrMode, wkrOwner, wkrFiles, wkrDir, wkrChild,
                 wkrEnder, wkrDestroys>>

\* prepare_runtime makes the private directory, or notes that somebody else's
\* is in the way; either failure ends the call and keeps the entry.
WkrPrepare ==
  /\ wkrMaker = "prepare"
  /\ IF wkrDir = "absent"
     THEN /\ wkrDir' = "own"
          /\ wkrFiles' = [wkrFiles EXCEPT !.mine = TRUE]
          /\ wkrMaker' = "launch"
     ELSE /\ wkrFiles' = [wkrFiles EXCEPT !.collision = TRUE]
          /\ wkrMaker' = "idle"
          /\ UNCHANGED wkrDir
  /\ UNCHANGED <<vzNative, vzCalls, wkrMode, wkrEntry, wkrOwner, wkrInfo, wkrChild,
                 wkrEnder, wkrDestroys>>

\* launch: single use, fenced by a destroy.  Verification or spawn may fail;
\* a spawned child is retained in the same step.
WkrLaunch(spawned) ==
  /\ wkrMaker = "launch" /\ ~wkrOwner.attempted /\ ~wkrOwner.fenced
  /\ wkrOwner' = [wkrOwner EXCEPT !.attempted = TRUE, !.child = spawned]
  /\ wkrProc' = IF spawned THEN "booting" ELSE wkrProc
  /\ wkrMaker' = IF spawned THEN "describe" ELSE "idle"
  /\ UNCHANGED <<vzNative, vzCalls, wkrMode, wkrEntry, wkrFiles, wkrDir, wkrInfo,
                 wkrStop, wkrStreams, wkrEnder, wkrDestroys>>

\* The creation lock is free from here on.  exchange: the child answers the
\* identity handshake over a connection the creation then has in hand.
WkrDescribe ==
  /\ wkrMaker = "describe"
  /\ wkrProc = "serving" /\ ~wkrOwner.reaped
  /\ wkrMaker' = "connected"
  /\ UNCHANGED <<vzNative, vzCalls, wkrMode, wkrEntry, wkrOwner, wkrFiles, wkrDir,
                 wkrInfo, wkrChild, wkrEnder, wkrDestroys>>

\* The flag is raised before the first byte of the Create frame is written.
WkrMarkFrame ==
  /\ wkrMaker = "connected"
  /\ wkrOwner' = [wkrOwner EXCEPT !.frame = TRUE]
  /\ wkrMaker' = "sending"
  /\ UNCHANGED <<vzNative, vzCalls, wkrMode, wkrEntry, wkrFiles, wkrDir, wkrInfo,
                 wkrChild, wkrEnder, wkrDestroys>>

\* The child reads the frame, which it may do after the daemon has stopped
\* waiting for it: the first Create reaches the native backend.
WkrServeCreate ==
  /\ wkrOwner.frame
  /\ wkrProc = "serving" /\ ~wkrStop.attempted
  /\ \E c \in VzConfigs : WkrAccepts(c) /\ VzCreateRegister(c)
  /\ wkrStop' = [wkrStop EXCEPT !.attempted = TRUE]
  /\ wkrMaker' = IF wkrMaker = "sending" THEN "reply" ELSE wkrMaker
  /\ UNCHANGED <<wkrMode, wkrEntry, wkrOwner, wkrFiles, wkrDir, wkrInfo, wkrProc,
                 wkrStreams, wkrEnder, wkrDestroys>>

\* create_vm ends: a running reply is published only while the entry is still
\* registered and its child not reaped; an error, a timeout or a lost child
\* records a failed VM.
WkrPublish ==
  /\ wkrMaker \in {"describe", "connected", "sending", "reply"}
  /\ wkrEnder = "idle"
  /\ wkrMaker' = "idle"
  /\ wkrInfo' = CASE wkrEntry # "held" \/ wkrOwner.reaped -> wkrInfo
                  [] wkrMaker = "reply" /\ wkrProc = "serving"
                     /\ vzOp["create"] = "idle" /\ vzInst.info = "running" -> "running"
                  [] OTHER -> "failed"
  /\ UNCHANGED <<vzNative, vzCalls, wkrMode, wkrEntry, wkrOwner, wkrFiles, wkrDir,
                 wkrChild, wkrEnder, wkrDestroys>>

\* The caller's future is dropped at an await; whatever was started stays.
WkrCancelCreate ==
  /\ wkrMaker # "idle"
  /\ wkrMaker' = "idle"
  /\ UNCHANGED <<vzNative, vzCalls, wkrMode, wkrEntry, wkrOwner, wkrFiles, wkrDir,
                 wkrInfo, wkrChild, wkrEnder, wkrDestroys>>

-----------------------------------------------------------------------------
(* The child. *)

WkrBoot ==
  /\ wkrProc = "booting"
  /\ wkrProc' = "serving"
  /\ UNCHANGED <<vzNative, vzCalls, wkrMode, wkrParent, wkrStop, wkrStreams>>

\* The machine belongs to a framework helper: when the child dies the machine
\* may go with it or go on running (external).
WkrOrphaned == IF VzAlive THEN {"stopped", vzMachine} ELSE {vzMachine}

WkrDies ==
  /\ wkrProc' = "exited"
  /\ vzMachine' \in WkrOrphaned
  /\ vzInst' = VzNoInstance
  /\ vzQueue' = <<>>
  /\ vzOp' = [o \in VzOps |-> "idle"]
  /\ wkrStreams' = 0

\* The lifetime watchdog, the parent-pipe watchdog, or a crash.
WkrExit ==
  /\ wkrProc \in {"booting", "serving"}
  /\ WkrDies
  /\ UNCHANGED <<vzCalls, wkrMode, wkrParent, wkrStop>>

\* A Destroy request inside the child, before the native stop was confirmed:
\* it starts the native destruction, which may be refused.
WkrServeDestroy ==
  /\ wkrEnder = "asking" /\ wkrProc = "serving" /\ ~wkrStop.confirmed
  /\ VzDestroyBegin
  /\ wkrStop' = IF vzInst'.reg = "forgotten" THEN [wkrStop EXCEPT !.confirmed = TRUE]
                ELSE wkrStop
  /\ UNCHANGED <<wkrMode, wkrParent, wkrProc, wkrStreams>>

\* The native backend has forgotten the machine: the proof is retained at once
\* and the receipt persisted, or left for the next Destroy request to persist.
WkrConfirmStop(receipt) ==
  /\ wkrProc = "serving"
  /\ vzInst.reg = "forgotten" /\ vzOp["destroy"] = "idle"
  /\ ~wkrStop.receipt
  /\ wkrStop' = [wkrStop EXCEPT !.confirmed = TRUE, !.receipt = receipt]
  /\ UNCHANGED <<vzNative, vzCalls, wkrMode, wkrParent, wkrProc, wkrStreams>>

\* Connect: one of the child's stream slots joins the daemon to the guest.
WkrConnect ==
  /\ wkrProc = "serving" /\ wkrEntry = "held" /\ ~wkrOwner.reaped
  /\ vzMachine = "running" /\ VzHeld /\ vzInst.vm
  /\ wkrStreams < WkrStreamSlots
  /\ wkrStreams' = wkrStreams + 1
  /\ UNCHANGED <<vzNative, vzCalls, wkrMode, wkrParent, wkrProc, wkrStop>>

WkrDisconnect ==
  /\ wkrStreams > 0
  /\ wkrStreams' = wkrStreams - 1
  /\ UNCHANGED <<vzNative, vzCalls, wkrMode, wkrParent, wkrProc, wkrStop>>

\* vm_info asks the child; no answer and an error answer are a failed VM.
WkrInspect ==
  /\ wkrEntry = "held" /\ wkrMode = "child"
  /\ wkrInfo' = IF wkrProc = "serving" /\ ~wkrOwner.reaped /\ VzHeld
                THEN vzInst.info ELSE "failed"
  /\ UNCHANGED <<vzNative, vzCalls, wkrMode, wkrEntry, wkrOwner, wkrFiles, wkrDir,
                 wkrMaker, wkrEnder, wkrDestroys, wkrChild>>

-----------------------------------------------------------------------------
(* The daemon's destroy_vm. *)

\* It takes the creation lock and the entry's files, which create_vm holds
\* until the child is launched.  A child that may hold a machine is first
\* asked to stop it; the asking is bounded and its outcome is not trusted.
WkrDestroy ==
  /\ wkrMode = "child" /\ wkrEnder = "idle" /\ wkrEntry = "held"
  /\ wkrMaker \notin {"prepare", "launch"}
  /\ wkrDestroys < WkrMaxDestroys
  /\ wkrDestroys' = wkrDestroys + 1
  /\ wkrEnder' = IF wkrOwner.frame /\ ~wkrOwner.reaped THEN "asking" ELSE "killing"
  /\ UNCHANGED <<vzNative, vzCalls, wkrMode, wkrEntry, wkrOwner, wkrFiles, wkrDir,
                 wkrInfo, wkrMaker, wkrChild>>

WkrAskedEnough ==
  /\ wkrEnder = "asking"
  /\ wkrEnder' = "killing"
  /\ UNCHANGED <<vzNative, vzCalls, wkrMode, wkrEntry, wkrOwner, wkrFiles, wkrDir,
                 wkrInfo, wkrMaker, wkrDestroys, wkrChild>>

\* WorkerOwner::destroy: fence the launch, kill and reap the child.
WkrKill ==
  /\ wkrEnder = "killing"
  /\ wkrOwner' = [wkrOwner EXCEPT !.fenced = TRUE, !.reaped = wkrOwner.child]
  /\ wkrEnder' = "proving"
  /\ IF wkrProc \in {"booting", "serving"}
     THEN WkrDies
     ELSE UNCHANGED <<vzNative, wkrProc, wkrStreams>>
  /\ UNCHANGED <<vzCalls, wkrMode, wkrEntry, wkrFiles, wkrDir, wkrInfo, wkrStop,
                 wkrMaker, wkrDestroys>>

\* Mutant: a VM the daemon never published needs no receipt.
WkrNeedsReceiptPublished == wkrInfo = "running" /\ ~wkrFiles.confirmed

\* Whether the destruction needs the framework's own receipt: read after the
\* child is reaped, so a frame that reached it has raised the flag by now.
WkrNeedsReceipt == wkrOwner.frame /\ ~wkrFiles.confirmed

WkrProve ==
  /\ wkrEnder = "proving"
  /\ IF WkrNeedsReceipt /\ ~wkrStop.receipt
     THEN /\ wkrEnder' = "idle"
          /\ UNCHANGED <<wkrFiles, wkrInfo>>
     ELSE /\ wkrFiles' = [wkrFiles EXCEPT !.confirmed = wkrOwner.frame]
          /\ wkrInfo' = "stopped"
          /\ wkrEnder' = "cleaning"
  /\ UNCHANGED <<vzNative, vzCalls, wkrMode, wkrEntry, wkrOwner, wkrDir, wkrMaker,
                 wkrDestroys, wkrChild>>

\* cleanup_runtime: only the directory this owner made is removed; a collision
\* or a changed identity keeps files and entry.
WkrCleanup ==
  /\ wkrEnder = "cleaning"
  /\ IF wkrFiles.collision \/ (wkrDir = "foreign")
     THEN /\ wkrEnder' = "idle"
          /\ UNCHANGED <<wkrDir, wkrFiles>>
     ELSE /\ wkrDir' = "absent"
          /\ wkrFiles' = [wkrFiles EXCEPT !.removed = TRUE]
          /\ wkrEnder' = "forgetting"
  /\ UNCHANGED <<vzNative, vzCalls, wkrMode, wkrEntry, wkrOwner, wkrInfo, wkrMaker,
                 wkrDestroys, wkrChild>>

WkrForget ==
  /\ wkrEnder = "forgetting"
  /\ wkrEntry' = "gone"
  /\ wkrEnder' = "idle"
  /\ UNCHANGED <<vzNative, vzCalls, wkrMode, wkrOwner, wkrFiles, wkrDir, wkrInfo,
                 wkrMaker, wkrDestroys, wkrChild>>

\* A dropped destroy future keeps the entry and every proof it had retained.
WkrCancelDestroy ==
  /\ wkrEnder # "idle"
  /\ wkrEnder' = "idle"
  /\ UNCHANGED <<vzNative, vzCalls, wkrMode, wkrEntry, wkrOwner, wkrFiles, wkrDir,
                 wkrInfo, wkrMaker, wkrDestroys, wkrChild>>

-----------------------------------------------------------------------------
WkrNative ==
  /\ wkrProc = "serving" \/ wkrMode = "direct"
  /\ VzBackground \/ VzProgress
  /\ UNCHANGED <<wkrMode, wkrParent, wkrChild>>

\* The daemon of mode "direct" calls the native backend itself.
WkrDirect ==
  /\ wkrMode = "direct"
  /\ \/ \E c \in VzConfigs : VzCreateRegister(c)
     \/ VzDestroyBegin
     \/ VzStopRequest
     \/ VzStopForce
     \/ VzStopSettle
     \/ \E o \in {"pause", "resume"} : VzSwitch(o)
     \/ VzInfo
  /\ UNCHANGED <<wkrMode, wkrParent, wkrChild>>

WkrNext ==
  \/ WkrRegister \/ WkrPrepare \/ (\E s \in BOOLEAN : WkrLaunch(s))
  \/ WkrDescribe \/ WkrMarkFrame \/ WkrServeCreate \/ WkrPublish
  \/ WkrCancelCreate
  \/ WkrBoot \/ WkrExit \/ WkrServeDestroy
  \/ (\E r \in BOOLEAN : WkrConfirmStop(r))
  \/ WkrConnect \/ WkrDisconnect \/ WkrInspect
  \/ WkrDestroy \/ WkrAskedEnough \/ WkrKill \/ WkrProve \/ WkrCleanup
  \/ WkrForget \/ WkrCancelDestroy
  \/ WkrNative \/ WkrDirect

-----------------------------------------------------------------------------
\* Whoever let the VM go (the daemon dropping the generation's entry, or the
\* native backend forgetting its instance) did so after the framework's
\* machine had really stopped, with no start left in the queue: the caller
\* reuses the disk and the CID at once.
VzReleased == wkrEntry = "gone" \/ vzInst.reg = "forgotten"
VzReleaseSound ==
  VzReleased => /\ ~VzAlive
                /\ "start" \notin {vzQueue[i] : i \in 1..Len(vzQueue)}

\* A machine that was promised to be offline has no network device, and a
\* child never hosts any other.
VzOfflineSound ==
  vzInst.reg = "held" =>
    /\ vzInst.offline => "net" \notin {vzInst.devices[i] : i \in 1..Len(vzInst.devices)}
    /\ wkrMode = "child" => vzInst.offline

\* A VZ machine is released only after it has stopped, and an offline one
\* never gets a network device: across lost replies, a child that dies at any
\* moment, cancelled creations and destructions, and retries.
VzOwnedUntilStopped == VzReleaseSound /\ VzOfflineSound
=============================================================================
