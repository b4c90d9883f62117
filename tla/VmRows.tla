------------------------------- MODULE VmRows -------------------------------
(***************************************************************************)
(* What the operations on ordinary VMs share: the rows of table `vms`, the *)
(* daemon's memory of a VM, the VM's processes and files on the host, the  *)
(* port forwards, the per-name mutation locks and the daemon's own life.   *)
(*                                                                         *)
(* The operation that holds the lock of name n is the record op[n]; its pc *)
(* names the await it has reached, so that a crash, an operation that      *)
(* takes no lock or the guest can come in wherever the code can be         *)
(* interrupted.                                                            *)
(***************************************************************************)
EXTENDS Integers, FiniteSets

CONSTANTS
    Vms,         \* VM generations (UUIDs)
    NoVm,
    Names,       \* VM names
    Ports,       \* forwarded host ports
    First,       \* the VM that exists at the start
    AutoResume,  \* VMs created with auto_resume
    Scripted,    \* VMs created with a userdata script
    Supervised,  \* cgroup supervision is enabled
    Menus,       \* the workloads: which calls clients make
    MaxCalls,    \* bound: client calls started
    MaxCrashes,  \* bound: times the daemon dies without cleanup
    MaxFaults,   \* bound: calls of the host or the database that fail
    MaxSessions  \* bound: open agent sessions of a VM

\* What a workload may contain.
Calls == {"suspend", "resume", "stop", "pause", "destroy", "create", "fork",
          "forward", "reforward", "unforward", "connect", "idle", "probe",
          "userdata", "reclaim", "crash", "exit", "drain"}

ASSUME VmRowsAssumption ==
    /\ NoVm \notin Vms /\ First \in Vms
    /\ AutoResume \subseteq Vms /\ Scripted \subseteq Vms
    /\ Supervised \in BOOLEAN /\ Menus \subseteq SUBSET Calls
    /\ {MaxCalls, MaxCrashes, MaxFaults, MaxSessions} \subseteq Nat

VARIABLES
    row,    \* table vms, state "absent" without a row
    mem,    \* what the daemon process remembers of a VM
    host,   \* the VM's processes, suspend slot, disk backup and TAP
    disk,   \* vm_dir of a name: the generation whose disk it holds
    net,    \* port forwards
    op,     \* holder of each VM name lock
    daemon, \* "up", "draining", "down" or a start-up phase
    hist,   \* calls, crashes and faults so far; memory given up on request
    menu    \* the workload of this behaviour

States == {"running", "paused", "suspending", "suspended", "stopped"}
Live   == {"running", "paused"}
Phases == {"reap", "stale", "sweep", "suspends", "networks"}

\* What the operation that holds a lock knows: the generation v it works on, the
\* source or the successor w of that generation, the name t it forks to, and the
\* state s it found.
Holder(k, v, w, t, pc, s) ==
    [kind |-> k, vm |-> v, other |-> w, to |-> t, pc |-> pc, cut |-> FALSE,
     was |-> s, ports |-> {}]

NoOp == Holder("free", NoVm, NoVm, NoVm, "-", "absent")

vars == <<row, mem, host, disk, net, op, daemon, hist, menu>>

Rows == [state : States \cup {"absent"}, pid : BOOLEAN, anchor : BOOLEAN,
         name : Names, tapdev : BOOLEAN, parent : Vms \cup {NoVm},
         status : {"none", "pending", "running", "completed", "failed",
                   "interrupted"}]

Memories == [inst : {"none", "running", "paused", "stopped", "failed"},
             job : BOOLEAN, sessions : 0..MaxSessions,
             conn : {"none", "asked", "found", "open"},
             verdict : {"none", "suspend", "reap", "drain", "marking"},
             probe : {"none", "read", "gone"}, condemned : BOOLEAN]

\* The suspend slot: absent or without its manifest, written by the suspension
\* that is in force, or left over from an earlier one that could not remove it.
Slots == {"none", "partial", "stale", "complete"}

Hosts == [procs : SUBSET {"child", "orphan"},
          slot : Slots,
          bak : BOOLEAN, tap : BOOLEAN, ran : BOOLEAN]

\* The operations that hold a name lock, and the awaits they reach.
Kinds == {"free", "suspend", "idle", "resume", "stop", "pause", "destroy",
          "reap", "replace", "create", "fork", "source"}
Awaits == {"-", "cancel", "mark", "pause", "capture", "manifest", "undo", "kill",
           "commit", "stamp", "listen", "unroute", "recover", "unpause",
           "rewire", "restore", "discard", "route", "drain", "shutdown",
           "stopped", "check", "rmdir", "unwire", "retire", "wire", "clone",
           "spawn", "alias", "load", "rehome", "rollback", "wait", "held"}

Operations == [kind : Kinds, vm : Vms \cup {NoVm}, other : Vms \cup {NoVm},
               to : Names \cup {NoVm}, pc : Awaits, cut : BOOLEAN,
               was : States \cup {"absent"}, ports : SUBSET Ports]

NetTypeOK ==
    net \in [forward : [Ports -> Vms \cup {NoVm}],
             adding : SUBSET (Ports \X Vms), removing : SUBSET (Ports \X Vms),
             dnat : SUBSET (Ports \X Vms), listening : SUBSET (Ports \X Vms),
             clashed : SUBSET Ports]

FleetTypeOK ==
    /\ row \in [Vms -> Rows] /\ mem \in [Vms -> Memories]
    /\ host \in [Vms -> Hosts] /\ disk \in [Names -> Vms \cup {NoVm}]
    /\ op \in [Names -> Operations]
    /\ daemon \in {"up", "draining", "down"} \cup Phases
    /\ hist \in [calls : 0..MaxCalls, crashes : 0..MaxCrashes,
                 faults : 0..MaxFaults, lost : SUBSET Vms]

RowsTypeOK == FleetTypeOK /\ NetTypeOK

-----------------------------------------------------------------------------
(* Calls, faults and locks.                                                *)

Serving == daemon \in {"up", "draining"}

Owners(n) == {v \in Vms : row[v].state # "absent" /\ row[v].name = n}

\* A client call: bounded, and only while the daemon accepts requests.
Call(c) == /\ c \in menu /\ daemon = "up" /\ hist.calls < MaxCalls
           /\ hist' = [hist EXCEPT !.calls = @ + 1]

\* The daemon's own loops are in a workload or not.
Loop(c) == c \in menu /\ daemon = "up" /\ UNCHANGED hist

Fault == /\ hist.faults < MaxFaults
         /\ hist' = [hist EXCEPT !.faults = @ + 1]

Locked(n) == op[n] # NoOp

SetOp(n, o) == op' = [op EXCEPT ![n] = o]

\* vm_name_lock(n).lock_owned(): the operation starts at pc.
Lock(n, k, v, pc) ==
    /\ ~Locked(n)
    /\ SetOp(n, Holder(k, v, NoVm, NoVm, pc, row[v].state))

At(n, ks, pc) == Serving /\ op[n].kind \in ks /\ op[n].pc = pc
Goto(n, pc)   == SetOp(n, [op[n] EXCEPT !.pc = pc])
Unlock(n)     == SetOp(n, NoOp)

\* The generation the operation holding n's lock works on.
Vm(n) == op[n].vm

-----------------------------------------------------------------------------
(* Rows.                                                                   *)

SetRow(v, r) == row' = [row EXCEPT ![v] = r]

\* StateStore::update_vm_state
InState(r, s) == [r EXCEPT !.state = s]
SetState(v, s) == SetRow(v, InState(row[v], s))

\* StateStore::update_vm_runtime
Runtime(r, s, p) == [r EXCEPT !.state = s, !.pid = p]
SetRuntime(v, s, p) == SetRow(v, Runtime(row[v], s, p))

\* set_suspended_at: the anchor of the suspend TTL.
Anchored(r, b) == [r EXCEPT !.anchor = b]

\* The TAP, the address and what goes with them are no longer the row's.
Untapped(r) == [r EXCEPT !.tapdev = FALSE]

WithStatus(r, s) == [r EXCEPT !.status = s]

\* StateStore::mark_vm_stopped: state, pid and suspended_at in one update,
\* whatever the state was.  A row that is gone makes it an error.
Stopped(r) == IF r.state = "absent" THEN r
              ELSE [r EXCEPT !.state = "stopped", !.pid = FALSE,
                             !.anchor = FALSE]

\* finish_userdata_interruption: running or pending becomes interrupted.
Interrupted(r) == IF r.status \in {"running", "pending"}
                  THEN WithStatus(r, "interrupted") ELSE r

\* require_reconciled_fork_source: the disk backup of an interrupted fork
\* blocks what would use the source's disk.
Reconciled(v) == ~host[v].bak

-----------------------------------------------------------------------------
(* The Firecracker backend.                                                *)

SetMem(v, m)  == mem' = [mem EXCEPT ![v] = m]
SetHost(v, h) == host' = [host EXCEPT ![v] = h]
SetSlot(v, s) == SetHost(v, [host[v] EXCEPT !.slot = s])

\* The manifest, the memory and the device state are there, which is all the
\* daemon can tell of a slot.
Saved(v) == host[v].slot \in {"stale", "complete"}

SetTap(v, b)  == SetHost(v, [host[v] EXCEPT !.tap = b])
SetJob(v, b)  == SetMem(v, [mem[v] EXCEPT !.job = b])

Alive(v) == "child" \in host[v].procs

\* vm_info also notices that the child has exited.
Refreshed(v) == IF mem[v].inst \in Live /\ ~Alive(v) THEN "stopped"
                                                     ELSE mem[v].inst

\* pause_vm, resume_vm and snapshot_vm need the API of a live process.
Answers(v) == mem[v].inst # "none" /\ Alive(v)

SetInst(v, s) == SetMem(v, [mem[v] EXCEPT !.inst = s])

PauseGuest(v)  == Answers(v) /\ SetInst(v, "paused")
ResumeGuest(v) == Answers(v) /\ SetInst(v, "running")

\* The child has been waited for; what a crash orphaned is nobody's child.
Reaped(v) == SetHost(v, [host[v] EXCEPT !.procs = @ \ {"child"}])

\* stop_vm keeps the instance, destroy_vm gives it up; an unknown VM is an error.
StopGuest(v)    == mem[v].inst # "none" /\ SetInst(v, "stopped") /\ Reaped(v)
DestroyGuest(v) == mem[v].inst # "none" /\ SetInst(v, "none") /\ Reaped(v)

\* abort_create leaves neither, whatever it finds.
AbortGuest(v) == SetInst(v, "none") /\ Reaped(v)

\* The child is published in the instance table when it is spawned.
Spawned(v, s) == /\ SetInst(v, s)
                 /\ SetHost(v, [host[v] EXCEPT !.procs = @ \cup {"child"},
                                               !.ran = host[v].slot # "none"])

NoMem == [inst |-> "none", job |-> FALSE, sessions |-> 0, conn |-> "none",
          verdict |-> "none", probe |-> "none", condemned |-> FALSE]

RowsInit ==
    /\ menu \in Menus
    /\ \E s \in {"running", "suspended"}, n \in Names :
          LET up == s = "running" IN
          /\ row = [v \in Vms |->
                [state |-> IF v = First THEN s ELSE "absent",
                 pid |-> v = First /\ up, anchor |-> v = First /\ ~up,
                 name |-> n, tapdev |-> v = First, parent |-> NoVm,
                 status |-> IF v = First /\ v \in Scripted
                            THEN IF up THEN "pending" ELSE "interrupted"
                            ELSE "none"]]
          /\ mem = [v \in Vms |-> IF v = First /\ up
                                  THEN [NoMem EXCEPT !.inst = "running"]
                                  ELSE NoMem]
          /\ host = [v \in Vms |->
                [procs |-> IF v = First /\ up THEN {"child"} ELSE {},
                 slot |-> IF v = First /\ ~up THEN "complete" ELSE "none",
                 bak |-> FALSE, tap |-> v = First, ran |-> FALSE]]
          /\ disk = [m \in Names |-> IF m = n THEN First ELSE NoVm]
          /\ net = [forward |-> [p \in Ports |-> First], adding |-> {}, removing |-> {},
                    dnat |-> IF up THEN Ports \X {First} ELSE {},
                    listening |-> IF up THEN {}
                                  ELSE Ports \X ({First} \cap AutoResume),
                    clashed |-> {}]
    /\ op = [n \in Names |-> NoOp]
    /\ daemon = "up"
    /\ hist = [calls |-> 0, crashes |-> 0, faults |-> 0, lost |-> {}]
=============================================================================
