------------------------------- MODULE VmOps --------------------------------
(***************************************************************************)
(* The operations that hold a VM name lock: create, stop, pause, resume,   *)
(* suspend, fork, destroy and the release of an abandoned VM's network     *)
(* (crates/husker-core/src/vm_lifecycle.rs, suspend.rs, fork.rs,           *)
(* reclaim.rs), over the Firecracker backend.  Each operation is a chain   *)
(* of actions on op[n]; an error leaves the chain through "recover", where *)
(* userdata is put right, or releases the lock.                            *)
(***************************************************************************)
EXTENDS Userdata, VmNet

Suspends == {"suspend", "idle"}
Destroys == {"destroy", "reap", "replace"}

\* A creation of v begins with its address; s is the source of a fork.
Creation(k, v, s) == Holder(k, v, s, NoVm, "wire", "absent")

\* A call that takes the lock and finds the row in one of these states.
Begin(k, v, states, pc) ==
    /\ row[v].state \in states
    /\ Lock(row[v].name, k, v, pc)
    /\ UNCHANGED <<row, mem, host, disk, net, daemon, menu>>

-----------------------------------------------------------------------------
(* suspend_vm, suspend_vm_locked                                           *)

SuspendVm(v) == Call("suspend") /\ Begin("suspend", v, Live, "cancel")

\* The userdata task ends before anything else happens to the guest.
Cancel(n) ==
    /\ At(n, Suspends \cup {"stop", "pause"} \cup Destroys, "cancel")
    /\ CancelUserdata(n, CASE op[n].kind \in Suspends -> "mark"
                           [] op[n].kind = "pause"    -> "pause"
                           [] OTHER                   -> "shutdown")
    /\ UNCHANGED <<host, disk, net, daemon, hist, menu>>

\* "suspending" is durable before anything is paused or captured.
SuspendMark(n) ==
    /\ At(n, Suspends, "mark")
    /\ \/ SetState(Vm(n), "suspending") /\ Goto(n, "pause") /\ UNCHANGED hist
       \/ Fault /\ Goto(n, "recover") /\ UNCHANGED row
    /\ UNCHANGED <<mem, host, disk, net, daemon, menu>>

\* vmm.pause_vm, unless the guest was paused already.
SuspendPause(n) ==
    LET v == Vm(n) IN
    /\ At(n, Suspends, "pause")
    /\ \/ op[n].was = "paused" /\ Goto(n, "capture") /\ UNCHANGED mem
       \/ op[n].was = "running" /\ PauseGuest(v) /\ Goto(n, "capture")
       \/ /\ op[n].was = "running" /\ ~Answers(v)
          /\ Goto(n, "undo") /\ UNCHANGED mem
    /\ UNCHANGED <<row, host, disk, net, daemon, hist, menu>>

\* A fresh capture: nothing has run out of this slot.  A manifest that is there
\* stays there while the files beside it are written again.
Captured(v) == SetHost(v, [host[v] EXCEPT !.slot = IF Saved(v) THEN "stale"
                                                               ELSE "partial",
                                          !.ran = FALSE])

\* What a remove_dir_all that fails leaves of a slot.
Leftover(v) == IF host[v].slot = "complete" THEN "stale" ELSE host[v].slot

\* remove_dir_all of the slot; nobody looks at its result.
DropSlot(v) == \/ SetSlot(v, "none") /\ UNCHANGED hist
               \/ Fault /\ SetSlot(v, Leftover(v))

\* vmm.snapshot_vm writes memory and device state into the slot.
SuspendCapture(n) ==
    LET v == Vm(n) IN
    /\ At(n, Suspends, "capture")
    /\ Captured(v)
    /\ \/ Answers(v) /\ Goto(n, "manifest") /\ UNCHANGED hist
       \/ ~Answers(v) /\ Goto(n, "undo") /\ UNCHANGED hist
       \/ Fault /\ Goto(n, "undo")
    /\ UNCHANGED <<row, mem, disk, net, daemon, menu>>

\* Mutant: the process is killed while only memory and state are written.
SuspendManifestEarly(n) ==
    /\ At(n, Suspends, "manifest")
    /\ Goto(n, "kill")
    /\ UNCHANGED <<row, mem, host, disk, net, daemon, hist, menu>>

\* The manifest, written last and atomically, completes the slot.
SuspendManifest(n) ==
    /\ At(n, Suspends, "manifest")
    /\ \/ /\ SetSlot(Vm(n), "complete")
          /\ Goto(n, "kill") /\ UNCHANGED hist
       \/ Fault /\ Goto(n, "undo") /\ UNCHANGED host
    /\ UNCHANGED <<row, mem, disk, net, daemon, menu>>

\* A failed capture (or kill) gives the slot up, lets the guest run on and puts
\* the row back; neither removal nor update is looked at.
SuspendUndo(n) ==
    LET v == Vm(n)
        back == IF row[v].state = "absent" THEN "absent" ELSE op[n].was
    IN
    /\ At(n, Suspends, "undo")
    /\ SetInst(v, IF op[n].was = "running" /\ Answers(v) THEN "running" ELSE mem[v].inst)
    /\ \/ SetSlot(v, "none") /\ SetState(v, back) /\ UNCHANGED hist
       \/ /\ Fault
          /\ SetSlot(v, "none") \/ SetSlot(v, Leftover(v))
          /\ SetState(v, back) \/ UNCHANGED row
    /\ Goto(n, "recover")
    /\ UNCHANGED <<disk, net, daemon, menu>>

\* vmm.destroy_vm frees the memory.  It can also fail after the process has
\* exited, when one of its files or its cgroup cannot be removed.
SuspendKill(n) ==
    LET v == Vm(n) IN
    /\ At(n, Suspends, "kill")
    /\ \/ DestroyGuest(v) /\ Goto(n, "commit") /\ UNCHANGED hist
       \/ /\ mem[v].inst = "none"
          /\ Goto(n, "undo") /\ UNCHANGED <<mem, host, hist>>
       \/ Fault /\ Reaped(v) /\ Goto(n, "undo") /\ UNCHANGED mem
    /\ UNCHANGED <<row, disk, net, daemon, menu>>

\* The final state write, and the end of the userdata script.
SuspendCommit(n) ==
    LET v == Vm(n) IN
    /\ At(n, Suspends, "commit")
    /\ \/ /\ SetRow(v, Interrupted(Runtime(row[v], "suspended", FALSE)))
          /\ Goto(n, "stamp") /\ UNCHANGED hist
       \/ Fault /\ SetRow(v, Interrupted(row[v])) /\ Unlock(n)
    /\ UNCHANGED <<mem, host, disk, net, daemon, menu>>

\* set_suspended_at starts the clock of the suspend TTL.
SuspendStamp(n) ==
    /\ At(n, Suspends, "stamp")
    /\ \/ /\ SetRow(Vm(n), Anchored(row[Vm(n)], TRUE))
          /\ Goto(n, "listen") /\ UNCHANGED hist
       \/ Fault /\ Unlock(n) /\ UNCHANGED row
    /\ UNCHANGED <<mem, host, disk, net, daemon, menu>>

\* The forwards are read once; their listeners are bound first.
SuspendListen(n) ==
    /\ At(n, Suspends, "listen")
    /\ net' = [net EXCEPT !.listening = Listeners(Vm(n), Forwards(Vm(n)))]
    /\ SetOp(n, [op[n] EXCEPT !.pc = "unroute", !.ports = Forwards(Vm(n))])
    /\ UNCHANGED <<row, mem, host, disk, daemon, hist, menu>>

\* Then their rules are removed.
SuspendUnroute(n) ==
    /\ At(n, Suspends, "unroute")
    /\ net' = [net EXCEPT !.dnat = @ \ (op[n].ports \X {Vm(n)})]
    /\ Unlock(n)
    /\ UNCHANGED <<row, mem, host, disk, daemon, hist, menu>>

-----------------------------------------------------------------------------
(* resume_vm, restore_from_suspend                                         *)

BeginResume(v) ==
    /\ Reconciled(v)
    /\ Begin("resume", v, {"paused", "suspended"},
             IF row[v].state = "paused" THEN "unpause" ELSE "rewire")

ResumeVm(v) == Call("resume") /\ BeginResume(v)

ResumeUnpause(n) ==
    LET v == Vm(n) IN
    /\ At(n, {"resume"}, "unpause")
    /\ \/ ResumeGuest(v) /\ SetState(v, "running") /\ UNCHANGED hist
       \/ ResumeGuest(v) /\ Fault /\ UNCHANGED row
       \/ ~Answers(v) /\ UNCHANGED <<row, mem, hist>>
    /\ Unlock(n)
    /\ UNCHANGED <<host, disk, net, daemon, menu>>

\* Mutant: the TAP is left as it is.
ResumeRewireSkipped(n) ==
    /\ At(n, {"resume"}, "rewire")
    /\ Goto(n, "restore")
    /\ UNCHANGED <<row, mem, host, disk, net, daemon, hist, menu>>

\* restore_suspended_vm_network: policy, then bridge, before the guest runs.
ResumeRewire(n) ==
    /\ At(n, {"resume"}, "rewire")
    /\ \/ /\ row[Vm(n)].tapdev /\ SetTap(Vm(n), TRUE)
          /\ Goto(n, "restore") /\ UNCHANGED hist
       \/ Unlock(n) /\ Fault /\ UNCHANGED host
       \/ ~row[Vm(n)].tapdev /\ Unlock(n) /\ UNCHANGED <<host, hist>>
    /\ UNCHANGED <<row, mem, disk, net, daemon, menu>>

\* restore_vm.  A slot without its manifest is refused.  A refused or failed
\* load ends in abort_create, which leaves no child.
ResumeRestore(n) ==
    LET v == Vm(n) IN
    /\ At(n, {"resume"}, "restore")
    /\ \/ /\ Saved(v) /\ mem[v].inst = "none"
          /\ Spawned(v, "running") /\ Goto(n, "commit") /\ UNCHANGED hist
       \/ /\ Saved(v)
          /\ (mem[v].inst # "none" /\ UNCHANGED hist) \/ Fault
          /\ AbortGuest(v) /\ Unlock(n)
       \/ ~Saved(v) /\ Unlock(n) /\ UNCHANGED <<mem, host, hist>>
    /\ UNCHANGED <<row, disk, net, daemon, menu>>

\* The guest has been running since the load; its clock is put right, then the
\* row says so.
ResumeCommit(n) ==
    /\ At(n, {"resume"}, "commit")
    /\ \/ SetRuntime(Vm(n), "running", TRUE) /\ Goto(n, "discard")
          /\ UNCHANGED hist
       \/ Fault /\ Unlock(n) /\ UNCHANGED row
    /\ UNCHANGED <<mem, host, disk, net, daemon, menu>>

\* The slot is used up.
ResumeDiscard(n) ==
    /\ At(n, {"resume"}, "discard")
    /\ DropSlot(Vm(n))
    /\ Goto(n, "route")
    /\ UNCHANGED <<row, mem, disk, net, daemon, menu>>

\* The rules come back before the listeners close.
ResumeRoute(n) ==
    LET v == Vm(n) IN
    /\ At(n, {"resume"}, "route")
    /\ net' = [net EXCEPT !.dnat = @ \cup (Forwards(v) \X {v})]
    /\ Goto(n, "drain")
    /\ UNCHANGED <<row, mem, host, disk, daemon, hist, menu>>

\* drain_and_close, then the idle clocks and the TTL anchor are reset.
ResumeDrain(n) ==
    LET v == Vm(n) IN
    /\ At(n, {"resume"}, "drain")
    /\ net' = [net EXCEPT !.listening = @ \ Rules(v)]
    /\ SetRow(v, Anchored(row[v], FALSE))
    /\ Unlock(n)
    /\ UNCHANGED <<mem, host, disk, daemon, hist, menu>>

-----------------------------------------------------------------------------
(* stop_vm, pause_vm                                                       *)

StopVm(v) ==
    /\ Call("stop") /\ Reconciled(v)
    /\ Begin("stop", v, Live \cup {"suspended"},
             IF row[v].state = "suspended" THEN "discard" ELSE "cancel")

\* Stopping a suspended VM gives its memory up.
StopDiscard(n) ==
    /\ At(n, {"stop"}, "discard")
    /\ \/ /\ SetSlot(Vm(n), "none")
          /\ hist' = [hist EXCEPT !.lost = @ \cup {Vm(n)}]
       \/ /\ hist.faults < MaxFaults /\ SetSlot(Vm(n), Leftover(Vm(n)))
          /\ hist' = [hist EXCEPT !.lost = @ \cup {Vm(n)}, !.faults = @ + 1]
    /\ CancelUserdata(n, "stopped")
    /\ UNCHANGED <<disk, net, daemon, menu>>

\* shut_down_guest: the agent may end the guest, and may not answer.
ShutDownGuest(n) ==
    /\ At(n, {"stop"} \cup Destroys, "shutdown")
    /\ Reaped(Vm(n)) \/ UNCHANGED host
    /\ Goto(n, "kill")
    /\ UNCHANGED <<row, mem, disk, net, daemon, hist, menu>>

\* vmm.stop_vm returns once the process is gone; an untracked VM is an error.
StopKill(n) ==
    LET v == Vm(n) IN
    /\ At(n, {"stop"}, "kill")
    /\ \/ StopGuest(v) /\ Goto(n, "stopped")
       \/ mem[v].inst = "none" /\ Goto(n, "recover") /\ UNCHANGED <<mem, host>>
    /\ UNCHANGED <<row, disk, net, daemon, hist, menu>>

StopCommit(n) ==
    /\ At(n, {"stop"}, "stopped")
    /\ \/ SetRow(Vm(n), Interrupted(Stopped(row[Vm(n)]))) /\ UNCHANGED hist
       \/ /\ op[n].was # "suspended" /\ Fault
          /\ SetRow(Vm(n), Interrupted(row[Vm(n)]))
       \/ op[n].was = "suspended" /\ Fault /\ UNCHANGED row
    /\ Unlock(n)
    /\ UNCHANGED <<mem, host, disk, net, daemon, menu>>

PauseVm(v) == Call("pause") /\ Begin("pause", v, {"running"}, "cancel")

\* A pause the database refuses is taken back.
PauseCommit(n) ==
    LET v == Vm(n) IN
    /\ At(n, {"pause"}, "pause")
    /\ \/ /\ PauseGuest(v)
          /\ SetRow(v, Interrupted(InState(row[v], "paused")))
          /\ Unlock(n) /\ UNCHANGED hist
       \/ /\ Answers(v) /\ Fault
          /\ SetInst(v, "running") /\ Goto(n, "recover") /\ UNCHANGED row
       \/ ~Answers(v) /\ Goto(n, "recover") /\ UNCHANGED <<row, mem, hist>>
    /\ UNCHANGED <<host, disk, net, daemon, menu>>

-----------------------------------------------------------------------------
(* destroy_vm, destroy_vm_generation_locked                                *)

\* destroy_vm reads the record before it waits for the lock.
DestroyVm(v) ==
    /\ Call("destroy") /\ row[v].state # "absent" /\ ~mem[v].condemned
    /\ SetMem(v, [mem[v] EXCEPT !.condemned = TRUE])
    /\ UNCHANGED <<row, host, disk, net, op, daemon, menu>>

DestroyLock(v) ==
    /\ Serving /\ mem[v].condemned
    /\ Lock(row[v].name, "destroy", v, "check")
    /\ SetMem(v, [mem[v] EXCEPT !.condemned = FALSE])
    /\ UNCHANGED <<row, host, disk, net, daemon, hist, menu>>

\* Mutant: the record read before the lock is trusted.
DestroyCheckSkipped(n) ==
    /\ At(n, Destroys, "check")
    /\ Goto(n, "cancel")
    /\ UNCHANGED <<row, mem, host, disk, net, daemon, hist, menu>>

\* A generation that was replaced or retired while destroy waited is done; a
\* source whose disk is aliased stays.
DestroyCheck(n) ==
    LET v == Vm(n) IN
    /\ At(n, Destroys, "check")
    /\ \/ v \in Owners(n) /\ Reconciled(v) /\ Goto(n, "cancel")
       \/ v \in Owners(n) /\ ~Reconciled(v) /\ op[n].kind # "replace"
             /\ Goto(n, "recover")
       \/ v \in Owners(n) /\ ~Reconciled(v) /\ op[n].kind = "replace"
             /\ Unlock(n)
       \/ v \notin Owners(n) /\ Unlock(n)
    /\ UNCHANGED <<row, mem, host, disk, net, daemon, hist, menu>>

\* A destruction that cannot go on: the caller of create gets the error, the
\* others put userdata right.
DestroyFailed(n) == IF op[n].kind = "replace" THEN Unlock(n)
                                              ELSE Goto(n, "recover")

\* vmm.destroy_vm; a VM the backend does not know has no process.
DestroyKill(n) ==
    LET v == Vm(n) IN
    /\ At(n, Destroys, "kill")
    /\ \/ /\ DestroyGuest(v) \/ (mem[v].inst = "none" /\ UNCHANGED <<mem, host>>)
          /\ hist' = [hist EXCEPT !.lost = @ \cup {v}]
          /\ Goto(n, "rmdir")
       \/ /\ mem[v].inst # "none" /\ Fault
          /\ Reaped(v) /\ DestroyFailed(n) /\ UNCHANGED mem
    /\ UNCHANGED <<row, disk, net, daemon, menu>>

\* The directory of the name goes before the network is released.
DestroyRmdir(n) ==
    /\ At(n, Destroys, "rmdir")
    /\ \/ /\ disk' = [disk EXCEPT ![n] = NoVm]
          /\ Goto(n, "unwire") /\ UNCHANGED hist
       \/ Fault /\ DestroyFailed(n) /\ UNCHANGED disk
    /\ UNCHANGED <<row, mem, host, net, daemon, menu>>

\* release_vm_host_network, then the resume listeners are dropped either way;
\* a failed release keeps the row for a retry.
DestroyUnwire(n) ==
    LET v == Vm(n) IN
    /\ At(n, Destroys, "unwire")
    /\ \/ /\ Released(v)
          /\ net' = [net EXCEPT !.dnat = @ \ Rules(v),
                                !.listening = @ \ Rules(v)]
          /\ Goto(n, "retire") /\ UNCHANGED <<row, hist>>
       \/ /\ Fault /\ row[v].tapdev
          /\ net' = [net EXCEPT !.listening = @ \ Rules(v)]
          /\ SetRow(v, Stopped(row[v]))
          /\ DestroyFailed(n) /\ UNCHANGED host
    /\ UNCHANGED <<mem, disk, daemon, menu>>

\* What is left of a row that is deleted.
Retired(r) == [state |-> "absent", pid |-> FALSE, anchor |-> FALSE, name |-> r.name,
               tapdev |-> FALSE, parent |-> NoVm, status |-> "none"]

\* Logs, slot, sessions and the row with everything that references it.
DestroyRetire(n) ==
    LET v == Vm(n) IN
    /\ At(n, Destroys, "retire")
    /\ DropSlot(v)
    /\ SetMem(v, [mem[v] EXCEPT !.sessions = 0])
    /\ SetRow(v, Retired(row[v]))
    /\ net' = [net EXCEPT !.forward = Dropped(v)]
    /\ IF op[n].kind = "replace"
       THEN SetOp(n, Creation("create", op[n].other, NoVm))
       ELSE Unlock(n)
    /\ UNCHANGED <<disk, daemon, menu>>

-----------------------------------------------------------------------------
(* create_vm_record_inner, try_create_vm, rollback_create                  *)

\* Generations that nothing on this host knows.
Fresh(v) == /\ row[v].state = "absent" /\ host[v].procs = {}
            /\ v \notin hist.lost
            /\ mem[v] = NoMem /\ ~host[v].tap
            /\ \A n \in Names : v \notin {op[n].vm, op[n].other, disk[n]}

\* A stopped VM of the same name is destroyed first, under the same lock.
CreateVm(v, n) ==
    /\ Call("create") /\ Fresh(v)
    /\ ~Locked(n)
    /\ \/ /\ Owners(n) = {}
          /\ SetOp(n, Creation("create", v, NoVm))
       \/ \E w \in Owners(n) :
             /\ row[w].state = "stopped"
             /\ SetOp(n, Holder("replace", w, v, NoVm, "check", "absent"))
    /\ UNCHANGED <<row, mem, host, disk, net, daemon, menu>>

Creates == {"create", "fork"}

\* The address, the creation lease and the TAP, with its policy before its
\* bridge.  The TAP of a fork stays off the bridge.
CreateWire(n) ==
    /\ At(n, Creates, "wire")
    /\ \/ /\ SetTap(Vm(n), op[n].kind = "create")
          /\ Goto(n, "clone") /\ UNCHANGED hist
       \/ Fault /\ Goto(n, "rollback") /\ UNCHANGED host
    /\ UNCHANGED <<row, mem, disk, net, daemon, menu>>

\* The directory of the name is cleared and filled with the new disk.
CreateDisk(n) ==
    /\ At(n, Creates, "clone")
    /\ disk' = [disk EXCEPT ![n] = Vm(n)]
    /\ \/ Goto(n, IF op[n].kind = "create" THEN "spawn" ELSE "alias")
             /\ UNCHANGED hist
       \/ Fault /\ Goto(n, "rollback")
    /\ UNCHANGED <<row, mem, host, net, daemon, menu>>

\* create_leased_vm; a failed boot keeps the child it spawned.
CreateSpawn(n) ==
    /\ At(n, {"create"}, "spawn")
    /\ \/ Spawned(Vm(n), "running") /\ Goto(n, "commit") /\ UNCHANGED hist
       \/ Spawned(Vm(n), "failed") /\ Goto(n, "rollback") /\ Fault
    /\ UNCHANGED <<row, disk, net, daemon, menu>>

\* commit_vm_from_host_resource_lease: the row takes over from the lease.
CreateCommit(n) ==
    LET v == Vm(n) IN
    /\ At(n, Creates, "commit")
    /\ \/ /\ SetRow(v,
                [state |-> "running", pid |-> TRUE, anchor |-> FALSE,
                 name |-> n, tapdev |-> TRUE, parent |-> op[n].other,
                 status |-> IF op[n].kind = "create" /\ v \in Scripted
                            THEN "pending" ELSE "none"])
          /\ Unlock(n) /\ UNCHANGED hist
       \/ Fault /\ Goto(n, "rollback") /\ UNCHANGED row
    /\ UNCHANGED <<mem, host, disk, net, daemon, menu>>

\* The lock of the fork's source, which the backend holds during the load.
SourceLock(n) == {m \in Names : op[m].kind = "source" /\ op[m].other = Vm(n)}

UnlockBoth(n) == op' = [m \in Names |-> IF m \in {n} \cup SourceLock(n)
                                        THEN NoOp ELSE op[m]]

\* rollback_create: abort_create first (it also takes the source's disk back
\* while the child still owns its alias and its lock); without that proof
\* everything stays allocated, and a source stays locked.
RollbackCreate(n) ==
    LET v == Vm(n) IN
    /\ At(n, Creates, "rollback")
    /\ \/ /\ SetInst(v, "none")
          /\ host' = [u \in Vms |->
                IF u = v THEN [host[u] EXCEPT !.procs = @ \ {"child"}, !.tap = FALSE]
                ELSE IF u = op[n].other /\ SourceLock(n) # {}
                THEN [host[u] EXCEPT !.bak = FALSE]
                ELSE host[u]]
          /\ disk' = [disk EXCEPT ![n] = IF @ = v THEN NoVm ELSE @]
          /\ UnlockBoth(n) /\ UNCHANGED hist
       \/ Fault /\ Unlock(n) /\ UNCHANGED <<mem, host, disk>>
    /\ UNCHANGED <<row, net, daemon, menu>>

-----------------------------------------------------------------------------
(* fork_vm_inner, try_fork_vm                                              *)

\* The lock of the source's name comes first, before anything is looked up.
ForkVm(m, n, v) ==
    /\ Call("fork") /\ Fresh(v)
    /\ m # n /\ ~Locked(m)
    /\ SetOp(m, Holder("source", NoVm, v, n, "wait", "absent"))
    /\ UNCHANGED <<row, mem, host, disk, net, daemon, menu>>

\* Mutant: a source that is not suspended is forked too.
ForkLockAny(m) ==
    LET n == op[m].to IN
    /\ At(m, {"source"}, "wait") /\ ~Locked(n) /\ Owners(n) = {}
    /\ \E s \in Owners(m) :
          op' = [op EXCEPT ![m].pc = "held", ![n] = Creation("fork", op[m].other, s)]
    /\ UNCHANGED <<row, mem, host, disk, net, daemon, hist, menu>>

\* Then the fork's own name; with both held the source is looked up, and
\* anything but a suspended, reconciled source and a free name ends the call.
ForkLock(m) ==
    LET n == op[m].to
        fit == {s \in Owners(m) : row[s].state = "suspended" /\ Reconciled(s)}
    IN
    /\ At(m, {"source"}, "wait") /\ ~Locked(n)
    /\ \/ /\ fit = {} \/ Owners(n) # {}
          /\ Unlock(m)
       \/ \E s \in fit :
             /\ Owners(n) = {}
             /\ op' = [op EXCEPT ![m].pc = "held",
                                 ![n] = Creation("fork", op[m].other, s)]
    /\ UNCHANGED <<row, mem, host, disk, net, daemon, hist, menu>>

\* RootfsAlias::activate moves the source's disk aside.
ForkAlias(n) ==
    LET s == op[n].other
        v == Vm(n)
    IN
    /\ At(n, {"fork"}, "alias")
    /\ SetInst(v, "failed")
    /\ host' = [host EXCEPT ![v].procs = @ \cup {"child"}, ![s].bak = TRUE]
    /\ Goto(n, "load")
    /\ UNCHANGED <<row, disk, net, daemon, hist, menu>>

\* /snapshot/load: an acknowledged load puts the source's disk back and lets
\* its lock go; anything else keeps both until the child is gone.
ForkLoad(n) ==
    LET s == op[n].other IN
    /\ At(n, {"fork"}, "load")
    /\ \/ /\ Alive(Vm(n)) /\ Saved(s)
          /\ SetInst(Vm(n), "running")
          /\ SetHost(s, [host[s] EXCEPT !.bak = FALSE])
          /\ op' = [m \in Names |->
                CASE m = n -> [op[m] EXCEPT !.pc = "rehome"]
                  [] m \in SourceLock(n) -> NoOp
                  [] OTHER -> op[m]]
          /\ UNCHANGED hist
       \/ /\ ~Alive(Vm(n)) \/ ~Saved(s)
          /\ Goto(n, "rollback") /\ UNCHANGED <<mem, host, hist>>
       \/ Goto(n, "rollback") /\ Fault /\ UNCHANGED <<mem, host>>
    /\ UNCHANGED <<row, disk, net, daemon, menu>>

\* reconfigure_fork_network, the inherited policy, then the bridge.
ForkRehome(n) ==
    /\ At(n, {"fork"}, "rehome")
    /\ \/ /\ Alive(Vm(n))
          /\ SetTap(Vm(n), TRUE)
          /\ Goto(n, "commit") /\ UNCHANGED hist
       \/ ~Alive(Vm(n)) /\ Goto(n, "rollback") /\ UNCHANGED <<host, hist>>
       \/ Goto(n, "rollback") /\ Fault /\ UNCHANGED host
    /\ UNCHANGED <<row, mem, disk, net, daemon, menu>>

-----------------------------------------------------------------------------
(* reclaim_vm_network_resources                                            *)

\* is_reclaimable_leak and is_shutdown_reclaimable
Reclaimable(v) == /\ row[v].state = "stopped"
                  /\ ~row[v].anchor /\ row[v].tapdev

\* The row is read again under the lock; the network of a stopped VM goes,
\* with its forwards, and the row stays.
ReclaimVm(v) ==
    /\ Serving /\ "reclaim" \in menu
    /\ Reclaimable(v) /\ ~Locked(row[v].name)
    /\ Released(v)
    /\ net' = [net EXCEPT !.dnat = @ \ Rules(v), !.forward = Dropped(v)]
    /\ SetRow(v, Untapped(row[v]))
    /\ UNCHANGED <<mem, disk, op, daemon, hist, menu>>
=============================================================================
