------------------------------ MODULE VmFleet -------------------------------
(***************************************************************************)
(* The ordinary VMs of one Linux daemon: the operations of VmOps and       *)
(* VmPolicy under crashes, restarts and shutdowns of the daemon            *)
(* (crates/husker/src/daemon.rs).                                          *)
(***************************************************************************)
EXTENDS VmPolicy

-----------------------------------------------------------------------------
(* The daemon dies.  Its memory, locks and listeners are gone, its VMM     *)
(* children run on; rows, slots, rules and TAPs stay.                      *)

Orphaned(ps) == IF ps = {} THEN {} ELSE {"orphan"}

Dies ==
    /\ mem' = [v \in Vms |-> NoMem]
    /\ op' = [n \in Names |-> NoOp]
    /\ net' = [net EXCEPT !.adding = {}, !.removing = {}, !.listening = {}]

Crash ==
    /\ "crash" \in menu /\ daemon # "down" /\ hist.crashes < MaxCrashes
    /\ Dies
    /\ host' = [v \in Vms |-> [host[v] EXCEPT !.procs = Orphaned(@)]]
    /\ daemon' = "down"
    /\ hist' = [hist EXCEPT !.crashes = @ + 1]
    /\ UNCHANGED <<row, disk, menu>>

-----------------------------------------------------------------------------
(* drain_vms: shutdown stops every live VM it listed, without its lock.    *)

\* quiesce_shutdown_ingress, the workers stop, shutdown_userdata_jobs; requests
\* that outlive the grace period go on.
DrainBegin ==
    /\ Loop("drain")
    /\ daemon' = "draining"
    /\ row' = [v \in Vms |-> IF mem[v].job THEN Interrupted(row[v]) ELSE row[v]]
    /\ mem' = [v \in Vms |-> [mem[v] EXCEPT !.job = FALSE,
                  !.verdict = IF row[v].state \in Live THEN "drain" ELSE "none"]]
    /\ net' = [net EXCEPT !.listening = {}]
    /\ UNCHANGED <<host, disk, op, menu>>

\* drain_one: shut_down_guest and stop_vm, under a timeout ...
DrainStop(v) ==
    /\ daemon = "draining" /\ mem[v].verdict = "drain"
    /\ \/ /\ mem[v].inst # "none" /\ Reaped(v)
          /\ SetMem(v, [mem[v] EXCEPT !.inst = "stopped", !.verdict = "marking"])
          /\ UNCHANGED hist
       \/ /\ mem[v].inst = "none"
          /\ SetMem(v, [mem[v] EXCEPT !.verdict = "marking"])
          /\ UNCHANGED <<host, hist>>
       \/ /\ Fault
          /\ SetMem(v, [mem[v] EXCEPT !.verdict = "marking"]) /\ UNCHANGED host
    /\ UNCHANGED <<row, disk, net, op, daemon, menu>>

\* ... and the VM is marked stopped however that went.
DrainMark(v) ==
    /\ daemon = "draining" /\ mem[v].verdict = "marking"
    /\ SetRow(v, Interrupted(Stopped(row[v])))
    /\ SetMem(v, [mem[v] EXCEPT !.verdict = "none"])
    /\ UNCHANGED <<host, disk, net, op, daemon, hist, menu>>

\* The process ends: reclaim_shutdown_vms has released the network of stopped
\* VMs, the bridge and the nftables table are removed, kill_on_drop ends what
\* still runs.
DaemonExit ==
    LET gone == {v \in Vms : Reclaimable(v)} IN
    /\ daemon = "draining" /\ \A v \in Vms : mem[v].verdict = "none"
    /\ Dies
    /\ row' = [v \in Vms |-> IF v \in gone THEN Untapped(row[v]) ELSE row[v]]
    /\ host' = [v \in Vms |-> [host[v] EXCEPT !.procs = @ \ {"child"},
                                              !.tap = FALSE]]
    /\ daemon' = "down"
    /\ UNCHANGED <<disk, hist, menu>>

-----------------------------------------------------------------------------
(* Start-up, in the order of start_daemon and run_daemon_runtime.          *)

Phase(from, to) == daemon = from /\ daemon' = to /\ UNCHANGED <<op, hist, menu>>

StartDaemon == Phase("down", "reap") /\ UNCHANGED <<row, mem, host, disk, net>>

\* reap_orphaned_vmms: the pid of a live row.
ReapOrphans ==
    /\ Phase("reap", "stale")
    /\ host' = [v \in Vms |-> IF row[v].state \in Live /\ row[v].pid
                              THEN [host[v] EXCEPT !.procs = {}] ELSE host[v]]
    /\ UNCHANGED <<row, mem, disk, net>>

\* mark_stale_vms_stopped, one transaction.
StaleRow(r) ==
    LET s == CASE r.state \in Live -> Stopped(r)
               [] r.state \in {"stopped", "suspended"} -> [r EXCEPT !.pid = FALSE]
               [] OTHER -> r
    IN IF s.status = "running" \/ s.state = "stopped" THEN Interrupted(s) ELSE s

\* Then reconcile_host_resources: the TAPs of rows that are not suspended go.
\* (The directory of a name stays while a row or a creation lease has it.)
MarkStale ==
    /\ Phase("stale", "sweep")
    /\ row' = [v \in Vms |-> StaleRow(row[v])]
    /\ host' = [v \in Vms |-> IF row[v].state \in {"suspended", "absent"}
                              THEN host[v] ELSE [host[v] EXCEPT !.tap = FALSE]]
    /\ UNCHANGED <<mem, disk, net>>

\* Mutant: the processes in the cgroups of an earlier daemon live on.
SweepCgroupsSpared ==
    /\ Phase("sweep", "suspends")
    /\ host' = [v \in Vms |-> [host[v] EXCEPT !.tap = FALSE]]
    /\ net' = [net EXCEPT !.dnat = {}]
    /\ UNCHANGED <<row, mem, disk>>

\* CgroupSupervisor::init kills what an earlier daemon left in its cgroups;
\* without supervision it does nothing.  The bridge is recreated, which
\* detaches every TAP, and init_nat starts an empty table.
SweepCgroups ==
    /\ Phase("sweep", "suspends")
    /\ host' = [v \in Vms |-> [host[v] EXCEPT
                   !.procs = IF Supervised THEN {} ELSE @, !.tap = FALSE]]
    /\ net' = [net EXCEPT !.dnat = {}]
    /\ UNCHANGED <<row, mem, disk>>

\* reconcile_suspended_vms: the VMM of an interrupted suspend is reaped; a
\* complete slot makes the VM suspended, any other makes it stopped.
ReconcileSuspends ==
    LET mid(v) == row[v].state = "suspending" IN
    /\ Phase("suspends", "networks")
    /\ row' = [v \in Vms |->
          CASE mid(v) /\ Saved(v) -> Runtime(row[v], "suspended", FALSE)
            [] mid(v) /\ ~Saved(v) -> Stopped(row[v])
            [] OTHER -> row[v]]
    /\ host' = [v \in Vms |->
          IF mid(v) THEN [host[v] EXCEPT
                            !.procs = IF row[v].pid THEN {} ELSE @,
                            !.slot = IF Saved(v) THEN @ ELSE "none"]
          ELSE host[v]]
    /\ UNCHANGED <<mem, disk, net>>

\* Mutant: listeners are not bound again.
RestoreNetworksDeaf ==
    /\ Phase("networks", "up")
    /\ UNCHANGED <<row, mem, host, disk, net>>

\* restore_suspended_vm_networks, reconcile_port_forwards_from_state and
\* reinstall_resume_listeners, before the API is served.
RestoreNetworks ==
    LET asleep == {v \in Vms : row[v].state = "suspended"}
        routed == {v \in Vms : row[v].state \notin {"absent", "suspended"}
                                /\ row[v].tapdev}
        fwd(vs) == {r \in Ports \X vs : net.forward[r[1]] = r[2]}
    IN
    /\ Phase("networks", "up")
    /\ \E ok \in SUBSET asleep :
          host' = [v \in Vms |-> IF v \in ok /\ row[v].tapdev
                                 THEN [host[v] EXCEPT !.tap = TRUE]
                                 ELSE host[v]]
    /\ net' = [net EXCEPT !.dnat = @ \cup fwd(routed), !.clashed = {},
                          !.listening = @ \cup fwd(asleep \cap AutoResume)]
    /\ UNCHANGED <<row, mem, disk>>

-----------------------------------------------------------------------------

Suspending(n) == \/ SuspendMark(n) \/ SuspendPause(n) \/ SuspendCapture(n)
                 \/ SuspendManifest(n) \/ SuspendUndo(n) \/ SuspendKill(n)
                 \/ SuspendCommit(n) \/ SuspendStamp(n) \/ SuspendListen(n)
                 \/ SuspendUnroute(n)

Resuming(n) == \/ ResumeUnpause(n) \/ ResumeRewire(n) \/ ResumeRestore(n)
               \/ ResumeCommit(n) \/ ResumeDiscard(n) \/ ResumeRoute(n)
               \/ ResumeDrain(n)

Ending(n) == \/ StopDiscard(n) \/ ShutDownGuest(n) \/ StopKill(n)
             \/ StopCommit(n) \/ PauseCommit(n)
             \/ DestroyCheck(n) \/ DestroyKill(n) \/ DestroyRmdir(n)
             \/ DestroyUnwire(n) \/ DestroyRetire(n)

Creating(n) == \/ CreateWire(n) \/ CreateDisk(n) \/ CreateSpawn(n)
               \/ CreateCommit(n) \/ RollbackCreate(n)
               \/ ForkLock(n) \/ ForkAlias(n) \/ ForkLoad(n) \/ ForkRehome(n)

\* The steps of an operation that holds the lock of n.
Running(n) == \/ Cancel(n) \/ Suspending(n) \/ Resuming(n) \/ Ending(n)
              \/ Creating(n) \/ RecoverUserdata(n)

Clients(v) ==
    \/ SuspendVm(v) \/ ResumeVm(v) \/ StopVm(v) \/ PauseVm(v) \/ DestroyVm(v)
    \/ RunUserdata(v) \/ AgentConnect(v) \/ ProbeRead(v)
    \/ \E n \in Names : CreateVm(v, n) \/ \E m \in Names : ForkVm(m, n, v)
    \/ \E p \in Ports : \/ AddForwardRule(p, v) \/ RemoveForwardRule(p, v)
                        \/ ListenerWake(p, v)

Background(v) ==
    \/ DestroyLock(v) \/ SpawnUserdata(v) \/ FinishUserdata(v)
    \/ IdleDecide(v) \/ IdleAct(v) \/ ReclaimVm(v)
    \/ ConnectWake(v) \/ ConnectFind(v) \/ ConnectDial(v) \/ ConnectClose(v)
    \/ ProbeAsk(v) \/ ProbeMark(v) \/ DrainStop(v) \/ DrainMark(v)
    \/ \E p \in Ports : AddForwardRow(p, v) \/ RemoveForwardRow(p, v)

Starting == \/ StartDaemon \/ ReapOrphans \/ MarkStale \/ SweepCgroups
            \/ ReconcileSuspends \/ RestoreNetworks

Next == \/ \E n \in Names : Running(n)
        \/ \E v \in Vms : Clients(v) \/ Background(v) \/ GuestExit(v)
        \/ Crash \/ DrainBegin \/ DaemonExit \/ Starting

-----------------------------------------------------------------------------
(* Properties.                                                             *)

AtRest(v) == Serving /\ ~Locked(row[v].name)

\* With cgroup supervision two VMM processes never run one VM: whatever a dead
\* daemon left running is gone before a resume, a fork or a retry starts another.
\* Without it (resource_limits is off by default) only the pid column names what
\* a dead daemon left, and a child spawned before its pid was recorded stays.
SoleVmm == Supervised => \A v \in Vms : Cardinality(host[v].procs) <= 1

\* A VM that is suspended keeps a complete snapshot, through crashes at every
\* step of suspend and resume, until somebody asked to stop or destroy it: its
\* own, or the one an earlier resume could not remove, which start-up takes for
\* that of an interrupted suspension.
SuspendedResumable ==
    \A v \in Vms : AtRest(v) /\ row[v].state = "suspended" /\ v \notin hist.lost
                    => Saved(v)

\* While the disk of a fork's source is aliased to the clone, and after a crash
\* in that window, no VMM is started on the source, and none was running when
\* the alias was made, except one that a resume started and could not record
\* (restore_from_suspend: the row still says suspended, and fork_vm asks only
\* the row).
SourceDiskSafe ==
    [][\A v \in Vms : host'[v].bak =>
          /\ "child" \in host'[v].procs => "child" \in host[v].procs
          /\ host'[v].procs # {} => host'[v].ran]_vars

\* The directory of a name holds the disk of the VM that has the name: a
\* destroy that waited for the lock does not remove its successor's.
RowHasItsDisk ==
    \A v \in Vms : /\ AtRest(v) /\ v \notin hist.lost
                   /\ row[v].state \in {"running", "paused", "suspended"}
                   => disk[row[v].name] = v

\* A forwarded port of a running VM, or of a suspended one that wakes up on a
\* connection, is accepted by a rule or by a listener, until its removal begins.
Answered(p) ==
    \A v \in Vms :
       /\ AtRest(v) /\ daemon = "up" /\ net.forward[p] = v
       /\ \A w \in Vms : <<p, w>> \notin net.removing
       /\ row[v].state = "running" \/ (row[v].state = "suspended" /\ v \in AutoResume)
       => <<p, v>> \in net.dnat \/ \E w \in Vms : <<p, w>> \in net.listening

\* Suspend, resume, crash and restart leave no forwarded port unanswered.  The
\* exception is the port of which a refused addition, or a removal during an
\* addition, took the rule away (add_port_forward and remove_port_forward hold
\* no lock): it stays deaf until the next start-up installs the rules anew.
NoDeafPort == \A p \in Ports \ net.clashed : Answered(p)

\* The conflict answer of POST /v1/vms/{name}/ports: "Port already forwarded".
\* A refused addition leaves the port forwarded.
PortStaysForwarded == \A p \in Ports : Answered(p)

\* A guest that the row says is running is on its bridge with its policy.
GuestIsWired ==
    \A v \in Vms : AtRest(v) /\ row[v].state = "running" /\ Alive(v)
                    => host[v].tap

\* A script is "running" only while the daemon owns a task that runs it.
RunningScriptOwned ==
    \A v \in Vms : Serving /\ row[v].status = "running" => mem[v].job

\* Comment on mark_vm_stopped: "a stopped VM has no VMM process and no resumable
\* suspend slot".
StoppedOwnsNothing ==
    \A v \in Vms : row[v].state = "stopped" /\ AtRest(v)
                    => ~Alive(v) /\ ~Saved(v)

Spec == RowsInit /\ [][Next]_vars

\* The runtime polls every task it has and a supervisor restarts the daemon;
\* clients, guests, crashes and shutdowns need not happen.
Fairness == /\ \A n \in Names : WF_vars(Running(n))
            /\ WF_vars(Starting)

FairSpec == Spec /\ Fairness

\* Comment on fork_vm: "The fork finishes (or rolls back) even when the caller
\* stops waiting for it".
ForkFinishes == \A n \in Names : op[n].kind = "source" ~> op[n].kind # "source"
=============================================================================
