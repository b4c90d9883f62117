------------------------------ MODULE VmPolicy ------------------------------
(***************************************************************************)
(* What decides about a VM without holding its lock: the idle policy       *)
(* (crates/husker-core/src/idle.rs), agent connections and the sessions    *)
(* they pin (agent_ops.rs), the resume listeners (port_proxy.rs) and the   *)
(* liveness refresh of a listed VM (network.rs).                           *)
(***************************************************************************)
EXTENDS VmOps

polRest == <<row, host, disk, net, daemon, menu>>

\* count_live_forks_of
HasLiveFork(v) == \E w \in Vms : /\ row[w].parent = v
                                 /\ row[w].state \notin {"absent", "stopped"}

\* evaluate_policy, for VMs whose timeouts have passed: forks are left alone,
\* an open session shields everything, a live fork shields its source.
EvaluatePolicy(v) ==
    CASE row[v].parent # NoVm \/ mem[v].sessions > 0 -> "none"
      [] row[v].state = "running" -> "suspend"
      [] row[v].state = "suspended" /\ row[v].anchor /\ ~HasLiveFork(v) -> "reap"
      [] OTHER -> "none"

\* idle_policy_tick reads the rows and its own clocks and counters (a tick is
\* bounded like a call).
IdleDecide(v) ==
    /\ Call("idle") /\ mem[v].verdict = "none" /\ EvaluatePolicy(v) # "none"
    /\ SetMem(v, [mem[v] EXCEPT !.verdict = EvaluatePolicy(v)])
    /\ UNCHANGED <<polRest, op>>

\* Under the lock the policy is evaluated again, for the same generation.
IdleAct(v) ==
    LET d == mem[v].verdict
        go == row[v].state # "absent" /\ EvaluatePolicy(v) = d
    IN
    /\ Serving /\ d \in {"suspend", "reap"} /\ ~Locked(row[v].name)
    /\ IF go /\ d = "suspend" THEN Lock(row[v].name, "idle", v, "cancel")
       ELSE IF go THEN Lock(row[v].name, "reap", v, "check")
       ELSE UNCHANGED op
    /\ SetMem(v, [mem[v] EXCEPT !.verdict = "none"])
    /\ UNCHANGED <<polRest, hist>>

-----------------------------------------------------------------------------
(* agent_connect                                                           *)

AgentConnect(v) ==
    /\ Call("connect") /\ mem[v].conn = "none"
    /\ row[v].state \in {"running", "suspended"}
    /\ SetMem(v, [mem[v] EXCEPT !.conn = "asked"])
    /\ UNCHANGED <<polRest, op>>

\* A suspended VM with auto_resume is resumed first.
ConnectWake(v) ==
    /\ Serving /\ mem[v].conn = "asked"
    /\ v \in AutoResume /\ row[v].state = "suspended"
    /\ BeginResume(v) /\ UNCHANGED hist

\* The row is read again and must be running ...
ConnectFind(v) ==
    /\ Serving /\ mem[v].conn = "asked"
    /\ SetMem(v, [mem[v] EXCEPT !.conn = IF row[v].state = "running"
                                         THEN "found" ELSE "none"])
    /\ ~(v \in AutoResume /\ row[v].state = "suspended")
    /\ UNCHANGED <<polRest, op, hist>>

\* ... before the session is pinned and the guest is dialled: neither takes the
\* name lock.
ConnectDial(v) ==
    /\ Serving /\ mem[v].conn = "found" /\ mem[v].sessions < MaxSessions
    /\ SetMem(v, IF Answers(v)
                 THEN [mem[v] EXCEPT !.conn = "open", !.sessions = @ + 1]
                 ELSE [mem[v] EXCEPT !.conn = "none"])
    /\ UNCHANGED <<polRest, op, hist>>

\* ActiveSessionGuard::drop
ConnectClose(v) ==
    /\ Serving /\ mem[v].conn = "open"
    /\ SetMem(v, [mem[v] EXCEPT !.conn = "none",
                                !.sessions = IF @ > 0 THEN @ - 1 ELSE 0])
    /\ UNCHANGED <<polRest, op, hist>>

\* A connection to a resume listener resumes the VM behind it.
ListenerWake(p, v) ==
    /\ Call("connect") /\ <<p, v>> \in net.listening /\ BeginResume(v)

-----------------------------------------------------------------------------
(* refresh_vm_liveness, for a VM that is being shown or listed             *)

ProbeRead(v) ==
    /\ Call("probe") /\ mem[v].probe = "none" /\ row[v].state \in Live
    /\ SetMem(v, [mem[v] EXCEPT !.probe = "read"])
    /\ UNCHANGED <<polRest, op>>

\* vm_info: stopped, failed or unknown means the VM is not alive.
ProbeAsk(v) ==
    /\ Serving /\ mem[v].probe = "read"
    /\ SetMem(v, [mem[v] EXCEPT !.inst = Refreshed(v),
                  !.probe = IF Refreshed(v) \in Live THEN "none" ELSE "gone"])
    /\ UNCHANGED <<polRest, op, hist>>

\* mark_vm_stopped, whatever has happened to the row since it was read.
ProbeMark(v) ==
    /\ Serving /\ mem[v].probe = "gone"
    /\ SetRow(v, Stopped(row[v]))
    /\ SetMem(v, [mem[v] EXCEPT !.probe = "none"])
    /\ UNCHANGED <<host, disk, net, op, daemon, hist, menu>>

\* The guest powers itself off, or its VMM dies.
GuestExit(v) ==
    /\ "exit" \in menu /\ Alive(v) /\ Fault
    /\ Reaped(v)
    /\ UNCHANGED <<row, mem, disk, net, op, daemon, menu>>
=============================================================================
