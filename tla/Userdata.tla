------------------------------ MODULE Userdata ------------------------------
(***************************************************************************)
(* Background execution of a VM's userdata script                          *)
(* (crates/husker-core/src/agent_ops.rs): the durable userdata_status and  *)
(* the registry of owned tasks, which lifecycle operations cancel, restart *)
(* or end as interrupted.                                                  *)
(***************************************************************************)
EXTENDS VmRows

\* claim_and_insert refuses a closed registry, a second task and a script that
\* is not pending.
Claimable(v) == daemon = "up" /\ ~mem[v].job /\ row[v].status = "pending"

\* UserdataJobs::claim_and_insert: the durable claim and the registration are
\* one critical section.
ClaimAndInsert(v) ==
    /\ Claimable(v)
    /\ SetRow(v, WithStatus(row[v], "running"))
    /\ SetJob(v, TRUE)

\* start_userdata_job: the registration takes the name lock and finds the
\* generation it was spawned for.
StartUserdata(v, requireRunning) ==
    /\ row[v].state # "absent" /\ ~Locked(row[v].name)
    /\ requireRunning => row[v].state = "running"
    /\ ClaimAndInsert(v)
    /\ UNCHANGED <<host, disk, net, op, daemon, menu>>

\* spawn_userdata, after a creation.
SpawnUserdata(v) == StartUserdata(v, TRUE) /\ UNCHANGED hist

\* run_userdata, asked for by a client.
RunUserdata(v) == Call("userdata") /\ StartUserdata(v, FALSE)

\* execute_claimed_userdata ends by itself: the script's exit code, or a
\* failure to reach the guest.  UserdataRunGuard only moves "running" on.
FinishUserdata(v) ==
    /\ Serving /\ mem[v].job
    /\ \E s \in {"completed", "failed"} :
          /\ s = "completed" => mem[v].inst = "running" /\ Alive(v)
          /\ SetRow(v, IF row[v].status = "running"
                       THEN WithStatus(row[v], s) ELSE row[v])
    /\ SetJob(v, FALSE)
    /\ UNCHANGED <<host, disk, net, op, daemon, hist, menu>>

\* Mutant: the task is aborted and its claim stays.
CancelUserdataKeepClaim(n, pc) ==
    /\ SetOp(n, [op[n] EXCEPT !.cut = mem[Vm(n)].job, !.pc = pc])
    /\ SetJob(Vm(n), FALSE)
    /\ UNCHANGED row

\* cancel_userdata_job: abort and join the owned task; its claim goes back.
CancelUserdata(n, pc) ==
    LET v == Vm(n) IN
    /\ SetOp(n, [op[n] EXCEPT !.cut = mem[v].job, !.pc = pc])
    /\ SetRow(v, IF mem[v].job /\ row[v].status = "running"
                 THEN WithStatus(row[v], "pending") ELSE row[v])
    /\ SetJob(v, FALSE)

\* recover_userdata_after_lifecycle_failure_locked: the failed operation left
\* the guest running, so a task it cancelled is started again; otherwise the
\* script is over.  The lock is released afterwards.
RecoverUserdata(n) ==
    LET v == Vm(n)
        running == row[v].state = "running" /\ Refreshed(v) = "running"
        restart == running /\ op[n].cut /\ Claimable(v)
    IN
    /\ At(n, {"suspend", "idle", "stop", "pause", "destroy", "reap"}, "recover")
    /\ SetRow(v, IF restart THEN WithStatus(row[v], "running")
                 ELSE IF running /\ ~op[n].cut THEN row[v]
                 ELSE Interrupted(row[v]))
    /\ SetMem(v, [mem[v] EXCEPT !.job = @ \/ restart, !.inst = Refreshed(v)])
    /\ Unlock(n)
    /\ UNCHANGED <<host, disk, net, daemon, hist, menu>>
=============================================================================
