-------------------------- MODULE VmFleetInvariant -------------------------
(***************************************************************************)
(* Proofs about VmFleet, for every set of VMs, names and ports and every   *)
(* workload: what holds of a VM, of its processes, slot, disk and TAP, and *)
(* of the operation that holds a name lock, at every await of every        *)
(* operation and after a crash in any of them.                             *)
(***************************************************************************)
EXTENDS VmFleet, FiniteSetTheorems, TLAPS

-----------------------------------------------------------------------------
(* The inductive invariant.                                                *)

Present(v) == row[v].state # "absent"

\* With cgroup supervision a serving daemon finds no process of an earlier one,
\* and what it runs is in its instance table.
Processes(v) ==
    /\ host[v].procs \subseteq (IF Serving THEN {"child"} ELSE {"orphan"})
    /\ daemon \in {"suspends", "networks"} => host[v].procs = {}
    /\ Alive(v) => mem[v].inst # "none"

\* Nothing runs, or what runs came out of the slot after its capture.
Asleep(v) == host[v].procs = {} \/ host[v].ran

Sleeps(v) ==
    /\ row[v].state = "suspended" => Asleep(v)
    /\ row[v].state = "suspended" /\ v \notin hist.lost => Saved(v)
    /\ host[v].bak => row[v].state \in {"suspended", "stopped"} /\ Asleep(v)

HasDisk(v) == Present(v) /\ v \notin hist.lost => disk[row[v].name] = v

Wired(v) == Alive(v) /\ row[v].state \notin {"absent", "stopped"} => host[v].tap

\* A destroy that waits for its lock was asked for a generation that had a row.
Expected(v) == mem[v].condemned => Present(v) \/ v \in hist.lost

VmInv(v) == Processes(v) /\ Sleeps(v) /\ HasDisk(v) /\ Wired(v) /\ Expected(v)

-----------------------------------------------------------------------------
(* The operation that holds the lock of a name.                            *)

RowKinds == {"suspend", "idle", "resume", "stop", "pause"} \cup Destroys

\* The generation an operation has taken for a VM that has no row yet.
Claimed(n) == IF op[n].kind \in Creates THEN op[n].vm
              ELSE IF op[n].kind \in {"replace", "source"} THEN op[n].other
              ELSE NoVm

\* m is the lock of the source of the fork at n.
Paired(m, n) == /\ op[m].kind = "source" /\ op[m].pc = "held" /\ op[m].to = n
                /\ op[n].kind = "fork"

\* An operation on a row works on the generation that has the name; only a
\* destroy that has not looked yet may hold the lock for one that is gone.
RowOp(n) ==
    LET v == Vm(n) IN
    op[n].kind \in RowKinds =>
       /\ v \in Vms /\ row[v].name = n
       /\ Present(v) \/ (op[n].kind \in Destroys /\ op[n].pc = "check"
                           /\ v \in hist.lost)
       /\ op[n].kind \notin Destroys \/ op[n].pc \notin {"check", "recover"}
            => ~host[v].bak
       /\ op[n].kind \notin Destroys /\ Alive(v) => host[v].tap

SuspendOp(n) ==
    LET v == Vm(n) IN
    op[n].kind \in Suspends =>
       /\ op[n].was \in Live
       /\ op[n].pc \in {"cancel", "mark", "pause", "capture", "manifest", "undo",
                        "kill", "commit"} => row[v].state # "suspended"
       /\ op[n].pc \in {"kill", "commit"} => host[v].slot = "complete"
       /\ op[n].pc = "commit" => host[v].procs = {}

ResumeOp(n) ==
    LET v == Vm(n) IN
    op[n].kind = "resume" =>
       /\ op[n].pc = "restore" => host[v].tap
       /\ op[n].pc = "discard" => row[v].state # "suspended"

DestroyOp(n) ==
    op[n].kind \in Destroys /\ op[n].pc \in {"rmdir", "unwire", "retire"} =>
       Vm(n) \in hist.lost /\ ~Alive(Vm(n))

CreateOp(n) ==
    LET v == Vm(n) IN
    op[n].kind \in Creates =>
       /\ v \in Vms
       /\ \A w \in Vms : Present(w) => row[w].name # n
       /\ op[n].pc \in {"spawn", "alias", "load", "rehome", "commit"} => disk[n] = v
       /\ \/ op[n].pc \in {"spawn", "commit"}
          \/ op[n].kind = "create" /\ op[n].pc = "clone"
          => host[v].tap
       /\ op[n].pc \in {"rehome", "commit"} =>
             \A m \in Names \ {n} : Claimed(m) # v

\* The source of a fork stays asleep, and its lock held, until the load ends.
ForkOp(n) ==
    LET s == op[n].other IN
    op[n].kind = "fork" /\ op[n].pc \in {"wire", "clone", "alias", "load"} =>
       /\ s \in Vms /\ row[s].state \in {"suspended", "stopped"} /\ Asleep(s)
       /\ Paired(row[s].name, n) /\ op[row[s].name].other = Vm(n)

Claims(n) ==
    /\ op[n].kind \in {"replace", "source"} => op[n].other \in Vms
    /\ op[n].kind = "source" => op[n].to \in Names
    /\ Claimed(n) # NoVm => ~Present(Claimed(n)) /\ Claimed(n) \notin hist.lost

OpInv(n) == /\ RowOp(n) /\ SuspendOp(n) /\ ResumeOp(n) /\ DestroyOp(n)
            /\ CreateOp(n) /\ ForkOp(n) /\ Claims(n)

-----------------------------------------------------------------------------

NamesUnique == \A v, w \in Vms : Present(v) /\ Present(w) /\ row[v].name = row[w].name
                                   => v = w

ClaimsDistinct ==
    \A m, n \in Names : m # n /\ Claimed(m) = Claimed(n) =>
       Claimed(m) = NoVm \/ Paired(m, n) \/ Paired(n, m)

\* A daemon that does not serve holds no lock and remembers nothing.
Down == ~Serving => op = [n \in Names |-> NoOp] /\ mem = [v \in Vms |-> NoMem]

FleetInv ==
    /\ FleetTypeOK
    /\ \A v \in Vms : VmInv(v)
    /\ \A n \in Names : OpInv(n)
    /\ NamesUnique /\ ClaimsDistinct /\ Down
-----------------------------------------------------------------------------
(* What the updates of one record leave of it.                             *)

\* The row of v, its state s; what the daemon remembers of v, its instance i;
\* processes p, slot l, TAP t and history r of v on the host; the operation at n,
\* at pc: everything else is as it was.
RowTo(v, s) == /\ row' \in [Vms -> Rows]
               /\ row'[v].state = s /\ row'[v].name = row[v].name
               /\ \A u \in Vms \ {v} : row'[u] = row[u]

MemTo(v, i) == /\ mem' \in [Vms -> Memories]
               /\ mem'[v].inst = i /\ mem'[v].condemned = mem[v].condemned
               /\ \A u \in Vms \ {v} : mem'[u] = mem[u]

HostTo(v, p, l, t, r) ==
    /\ host' \in [Vms -> Hosts]
    /\ host'[v].procs = p /\ host'[v].slot = l /\ host'[v].tap = t
    /\ host'[v].ran = r /\ host'[v].bak = host[v].bak
    /\ \A u \in Vms \ {v} : host'[u] = host[u]

OpTo(n, pc) ==
    /\ op' \in [Names -> Operations]
    /\ op'[n].pc = pc /\ op'[n].kind = op[n].kind /\ op'[n].vm = op[n].vm
    /\ op'[n].other = op[n].other /\ op'[n].to = op[n].to
    /\ op'[n].was = op[n].was
    /\ \A m \in Names \ {n} : op'[m] = op[m]

Freed(n) == /\ op' \in [Names -> Operations] /\ op'[n] = NoOp
            /\ \A m \in Names \ {n} : op'[m] = op[m]

HistTo(lost) == /\ hist' \in [calls : 0..MaxCalls, crashes : 0..MaxCrashes,
                              faults : 0..MaxFaults, lost : SUBSET Vms]
                /\ hist'.lost = lost

\* The strings the actions write are states, awaits and kinds.
LEMMA Literals ==
    /\ {"running", "paused", "suspending", "suspended", "stopped"} \subseteq States
    /\ {"-", "cancel", "mark", "pause", "capture", "manifest", "undo", "kill",
        "commit", "stamp", "listen", "unroute", "recover", "unpause",
        "rewire", "restore", "discard", "route", "drain", "shutdown",
        "stopped", "check", "rmdir", "unwire", "retire", "wire", "clone",
        "spawn", "alias", "load", "rehome", "rollback", "wait", "held"}
          \subseteq Awaits
    /\ {"free", "suspend", "idle", "resume", "stop", "pause", "destroy",
        "reap", "replace", "create", "fork", "source"} \subseteq Kinds
  BY DEF States, Awaits, Kinds

\* SetRow changes one row.
LEMMA RowUpdate ==
    ASSUME row \in [Vms -> Rows], NEW v \in Vms, NEW r \in Rows, SetRow(v, r)
    PROVE  /\ row' \in [Vms -> Rows] /\ row'[v] = r
           /\ \A u \in Vms \ {v} : row'[u] = row[u]
  BY DEF SetRow

\* SetMem changes what is remembered of one VM.
LEMMA MemUpdate ==
    ASSUME mem \in [Vms -> Memories], NEW v \in Vms, NEW m \in Memories, SetMem(v, m)
    PROVE  /\ mem' \in [Vms -> Memories] /\ mem'[v] = m
           /\ \A u \in Vms \ {v} : mem'[u] = mem[u]
  BY DEF SetMem

\* SetHost changes the processes and files of one VM.
LEMMA HostUpdate ==
    ASSUME host \in [Vms -> Hosts], NEW v \in Vms, NEW h \in Hosts, SetHost(v, h)
    PROVE  /\ host' \in [Vms -> Hosts] /\ host'[v] = h
           /\ \A u \in Vms \ {v} : host'[u] = host[u]
  BY DEF SetHost

\* SetOp changes the holder of one name lock.
LEMMA OpUpdate ==
    ASSUME op \in [Names -> Operations], NEW n \in Names, NEW o \in Operations,
           SetOp(n, o)
    PROVE  /\ op' \in [Names -> Operations] /\ op'[n] = o
           /\ \A m \in Names \ {n} : op'[m] = op[m]
  BY DEF SetOp

\* The operation that moves on to another await keeps everything else.
LEMMA GotoFacts ==
    ASSUME op \in [Names -> Operations], NEW n \in Names, NEW pc \in Awaits,
           Goto(n, pc)
    PROVE  OpTo(n, pc)
<1>1. [op[n] EXCEPT !.pc = pc] \in Operations
  BY DEF Operations
<1>2. op[n] \in Operations
  OBVIOUS
<1> QED
  BY <1>1, <1>2, OpUpdate DEF Goto, Operations, OpTo

\* NoOp is an operation that names nobody.
LEMMA NoOpFacts ==
    /\ NoOp \in Operations
    /\ NoOp.kind = "free" /\ NoOp.vm = NoVm /\ NoOp.other = NoVm
  BY VmRowsAssumption, Literals DEF NoOp, Holder, Operations

\* The lock is released.
LEMMA UnlockFacts ==
    ASSUME op \in [Names -> Operations], NEW n \in Names, Unlock(n)
    PROVE  Freed(n)
  BY NoOpFacts, OpUpdate DEF Unlock, Freed

\* The lock is taken for the row of v.
LEMMA LockFacts ==
    ASSUME op \in [Names -> Operations], row \in [Vms -> Rows],
           NEW n \in Names, NEW v \in Vms, NEW k \in Kinds, NEW pc \in Awaits,
           Lock(n, k, v, pc)
    PROVE  /\ op' \in [Names -> Operations] /\ op[n] = NoOp
           /\ op'[n].kind = k /\ op'[n].vm = v /\ op'[n].other = NoVm
           /\ op'[n].pc = pc /\ op'[n].was = row[v].state
           /\ \A m \in Names \ {n} : op'[m] = op[m]
<1> DEFINE o == Holder(k, v, NoVm, NoVm, pc, row[v].state)
<1>1. row[v].state \in States \cup {"absent"}
  BY DEF Rows
<1>2. o \in Operations
  BY <1>1, VmRowsAssumption DEF Operations, Holder
<1>3. SetOp(n, o) /\ ~Locked(n)
  BY DEF Lock
<1>4. /\ op' \in [Names -> Operations] /\ op'[n] = o
      /\ \A m \in Names \ {n} : op'[m] = op[m]
  BY <1>2, <1>3, OpUpdate
<1> QED
  BY <1>3, <1>4 DEF Locked, Holder

\* The updates of a row keep its name; only the first two change its state.
LEMMA RowFacts ==
    ASSUME NEW r \in Rows
    PROVE  /\ \A s \in States \cup {"absent"} :
                 /\ InState(r, s) \in Rows
                 /\ InState(r, s).state = s /\ InState(r, s).name = r.name
                 /\ InState(r, s).status = r.status
           /\ \A s \in States \cup {"absent"}, b \in BOOLEAN :
                 /\ Runtime(r, s, b) \in Rows
                 /\ Runtime(r, s, b).state = s /\ Runtime(r, s, b).name = r.name
                 /\ Runtime(r, s, b).status = r.status
           /\ \A b \in BOOLEAN :
                 /\ Anchored(r, b) \in Rows
                 /\ Anchored(r, b).state = r.state /\ Anchored(r, b).name = r.name
                 /\ Anchored(r, b).status = r.status
           /\ Untapped(r) \in Rows
           /\ Untapped(r).state = r.state /\ Untapped(r).name = r.name
           /\ Untapped(r).status = r.status
<1>1. ASSUME NEW s \in States \cup {"absent"}
      PROVE  /\ InState(r, s) \in Rows /\ InState(r, s).state = s
             /\ InState(r, s).name = r.name /\ InState(r, s).status = r.status
  BY DEF InState, Rows
<1>2. ASSUME NEW s \in States \cup {"absent"}, NEW b \in BOOLEAN
      PROVE  /\ Runtime(r, s, b) \in Rows /\ Runtime(r, s, b).state = s
             /\ Runtime(r, s, b).name = r.name /\ Runtime(r, s, b).status = r.status
  <2>1. Runtime(r, s, b) \in Rows
    BY DEF Runtime, Rows
  <2>2. /\ Runtime(r, s, b).state = s /\ Runtime(r, s, b).name = r.name
        /\ Runtime(r, s, b).status = r.status
    BY DEF Runtime, Rows
  <2> QED
    BY <2>1, <2>2
<1>3. ASSUME NEW b \in BOOLEAN
      PROVE  /\ Anchored(r, b) \in Rows /\ Anchored(r, b).state = r.state
             /\ Anchored(r, b).name = r.name /\ Anchored(r, b).status = r.status
  BY DEF Anchored, Rows
<1>4. /\ Untapped(r) \in Rows /\ Untapped(r).state = r.state
      /\ Untapped(r).name = r.name /\ Untapped(r).status = r.status
  BY DEF Untapped, Rows
<1> QED
  BY <1>1, <1>2, <1>3, <1>4

Statuses == {"none", "pending", "running", "completed", "failed", "interrupted"}

\* The status of a userdata script is a matter of its own.
LEMMA StatusFacts ==
    ASSUME NEW r \in Rows, NEW s \in Statuses
    PROVE  /\ WithStatus(r, s) \in Rows /\ WithStatus(r, s).state = r.state
           /\ WithStatus(r, s).name = r.name /\ WithStatus(r, s).status = s
  BY DEF WithStatus, Rows, Statuses

\* The end of a script too.
LEMMA InterruptedFacts ==
    ASSUME NEW r \in Rows
    PROVE  /\ Interrupted(r) \in Rows /\ Interrupted(r).state = r.state
           /\ Interrupted(r).name = r.name /\ Interrupted(r).status # "running"
<1>1. CASE r.status \in {"running", "pending"}
  BY <1>1, StatusFacts DEF Interrupted, Statuses
<1>2. CASE r.status \notin {"running", "pending"}
  BY <1>2 DEF Interrupted
<1> QED
  BY <1>1, <1>2

\* A state write changes one row.
LEMMA StateFacts ==
    ASSUME row \in [Vms -> Rows], NEW v \in Vms, NEW s \in States \cup {"absent"},
           SetState(v, s)
    PROVE  RowTo(v, s)
<1>1. row[v] \in Rows
  OBVIOUS
<1> QED
  BY <1>1, RowFacts, RowUpdate DEF SetState, RowTo

\* So does update_vm_runtime.
LEMMA RuntimeFacts ==
    ASSUME row \in [Vms -> Rows], NEW v \in Vms, NEW s \in States \cup {"absent"},
           NEW p \in BOOLEAN, SetRuntime(v, s, p)
    PROVE  RowTo(v, s)
<1>1. row[v] \in Rows
  OBVIOUS
<1>2. LET r == Runtime(row[v], s, p) IN
      r \in Rows /\ r.state = s /\ r.name = row[v].name
  BY <1>1, RowFacts
<1> QED
  BY <1>2, RowUpdate DEF SetRuntime, RowTo

\* mark_vm_stopped leaves a row that is gone alone.
LEMMA StoppedFacts ==
    ASSUME NEW r \in Rows
    PROVE  /\ Stopped(r) \in Rows /\ Stopped(r).name = r.name
           /\ Stopped(r).state = IF r.state = "absent" THEN "absent" ELSE "stopped"
           /\ Stopped(r).status = r.status
<1>1. CASE r.state = "absent"
  BY <1>1 DEF Stopped
<1>2. CASE r.state # "absent"
  <2>1. [r EXCEPT !.state = "stopped", !.pid = FALSE, !.anchor = FALSE] \in Rows
    BY Literals DEF Rows
  <2>2. /\ Stopped(r).name = r.name /\ Stopped(r).state = "stopped"
        /\ Stopped(r).status = r.status
    BY <1>2 DEF Stopped, Rows
  <2> QED
    BY <1>2, <2>1, <2>2 DEF Stopped
<1> QED
  BY <1>1, <1>2

\* What is left of a row whose VM is suspended, paused or stopped.
LEMMA EndedFacts ==
    ASSUME NEW r \in Rows
    PROVE  /\ LET q == Interrupted(Runtime(r, "suspended", FALSE)) IN
              q \in Rows /\ q.state = "suspended" /\ q.name = r.name
           /\ LET q == Interrupted(InState(r, "paused")) IN
              q \in Rows /\ q.state = "paused" /\ q.name = r.name
           /\ LET q == Interrupted(Stopped(r)) IN
              /\ q \in Rows /\ q.name = r.name
              /\ q.state = IF r.state = "absent" THEN "absent" ELSE "stopped"
<1>1. LET q == Interrupted(Runtime(r, "suspended", FALSE)) IN
      q \in Rows /\ q.state = "suspended" /\ q.name = r.name
  <2>1. LET q == Runtime(r, "suspended", FALSE) IN
        q \in Rows /\ q.state = "suspended" /\ q.name = r.name
    BY RowFacts, Literals, ZenonT(40)
  <2> QED
    BY <2>1, InterruptedFacts
<1>2. LET q == Interrupted(InState(r, "paused")) IN
      q \in Rows /\ q.state = "paused" /\ q.name = r.name
  <2>1. LET q == InState(r, "paused") IN
        q \in Rows /\ q.state = "paused" /\ q.name = r.name
    BY RowFacts, Literals
  <2> QED
    BY <2>1, InterruptedFacts
<1>3. LET q == Interrupted(Stopped(r)) IN
      /\ q \in Rows /\ q.name = r.name
      /\ q.state = IF r.state = "absent" THEN "absent" ELSE "stopped"
  BY StoppedFacts, InterruptedFacts
<1> QED
  BY <1>1, <1>2, <1>3

Insts == {"none", "running", "paused", "stopped", "failed"}

\* The instance table changes, the destroy that waits for the VM does not.
LEMMA InstFacts ==
    ASSUME mem \in [Vms -> Memories], NEW v \in Vms, NEW s \in Insts, SetInst(v, s)
    PROVE  MemTo(v, s)
<1>1. [mem[v] EXCEPT !.inst = s] \in Memories
  BY DEF Memories, Insts
<1>2. mem[v] \in Memories
  OBVIOUS
<1> QED
  BY <1>1, <1>2, MemUpdate DEF SetInst, Memories, MemTo

\* A userdata task is registered or gone.
LEMMA JobFacts ==
    ASSUME mem \in [Vms -> Memories], NEW v \in Vms, NEW b \in BOOLEAN, SetJob(v, b)
    PROVE  MemTo(v, mem[v].inst) /\ mem'[v].job = b
<1>1. [mem[v] EXCEPT !.job = b] \in Memories
  BY DEF Memories
<1>2. mem[v] \in Memories
  OBVIOUS
<1> QED
  BY <1>1, <1>2, MemUpdate DEF SetJob, Memories, MemTo

\* A slot is written, completed or removed.
LEMMA SlotFacts ==
    ASSUME host \in [Vms -> Hosts], NEW v \in Vms,
           NEW s \in Slots, SetSlot(v, s)
    PROVE  HostTo(v, host[v].procs, s, host[v].tap, host[v].ran)
<1>1. [host[v] EXCEPT !.slot = s] \in Hosts
  BY DEF Hosts
<1>2. host[v] \in Hosts
  OBVIOUS
<1> QED
  BY <1>1, <1>2, HostUpdate DEF SetSlot, Hosts, HostTo

\* A TAP is attached or released.
LEMMA TapFacts ==
    ASSUME host \in [Vms -> Hosts], NEW v \in Vms, NEW b \in BOOLEAN, SetTap(v, b)
    PROVE  HostTo(v, host[v].procs, host[v].slot, b, host[v].ran)
<1>1. [host[v] EXCEPT !.tap = b] \in Hosts
  BY DEF Hosts
<1>2. host[v] \in Hosts
  OBVIOUS
<1> QED
  BY <1>1, <1>2, HostUpdate DEF SetTap, Hosts, HostTo

\* The slot while a capture is written, and after a removal that failed.
Recaptured(v) == IF Saved(v) THEN "stale" ELSE "partial"

\* The slots these steps leave.
LEMMA SlotValues ==
    ASSUME host \in [Vms -> Hosts], NEW v \in Vms
    PROVE  /\ {"none", "complete", Recaptured(v), Leftover(v), host[v].slot} \subseteq Slots
           /\ Saved(v) => Leftover(v) \in {"stale", "complete"}
  BY DEF Hosts, Slots, Recaptured, Leftover, Saved

\* A capture starts a slot anew.
LEMMA CapturedFacts ==
    ASSUME host \in [Vms -> Hosts], NEW v \in Vms, Captured(v)
    PROVE  HostTo(v, host[v].procs, Recaptured(v), host[v].tap, FALSE)
<1>0. PICK l \in Slots : l = Recaptured(v)
  BY SlotValues
<1>1. [host[v] EXCEPT !.slot = l, !.ran = FALSE] \in Hosts
  BY DEF Hosts
<1>2. LET h == [host[v] EXCEPT !.slot = l, !.ran = FALSE] IN
      /\ h.slot = l /\ h.ran = FALSE /\ h.procs = host[v].procs
      /\ h.tap = host[v].tap /\ h.bak = host[v].bak
  BY DEF Hosts
<1>3. SetHost(v, [host[v] EXCEPT !.slot = l, !.ran = FALSE])
  BY <1>0 DEF Captured, Recaptured
<1> QED
  BY <1>0, <1>1, <1>2, <1>3, HostUpdate DEF HostTo

\* The child has been waited for.
LEMMA ReapedFacts ==
    ASSUME host \in [Vms -> Hosts], NEW v \in Vms, Reaped(v)
    PROVE  HostTo(v, host[v].procs \ {"child"}, host[v].slot, host[v].tap, host[v].ran)
<1>1. host[v] \in Hosts /\ host[v].procs \ {"child"} \in SUBSET {"child", "orphan"}
  BY DEF Hosts
<1>2. [host[v] EXCEPT !.procs = @ \ {"child"}] \in Hosts
  BY <1>1 DEF Hosts
<1> QED
  BY <1>1, <1>2, HostUpdate DEF Reaped, Hosts, HostTo

\* A child has been spawned; it came out of the slot if there is one.
LEMMA SpawnedFacts ==
    ASSUME host \in [Vms -> Hosts], mem \in [Vms -> Memories], NEW v \in Vms,
           NEW s \in Insts, Spawned(v, s)
    PROVE  /\ HostTo(v, host[v].procs \cup {"child"}, host[v].slot, host[v].tap,
                     host[v].slot # "none")
           /\ MemTo(v, s)
<1> DEFINE b == host[v].slot # "none"
           p == host[v].procs \cup {"child"}
<1>1. host[v] \in Hosts /\ b \in BOOLEAN /\ p \in SUBSET {"child", "orphan"}
  BY DEF Hosts
<1>2. SetHost(v, [host[v] EXCEPT !.procs = p, !.ran = b]) /\ SetInst(v, s)
  BY DEF Spawned
<1>3. b <=> host[v].slot # "none"
  OBVIOUS
<1>4. p = host[v].procs \cup {"child"}
  OBVIOUS
<1> HIDE DEF b, p
<1>5. [host[v] EXCEPT !.procs = p, !.ran = b] \in Hosts
  BY <1>1 DEF Hosts
<1>6. LET h == [host[v] EXCEPT !.procs = p, !.ran = b] IN
      /\ h.procs = p /\ h.ran = b /\ h.tap = host[v].tap /\ h.slot = host[v].slot
      /\ h.bak = host[v].bak
  BY <1>1 DEF Hosts
<1> QED
  BY <1>2, <1>3, <1>4, <1>5, <1>6, HostUpdate, InstFacts DEF HostTo

\* A fault is counted; it takes nobody's memory away.
LEMMA FaultFacts ==
    ASSUME FleetTypeOK, Fault
    PROVE  HistTo(hist.lost)
  BY VmRowsAssumption DEF FleetTypeOK, Fault, HistTo

\* So is a call.
LEMMA CallFacts ==
    ASSUME FleetTypeOK, NEW c, Call(c)
    PROVE  HistTo(hist.lost) /\ daemon = "up"
  BY VmRowsAssumption DEF FleetTypeOK, Call, HistTo

\* The memory of a VM is given up on request, and the removal of its slot may fail.
LEMMA LostFacts ==
    ASSUME FleetTypeOK, NEW v \in Vms,
           \/ hist' = [hist EXCEPT !.lost = @ \cup {v}]
           \/ /\ hist.faults < MaxFaults
              /\ hist' = [hist EXCEPT !.lost = @ \cup {v}, !.faults = @ + 1]
    PROVE  HistTo(hist.lost \cup {v})
<1>1. CASE hist' = [hist EXCEPT !.lost = @ \cup {v}]
  BY <1>1 DEF FleetTypeOK, HistTo
<1>2. CASE /\ hist.faults < MaxFaults
           /\ hist' = [hist EXCEPT !.lost = @ \cup {v}, !.faults = @ + 1]
  <2>1. hist.faults + 1 \in 0..MaxFaults
    BY <1>2, VmRowsAssumption DEF FleetTypeOK
  <2> QED
    BY <1>2, <2>1 DEF FleetTypeOK, HistTo
<1> QED
  BY <1>1, <1>2

\* What is not touched.
LEMMA Untouched ==
    ASSUME FleetTypeOK, NEW v \in Vms
    PROVE  /\ UNCHANGED row => RowTo(v, row[v].state)
           /\ UNCHANGED mem => MemTo(v, mem[v].inst)
           /\ UNCHANGED host =>
                 HostTo(v, host[v].procs, host[v].slot, host[v].tap, host[v].ran)
           /\ UNCHANGED hist => HistTo(hist.lost)
  BY DEF FleetTypeOK, RowTo, MemTo, HostTo, HistTo

\* A row that keeps its state and its name.
LEMMA RowKept ==
    ASSUME row \in [Vms -> Rows], NEW v \in Vms, NEW r \in Rows, SetRow(v, r),
           r.name = row[v].name
    PROVE  RowTo(v, r.state)
  BY RowUpdate DEF RowTo

\* The row writes of the operations: each keeps the name, and the state unless it
\* says otherwise.
LEMMA RowWrites ==
    ASSUME row \in [Vms -> Rows], NEW v \in Vms, row[v].state # "absent"
    PROVE  /\ SetRow(v, Anchored(row[v], TRUE)) => RowTo(v, row[v].state)
           /\ SetRow(v, Anchored(row[v], FALSE)) => RowTo(v, row[v].state)
           /\ SetRow(v, Untapped(row[v])) => RowTo(v, row[v].state)
           /\ SetRow(v, Interrupted(row[v])) => RowTo(v, row[v].state)
           /\ SetRow(v, Interrupted(Runtime(row[v], "suspended", FALSE)))
                => RowTo(v, "suspended")
           /\ SetRow(v, Interrupted(InState(row[v], "paused"))) => RowTo(v, "paused")
           /\ SetRow(v, Interrupted(Stopped(row[v]))) => RowTo(v, "stopped")
           /\ SetRow(v, Stopped(row[v])) => RowTo(v, "stopped")
<1>1. row[v] \in Rows
  OBVIOUS
<1>2. SetRow(v, Anchored(row[v], TRUE)) => RowTo(v, row[v].state)
  <2>1. LET q == Anchored(row[v], TRUE) IN
        q \in Rows /\ q.name = row[v].name /\ q.state = row[v].state
    BY <1>1, RowFacts
  <2> QED
    BY <2>1, RowKept
<1>3. SetRow(v, Anchored(row[v], FALSE)) => RowTo(v, row[v].state)
  <2>1. LET q == Anchored(row[v], FALSE) IN
        q \in Rows /\ q.name = row[v].name /\ q.state = row[v].state
    BY <1>1, RowFacts
  <2> QED
    BY <2>1, RowKept
<1>4. SetRow(v, Untapped(row[v])) => RowTo(v, row[v].state)
  <2>1. LET q == Untapped(row[v]) IN
        q \in Rows /\ q.name = row[v].name /\ q.state = row[v].state
    BY <1>1, RowFacts
  <2> QED
    BY <2>1, RowKept
<1>5. SetRow(v, Interrupted(row[v])) => RowTo(v, row[v].state)
  <2>1. LET q == Interrupted(row[v]) IN
        q \in Rows /\ q.name = row[v].name /\ q.state = row[v].state
    BY <1>1, InterruptedFacts
  <2> QED
    BY <2>1, RowKept
<1>6. SetRow(v, Interrupted(Runtime(row[v], "suspended", FALSE)))
        => RowTo(v, "suspended")
  <2>1. LET q == Interrupted(Runtime(row[v], "suspended", FALSE)) IN
        q \in Rows /\ q.name = row[v].name /\ q.state = "suspended"
    BY <1>1, EndedFacts
  <2> QED
    BY <2>1, RowKept
<1>7. SetRow(v, Interrupted(InState(row[v], "paused"))) => RowTo(v, "paused")
  <2>1. LET q == Interrupted(InState(row[v], "paused")) IN
        q \in Rows /\ q.name = row[v].name /\ q.state = "paused"
    BY <1>1, EndedFacts
  <2> QED
    BY <2>1, RowKept
<1>8. SetRow(v, Interrupted(Stopped(row[v]))) => RowTo(v, "stopped")
  <2>1. LET q == Interrupted(Stopped(row[v])) IN
        q \in Rows /\ q.name = row[v].name /\ q.state = "stopped"
    BY <1>1, EndedFacts
  <2> QED
    BY <2>1, RowKept
<1>9. SetRow(v, Stopped(row[v])) => RowTo(v, "stopped")
  <2>1. LET q == Stopped(row[v]) IN
        q \in Rows /\ q.name = row[v].name /\ q.state = "stopped"
    BY <1>1, StoppedFacts
  <2> QED
    BY <2>1, RowKept
<1> QED
  BY <1>2, <1>3, <1>4, <1>5, <1>6, <1>7, <1>8, <1>9
-----------------------------------------------------------------------------
(* A step of the operation that holds the lock of n touches its own VM and *)
(* the directory of its own name; a fork also moves its source's disk.     *)

\* The fork at n is about to alias the disk of its source u.
Aliased(n, u) == op[n].kind = "fork" /\ op[n].pc = "alias" /\ op[n].other = u

Frame(n) ==
    /\ daemon' = daemon
    /\ \A u \in Vms \ {Vm(n)} :
          /\ row'[u] = row[u] /\ mem'[u] = mem[u]
          /\ host'[u].procs = host[u].procs /\ host'[u].slot = host[u].slot
          /\ host'[u].tap = host[u].tap /\ host'[u].ran = host[u].ran
          /\ host'[u].bak => host[u].bak \/ Aliased(n, u)
    /\ \A m \in Names \ {n} : op'[m] = op[m] /\ disk'[m] = disk[m]
    /\ hist.lost \subseteq hist'.lost /\ hist'.lost \subseteq hist.lost \cup {Vm(n)}

DiskTo(n) == /\ disk' \in [Names -> Vms \cup {NoVm}]
             /\ \A m \in Names \ {n} : disk'[m] = disk[m]

\* Updates of the VM of the operation stay within this frame.
LEMMA FrameFacts ==
    ASSUME FleetTypeOK, NEW n \in Names, NEW v \in Vms, v = Vm(n),
           NEW s, RowTo(v, s), NEW i, MemTo(v, i),
           NEW p, NEW l, NEW t, NEW r, HostTo(v, p, l, t, r),
           NEW lost, HistTo(lost), lost \in {hist.lost, hist.lost \cup {v}},
           NEW pc, OpTo(n, pc) \/ Freed(n), DiskTo(n), UNCHANGED daemon
    PROVE  FleetTypeOK' /\ Frame(n)
  BY DEF FleetTypeOK, RowTo, MemTo, HostTo, HistTo, OpTo, Freed, DiskTo, Frame

\* The VM of the operation at n: it has the name, or it is claimed for it.
Own(n) == LET v == Vm(n) IN
          /\ v \in Vms
          /\ \/ op[n].kind \in RowKinds /\ row[v].name = n
                /\ (Present(v) \/ v \in hist.lost)
             \/ op[n].kind \in Creates /\ ~Present(v) /\ v \notin hist.lost

\* Every operation but a fork's hold on its source has a VM of its own.
LEMMA HasOwn ==
    ASSUME FleetInv, NEW n \in Names, op[n].kind \in RowKinds \cup Creates
    PROVE  Own(n)
<1>1. OpInv(n)
  BY DEF FleetInv
<1>2. CASE op[n].kind \in RowKinds
  BY <1>1, <1>2 DEF OpInv, RowOp, Own, Vm
<1>3. CASE op[n].kind \in Creates
  BY <1>1, <1>3, VmRowsAssumption DEF OpInv, CreateOp, Claims, Claimed, Own, Vm
<1> QED
  BY <1>2, <1>3

\* Operations under different locks work on different VMs, and none of them on
\* the source of a fork that is still loading.
LEMMA OwnApart ==
    ASSUME FleetInv, NEW n \in Names, op[n].kind \in RowKinds \cup Creates,
           NEW m \in Names \ {n}
    PROVE  /\ op[m].kind \in RowKinds \cup Creates => Vm(m) # Vm(n)
           /\ op[m].kind = "fork" /\ op[m].pc \in {"wire", "clone", "alias", "load"}
                => op[m].other # Vm(n) /\ row[op[m].other].name # n
           /\ Claimed(m) = Vm(n) => op[n].kind = "fork" /\ Paired(m, n)
<1>0. RowKinds \cap Creates = {} /\ "source" \notin RowKinds \cup Creates
  BY DEF RowKinds, Creates, Destroys
<1>1. Own(n) /\ OpInv(m) /\ OpInv(n) /\ ClaimsDistinct
  BY HasOwn DEF FleetInv
<1>2. ASSUME Claimed(m) = Vm(n) PROVE op[n].kind = "fork" /\ Paired(m, n)
  <2>1. Claimed(m) # NoVm /\ ~Present(Vm(n)) /\ Vm(n) \notin hist.lost
    BY <1>1, <1>2, VmRowsAssumption DEF OpInv, Claims, Own
  <2>2. op[n].kind \in Creates /\ Claimed(n) = Vm(n)
    BY <1>1, <2>1 DEF Own, Claimed, Vm
  <2> QED
    BY <1>0, <1>1, <1>2, <2>1, <2>2 DEF ClaimsDistinct, Paired
<1>3. ASSUME op[m].kind \in RowKinds PROVE Vm(m) # Vm(n)
  <2>1. Own(m)
    BY <1>3, HasOwn
  <2> QED
    BY <1>0, <1>1, <1>3, <2>1 DEF Own
<1>4. ASSUME op[m].kind \in Creates PROVE Vm(m) # Vm(n)
  <2>1. Claimed(m) = Vm(m)
    BY <1>4 DEF Claimed, Vm
  <2> QED
    BY <1>0, <1>2, <1>4, <2>1 DEF Paired
<1>5. ASSUME op[m].kind = "fork", op[m].pc \in {"wire", "clone", "alias", "load"}
      PROVE  op[m].other # Vm(n) /\ row[op[m].other].name # n
  <2>1. LET s == op[m].other IN Present(s) /\ op[row[s].name].kind = "source"
    BY <1>1, <1>5 DEF OpInv, ForkOp, Paired, Present
  <2>2. row[op[m].other].name # n
    BY <1>0, <2>1
  <2> QED
    BY <1>1, <2>1, <2>2 DEF Own
<1> QED
  BY <1>2, <1>3, <1>4, <1>5

\* What such a step has to show: its own VM and its own operation.
LEMMA LocalStep ==
    ASSUME FleetInv, Serving, NEW n \in Names, op[n].kind \in RowKinds \cup Creates,
           FleetTypeOK', Frame(n), OpInv(n)',
           NEW v \in Vms, v = Vm(n),
           VmInv(v)',
           Present(v)' => row'[v].name = n,
           Present(v)' => \/ Present(v)
                          \/ /\ op[n].kind \in Creates
                             /\ \A m \in Names \ {n} : Claimed(m) # v,
           hist'.lost # hist.lost => Present(v),
           disk'[n] = disk[n] \/ Present(v) \/ op[n].kind \in Creates,
           Claimed(n)' \in {Claimed(n), NoVm},
           op[n].kind = "fork" => Claimed(n)' = NoVm \/ op'[n].kind = "fork"
    PROVE  FleetInv'
<1>0. RowKinds \cap Creates = {} /\ "source" \notin RowKinds \cup Creates
  BY DEF RowKinds, Creates, Destroys
<1>1. /\ \A u \in Vms : VmInv(u)
      /\ \A m \in Names : OpInv(m)
      /\ NamesUnique /\ ClaimsDistinct /\ FleetTypeOK /\ Own(n)
  BY HasOwn DEF FleetInv
<1>2. Present(v) => row[v].name = n
  BY <1>0, <1>1 DEF Own
<1>3. \A u \in Vms \ {v} : Present(u) /\ (Present(v) \/ op[n].kind \in Creates)
                             => row[u].name # n
  BY <1>1, <1>2 DEF NamesUnique, OpInv, CreateOp
<1>4. ASSUME NEW u \in Vms \ {v} PROVE VmInv(u)'
  <2>1. /\ row'[u] = row[u] /\ mem'[u] = mem[u]
        /\ host'[u].procs = host[u].procs /\ host'[u].slot = host[u].slot
        /\ host'[u].tap = host[u].tap /\ host'[u].ran = host[u].ran
        /\ host'[u].bak => host[u].bak \/ Aliased(n, u)
        /\ daemon' = daemon /\ (u \in hist'.lost <=> u \in hist.lost)
    BY DEF Frame
  <2>2. VmInv(u)
    BY <1>1
  <2>3. HasDisk(u)'
    <3>1. row[u].name \in Names
      BY <1>1 DEF FleetTypeOK, Rows
    <3>2. CASE row[u].name = n
      BY <1>3, <2>1, <2>2, <3>2 DEF VmInv, HasDisk, Present
    <3>3. CASE row[u].name # n
      BY <2>1, <2>2, <3>1, <3>3 DEF Frame, VmInv, HasDisk, Present
    <3> QED
      BY <3>2, <3>3
  <2>4. (Processes(u) /\ Wired(u) /\ Expected(u))'
    BY <2>1, <2>2 DEF VmInv, Processes, Wired, Expected, Present, Alive, Serving
  <2>5. Sleeps(u)'
    <3>1. Aliased(n, u) => row[u].state \in {"suspended", "stopped"} /\ Asleep(u)
      BY <1>1 DEF Aliased, OpInv, ForkOp
    <3> QED
      BY <2>1, <2>2, <3>1 DEF VmInv, Sleeps, Saved, Asleep
  <2> QED
    BY <2>3, <2>4, <2>5 DEF VmInv
<1>5. ASSUME NEW m \in Names \ {n} PROVE OpInv(m)'
  <2>1. op'[m] = op[m] /\ disk'[m] = disk[m] /\ OpInv(m)
    BY <1>1 DEF Frame
  <2>2. Claimed(m)' = Claimed(m) /\ Vm(m)' = Vm(m)
    BY <2>1 DEF Claimed, Vm
  <2>3. /\ op[m].kind \in RowKinds \cup Creates => Vm(m) # v
        /\ op[m].kind = "fork" /\ op[m].pc \in {"wire", "clone", "alias", "load"}
             => op[m].other # v /\ row[op[m].other].name # n
        /\ Claimed(m) = v => op[n].kind = "fork" /\ Paired(m, n)
    BY OwnApart
  <2>4. \A u \in Vms \ {v} :
           /\ row'[u] = row[u]
           /\ host'[u].procs = host[u].procs /\ host'[u].slot = host[u].slot
           /\ host'[u].tap = host[u].tap /\ host'[u].ran = host[u].ran
           /\ host'[u].bak => host[u].bak \/ Aliased(n, u)
           /\ (u \in hist'.lost <=> u \in hist.lost)
    BY DEF Frame
  <2>5. (RowOp(m) /\ SuspendOp(m) /\ ResumeOp(m) /\ DestroyOp(m))'
    <3>1. CASE op[m].kind \in RowKinds
      <4>1. Vm(m) \in Vms \ {v}
        BY <1>1, <2>3, <3>1 DEF OpInv, RowOp
      <4>0. ~Aliased(n, Vm(m))
        <5>1. row[Vm(m)].name = m /\ op[m].kind # "source"
          BY <1>0, <2>1, <3>1 DEF OpInv, RowOp
        <5> QED
          BY <1>1, <5>1 DEF Aliased, OpInv, ForkOp, Paired
      <4>2. LET w == Vm(m) IN
            /\ row'[w] = row[w] /\ host'[w].procs = host[w].procs
            /\ host'[w].slot = host[w].slot /\ host'[w].tap = host[w].tap
            /\ host'[w].bak => host[w].bak
            /\ (w \in hist'.lost <=> w \in hist.lost)
        BY <2>4, <4>0, <4>1
      <4>3. RowOp(m)'
        BY <2>1, <2>2, <4>1, <4>2 DEF OpInv, RowOp, Present, Alive
      <4>4. SuspendOp(m)'
        BY <2>1, <2>2, <4>2 DEF OpInv, SuspendOp
      <4>5. ResumeOp(m)'
        BY <2>1, <2>2, <4>2 DEF OpInv, ResumeOp
      <4>6. DestroyOp(m)'
        BY <2>1, <2>2, <4>2 DEF OpInv, DestroyOp, Alive
      <4> QED
        BY <4>3, <4>4, <4>5, <4>6
    <3>2. CASE op[m].kind \notin RowKinds
      BY <2>1, <3>2 DEF RowOp, SuspendOp, ResumeOp, DestroyOp, RowKinds, Suspends
    <3> QED
      BY <3>1, <3>2
  <2>6. Claims(m)'
    <3>1. CASE Claimed(m) = v
      <4>1. ~Present(v) /\ v \notin hist.lost
        BY <1>1, <3>1, VmRowsAssumption DEF OpInv, Claims
      <4> QED
        BY <2>1, <2>2, <3>1, <4>1 DEF OpInv, Claims
    <3>2. CASE Claimed(m) # v
      <4>1. Claimed(m) # NoVm => Claimed(m) \in Vms
        BY <2>1 DEF OpInv, Claims, CreateOp, Claimed, Vm
      <4> QED
        BY <2>1, <2>2, <2>4, <3>2, <4>1 DEF OpInv, Claims, Present
    <3> QED
      BY <3>1, <3>2
  <2>7. CreateOp(m)'
    <3>1. CASE op[m].kind \in Creates
      <4>1. Vm(m) \in Vms \ {v}
        BY <2>1, <2>3, <3>1 DEF OpInv, CreateOp
      <4>2. \A w \in Vms : Present(w)' => row'[w].name # m
        BY <2>1, <2>4, <3>1 DEF OpInv, CreateOp, Present
      <4>3. op[m].pc \in {"rehome", "commit"} =>
               \A k \in Names \ {m} : Claimed(k)' # Vm(m)
        <5> SUFFICES ASSUME op[m].pc \in {"rehome", "commit"},
                            NEW k \in Names \ {m}
                     PROVE  Claimed(k)' # Vm(m)
          OBVIOUS
        <5>1. Claimed(k) # Vm(m)
          BY <2>1, <3>1 DEF OpInv, CreateOp
        <5>2. CASE k = n
          BY <4>1, <5>1, <5>2, VmRowsAssumption
        <5>3. CASE k # n
          BY <5>1, <5>3 DEF Frame, Claimed
        <5> QED
          BY <5>2, <5>3
      <4> QED
        BY <2>1, <2>2, <2>4, <3>1, <4>1, <4>2, <4>3 DEF OpInv, CreateOp
    <3>2. CASE op[m].kind \notin Creates
      BY <2>1, <3>2 DEF CreateOp
    <3> QED
      BY <3>1, <3>2
  <2>8. ForkOp(m)'
    <3> DEFINE s == op[m].other
    <3>1. CASE op[m].kind = "fork" /\ op[m].pc \in {"wire", "clone", "alias", "load"}
      <4>1. /\ s \in Vms \ {v} /\ row[s].state \in {"suspended", "stopped"}
            /\ Asleep(s) /\ Paired(row[s].name, m) /\ op[row[s].name].other = Vm(m)
            /\ row[s].name # n
        BY <2>1, <2>3, <3>1 DEF OpInv, ForkOp
      <4>2. row[s].name \in Names /\ row[s].name # n
        BY <1>1, <4>1 DEF FleetTypeOK, Rows
      <4>3. /\ op'[row[s].name] = op[row[s].name] /\ row'[s] = row[s]
            /\ host'[s].procs = host[s].procs /\ host'[s].ran = host[s].ran
        BY <2>4, <4>1, <4>2 DEF Frame
      <4> QED
        BY <2>1, <2>2, <4>1, <4>3 DEF ForkOp, Paired, Asleep
    <3>2. CASE ~(op[m].kind = "fork" /\ op[m].pc \in {"wire", "clone", "alias", "load"})
      BY <2>1, <3>2 DEF ForkOp
    <3> QED
      BY <3>1, <3>2
  <2> QED
    BY <2>5, <2>6, <2>7, <2>8 DEF OpInv
<1>6. NamesUnique'
  <2>1. \A u \in Vms \ {v} : Present(u)' => /\ Present(u) /\ row'[u] = row[u]
    BY DEF Frame, Present
  <2>2. \A u, w \in Vms \ {v} : Present(u)' /\ Present(w)' /\ row'[u].name = row'[w].name
                                  => u = w
    BY <1>1, <2>1 DEF NamesUnique
  <2>3. \A u \in Vms \ {v} : Present(u)' /\ Present(v)' => row'[u].name # n
    BY <1>3, <2>1
  <2> QED
    BY <2>2, <2>3 DEF NamesUnique
<1>7. ClaimsDistinct'
  <2> SUFFICES ASSUME NEW m \in Names, NEW k \in Names, m # k,
                      Claimed(m)' = Claimed(k)', Claimed(m)' # NoVm
               PROVE  Paired(m, k)' \/ Paired(k, m)'
    BY DEF ClaimsDistinct
  <2>1. ASSUME NEW j \in Names \ {n} PROVE op'[j] = op[j] /\ Claimed(j)' = Claimed(j)
    BY <2>1 DEF Frame, Claimed
  <2>2. Claimed(m) = Claimed(k) /\ Claimed(m) # NoVm
    BY <2>1
  <2>3. Paired(m, k) \/ Paired(k, m)
    BY <1>1, <2>2 DEF ClaimsDistinct
  <2>4. ASSUME NEW j \in Names, NEW i \in Names, Paired(j, i), Claimed(i)' # NoVm
        PROVE  Paired(j, i)'
    <3>1. j # n
      BY <1>0, <2>4 DEF Paired
    <3>2. op'[i].kind = "fork"
      BY <2>1, <2>4 DEF Paired
    <3> QED
      BY <2>1, <2>4, <3>1, <3>2 DEF Paired
  <2> QED
    BY <2>3, <2>4
<1>8. Down'
  BY DEF Down, Serving, Frame
<1> QED
  BY <1>4, <1>5, <1>6, <1>7, <1>8 DEF FleetInv
-----------------------------------------------------------------------------
(* The steps of operations on a row.                                       *)

\* What an operation on a row finds once it has looked the row up.
LEMMA RowContext ==
    ASSUME FleetInv, NEW n \in Names, op[n].kind \in RowKinds,
           op[n].kind \in Destroys => op[n].pc # "check"
    PROVE  /\ Vm(n) \in Vms /\ row[Vm(n)].name = n /\ Present(Vm(n))
           /\ VmInv(Vm(n)) /\ FleetTypeOK
           /\ RowOp(n) /\ SuspendOp(n) /\ ResumeOp(n) /\ DestroyOp(n)
           /\ op[n].kind \notin Destroys \/ op[n].pc # "recover"
                => ~host[Vm(n)].bak
<1>1. OpInv(n) /\ FleetTypeOK
  BY DEF FleetInv
<1>2. /\ Vm(n) \in Vms /\ row[Vm(n)].name = n /\ Present(Vm(n))
      /\ RowOp(n) /\ SuspendOp(n) /\ ResumeOp(n) /\ DestroyOp(n)
  BY <1>1 DEF OpInv, RowOp
<1>3. op[n].kind \notin Destroys \/ op[n].pc # "recover" => ~host[Vm(n)].bak
  BY <1>2 DEF RowOp
<1> QED
  BY <1>1, <1>2, <1>3 DEF FleetInv

\* A step that keeps the row has to show what is said of its VM, and, if it goes
\* on, of its operation.
LEMMA RowStep ==
    ASSUME FleetInv, Serving, NEW n \in Names, op[n].kind \in RowKinds,
           op[n].kind \in Destroys => op[n].pc # "check",
           NEW v \in Vms, v = Vm(n), FleetTypeOK', Frame(n), VmInv(v)',
           Present(v)', row'[v].name = n,
           \/ op'[n] = NoOp
           \/ /\ op'[n].kind = op[n].kind /\ op'[n].vm = op[n].vm
              /\ op'[n].other = op[n].other
              /\ (RowOp(n) /\ SuspendOp(n) /\ ResumeOp(n) /\ DestroyOp(n))'
    PROVE  FleetInv'
<1>0. RowKinds \cap Creates = {} /\ "fork" \notin RowKinds /\ "free" \notin RowKinds
      /\ "source" \notin RowKinds /\ "replace" \notin Creates
  BY DEF RowKinds, Creates, Destroys
<1>1. Present(v) /\ OpInv(n)
  BY RowContext DEF FleetInv
<1>2. CASE op'[n] = NoOp
  <2>1. op'[n].kind = "free" /\ Claimed(n)' = NoVm
    BY <1>2, NoOpFacts DEF Claimed, Creates
  <2>2. OpInv(n)'
    BY <2>1 DEF OpInv, RowOp, SuspendOp, ResumeOp, DestroyOp, CreateOp, ForkOp,
                Claims, RowKinds, Suspends, Destroys, Creates
  <2> QED
    BY <1>0, <1>1, <2>1, <2>2, LocalStep
<1>3. CASE /\ op'[n].kind = op[n].kind /\ op'[n].vm = op[n].vm
           /\ op'[n].other = op[n].other
           /\ (RowOp(n) /\ SuspendOp(n) /\ ResumeOp(n) /\ DestroyOp(n))'
  <2>1. Claimed(n)' = Claimed(n)
    BY <1>3 DEF Claimed
  <2>2. Claims(n)'
    <3>1. Claimed(n) # NoVm => Claimed(n) \in Vms \ {v}
      BY <1>0, <1>1 DEF OpInv, Claims, Claimed
    <3>2. Claimed(n) # NoVm => ~Present(Claimed(n)) /\ Claimed(n) \notin hist.lost
      BY <1>1 DEF OpInv, Claims
    <3>3. ASSUME NEW w \in Vms \ {v}, ~Present(w), w \notin hist.lost
          PROVE  ~Present(w)' /\ w \notin hist'.lost
      BY <3>3 DEF Frame, Present
    <3>4. Claimed(n)' # NoVm => ~Present(Claimed(n))' /\ Claimed(n)' \notin hist'.lost
      BY <2>1, <3>1, <3>2, <3>3 DEF Present
    <3> QED
      BY <1>0, <1>1, <1>3, <3>4 DEF OpInv, Claims
  <2>3. (CreateOp(n) /\ ForkOp(n))'
    BY <1>0, <1>3 DEF CreateOp, ForkOp
  <2>4. OpInv(n)'
    BY <1>3, <2>2, <2>3 DEF OpInv
  <2> QED
    BY <1>0, <1>1, <2>1, <2>4, LocalStep
<1> QED
  BY <1>2, <1>3

\* The new values fit what is said of a VM that has a row ...
VmFits(v, s, i, p, l, t, r, lost) ==
    /\ s # "absent"
    /\ p \subseteq {"child"} /\ ("child" \in p => i # "none")
    /\ s = "suspended" => (p = {} \/ r) /\ (v \in lost \/ l \in {"stale", "complete"})
    /\ host[v].bak => s \in {"suspended", "stopped"} /\ (p = {} \/ r)
    /\ "child" \in p /\ s # "stopped" => t

\* ... and of an operation that goes on at pc.
OpFits(n, v, pc, s, p, l, t, lost) ==
    /\ op[n].kind \notin Destroys \/ pc \notin {"check", "recover"} => ~host[v].bak
    /\ op[n].kind \notin Destroys /\ "child" \in p => t
    /\ op[n].kind \in Suspends =>
          /\ pc \in {"cancel", "mark", "pause", "capture", "manifest", "undo",
                     "kill", "commit"} => s # "suspended"
          /\ pc \in {"kill", "commit"} => l = "complete"
          /\ pc = "commit" => p = {}
    /\ op[n].kind = "resume" => /\ pc = "restore" => t
                                /\ pc = "discard" => s # "suspended"
    /\ op[n].kind \in Destroys /\ pc \in {"rmdir", "unwire", "retire"} =>
          v \in lost /\ "child" \notin p

\* A step that keeps the row, in terms of the new values.
LEMMA RowEffect ==
    ASSUME FleetInv, Serving, NEW n \in Names, op[n].kind \in RowKinds,
           op[n].kind \in Destroys => op[n].pc # "check",
           NEW v \in Vms, v = Vm(n),
           NEW s, RowTo(v, s), NEW i, MemTo(v, i),
           NEW p, NEW l, NEW t, NEW r, HostTo(v, p, l, t, r),
           NEW lost, HistTo(lost), lost \in {hist.lost, hist.lost \cup {v}},
           DiskTo(n), disk'[n] = disk[n] \/ v \in lost, UNCHANGED daemon,
           VmFits(v, s, i, p, l, t, r, lost),
           NEW pc, Freed(n) \/ (OpTo(n, pc) /\ OpFits(n, v, pc, s, p, l, t, lost))
    PROVE  FleetInv'
<1>1. /\ row[v].name = n /\ Present(v) /\ VmInv(v) /\ FleetTypeOK
      /\ RowOp(n) /\ SuspendOp(n)
  BY RowContext
<1>2. FleetTypeOK' /\ Frame(n)
  BY <1>1, FrameFacts
<1>3. /\ row'[v].state = s /\ row'[v].name = n
      /\ mem'[v].inst = i /\ mem'[v].condemned = mem[v].condemned
      /\ host'[v].procs = p /\ host'[v].slot = l /\ host'[v].tap = t
      /\ host'[v].ran = r /\ host'[v].bak = host[v].bak
      /\ hist'.lost = lost /\ daemon' = daemon
  BY <1>1 DEF RowTo, MemTo, HostTo, HistTo
<1>4. Present(v)'
  BY <1>3 DEF VmFits, Present
<1>5. VmInv(v)'
  <2>1. Processes(v)'
    BY <1>3 DEF VmFits, Processes, Alive, Serving
  <2>2. Sleeps(v)'
    BY <1>3 DEF VmFits, Sleeps, Asleep, Saved
  <2>3. HasDisk(v)'
    BY <1>1, <1>3 DEF VmInv, HasDisk
  <2>4. Wired(v)' /\ Expected(v)'
    BY <1>3, <1>4 DEF VmFits, Wired, Expected, Alive
  <2> QED
    BY <2>1, <2>2, <2>3, <2>4 DEF VmInv
<1>6. ASSUME OpTo(n, pc), OpFits(n, v, pc, s, p, l, t, lost)
      PROVE  /\ op'[n].kind = op[n].kind /\ op'[n].vm = op[n].vm
             /\ op'[n].other = op[n].other
             /\ (RowOp(n) /\ SuspendOp(n) /\ ResumeOp(n) /\ DestroyOp(n))'
  <2>1. /\ op'[n].kind = op[n].kind /\ op'[n].vm = v /\ op'[n].other = op[n].other
        /\ op'[n].pc = pc /\ op'[n].was = op[n].was /\ Vm(n)' = v
    BY <1>6 DEF OpTo, Vm
  <2>2. RowOp(n)'
    BY <1>3, <1>4, <1>6, <2>1 DEF OpFits, RowOp, Alive, Present
  <2>3. SuspendOp(n)'
    BY <1>1, <1>3, <1>6, <2>1 DEF OpFits, SuspendOp
  <2>4. ResumeOp(n)' /\ DestroyOp(n)'
    BY <1>3, <1>6, <2>1 DEF OpFits, ResumeOp, DestroyOp, Alive
  <2> QED
    BY <2>1, <2>2, <2>3, <2>4 DEF Vm
<1> QED
  BY <1>2, <1>3, <1>4, <1>5, <1>6, RowStep DEF Freed

\* What is there fits.
LEMMA RowNow ==
    ASSUME FleetInv, Serving, NEW n \in Names, op[n].kind \in RowKinds,
           op[n].kind \in Destroys => op[n].pc # "check",
           NEW v \in Vms, v = Vm(n)
    PROVE  /\ FleetTypeOK
           /\ VmFits(v, row[v].state, mem[v].inst, host[v].procs, host[v].slot,
                     host[v].tap, host[v].ran, hist.lost)
           /\ OpFits(n, v, op[n].pc, row[v].state, host[v].procs, host[v].slot,
                     host[v].tap, hist.lost)
<1>1. /\ row[v].name = n /\ Present(v) /\ VmInv(v) /\ FleetTypeOK
      /\ RowOp(n) /\ SuspendOp(n) /\ ResumeOp(n) /\ DestroyOp(n)
  BY RowContext
<1>2. VmFits(v, row[v].state, mem[v].inst, host[v].procs, host[v].slot,
             host[v].tap, host[v].ran, hist.lost)
  BY <1>1 DEF VmFits, VmInv, Processes, Sleeps, Wired, Present, Alive, Asleep, Serving, Saved
<1>3. OpFits(n, v, op[n].pc, row[v].state, host[v].procs, host[v].slot,
             host[v].tap, hist.lost)
  BY <1>1 DEF OpFits, RowOp, SuspendOp, ResumeOp, DestroyOp, Alive
<1> QED
  BY <1>1, <1>2, <1>3

\* The fields these steps read.
LEMMA FieldTypes ==
    ASSUME FleetTypeOK, NEW v \in Vms
    PROVE  /\ row[v] \in Rows /\ row[v].state \in States \cup {"absent"}
           /\ row[v].name \in Names /\ row[v].tapdev \in BOOLEAN
           /\ mem[v] \in Memories /\ mem[v].inst \in Insts
           /\ mem[v].condemned \in BOOLEAN /\ mem[v].job \in BOOLEAN
           /\ host[v] \in Hosts /\ host[v].tap \in BOOLEAN /\ host[v].ran \in BOOLEAN
           /\ host[v].procs \in SUBSET {"child", "orphan"} /\ host[v].bak \in BOOLEAN
           /\ hist.lost \subseteq Vms /\ op \in [Names -> Operations]
           /\ row \in [Vms -> Rows] /\ mem \in [Vms -> Memories]
           /\ host \in [Vms -> Hosts]
           /\ \A n \in Names : op[n].was \in States \cup {"absent"}
<1>1. row[v] \in Rows /\ mem[v] \in Memories /\ host[v] \in Hosts
      /\ \A n \in Names : op[n] \in Operations
  BY DEF FleetTypeOK
<1>2. /\ row[v].state \in States \cup {"absent"} /\ row[v].name \in Names
      /\ row[v].tapdev \in BOOLEAN
  BY <1>1 DEF Rows
<1>3. /\ mem[v].inst \in Insts /\ mem[v].condemned \in BOOLEAN /\ mem[v].job \in BOOLEAN
  BY <1>1 DEF Memories, Insts
<1>4. /\ host[v].tap \in BOOLEAN /\ host[v].ran \in BOOLEAN /\ host[v].bak \in BOOLEAN
      /\ host[v].procs \in SUBSET {"child", "orphan"}
  BY <1>1 DEF Hosts
<1>5. \A n \in Names : op[n].was \in States \cup {"absent"}
  BY <1>1 DEF Operations
<1> QED
  BY <1>1, <1>2, <1>3, <1>4, <1>5 DEF FleetTypeOK

\* A cancelled userdata task gives its claim back; the operation goes on at pc.
LEMMA CancelFacts ==
    ASSUME FleetTypeOK, NEW n \in Names, NEW v \in Vms, v = Vm(n), NEW pc \in Awaits,
           CancelUserdata(n, pc)
    PROVE  OpTo(n, pc) /\ RowTo(v, row[v].state) /\ MemTo(v, mem[v].inst)
<1> DEFINE b == mem[v].job
<1>1. row[v] \in Rows /\ op[n] \in Operations /\ b \in BOOLEAN
  BY FieldTypes DEF FleetTypeOK
<1>2. /\ SetOp(n, [op[n] EXCEPT !.cut = b, !.pc = pc]) /\ SetJob(v, FALSE)
      /\ SetRow(v, IF b /\ row[v].status = "running"
                   THEN WithStatus(row[v], "pending") ELSE row[v])
  BY DEF CancelUserdata
<1> HIDE DEF b
<1>3. OpTo(n, pc)
  <2>1. [op[n] EXCEPT !.cut = b, !.pc = pc] \in Operations
    BY <1>1 DEF Operations
  <2>2. LET o == [op[n] EXCEPT !.cut = b, !.pc = pc] IN
        /\ o.pc = pc /\ o.kind = op[n].kind /\ o.vm = op[n].vm
        /\ o.other = op[n].other /\ o.to = op[n].to /\ o.was = op[n].was
    BY <1>1 DEF Operations
  <2> QED
    BY <1>2, <2>1, <2>2, OpUpdate DEF OpTo, FleetTypeOK
<1>4. RowTo(v, row[v].state)
  <2>1. LET q == WithStatus(row[v], "pending") IN
        q \in Rows /\ q.name = row[v].name /\ q.state = row[v].state
    BY <1>1, StatusFacts DEF Statuses
  <2>2. CASE b /\ row[v].status = "running"
    BY <1>2, <2>1, <2>2, RowKept DEF FleetTypeOK
  <2>3. CASE ~(b /\ row[v].status = "running")
    BY <1>1, <1>2, <2>3, RowKept DEF FleetTypeOK
  <2> QED
    BY <2>2, <2>3
<1>5. MemTo(v, mem[v].inst)
  BY <1>2, JobFacts DEF FleetTypeOK
<1> QED
  BY <1>3, <1>4, <1>5

\* A lock that has been released says nothing.
LEMMA FreedOp ==
    ASSUME NEW n \in Names, op'[n] = NoOp
    PROVE  OpInv(n)' /\ Claimed(n)' = NoVm /\ op'[n].kind = "free"
<1>1. op'[n].kind = "free" /\ Claimed(n)' = NoVm
  BY NoOpFacts DEF Claimed, Creates
<1>2. OpInv(n)'
  BY <1>1 DEF OpInv, RowOp, SuspendOp, ResumeOp, DestroyOp, CreateOp, ForkOp,
              Claims, RowKinds, Suspends, Destroys, Creates
<1> QED
  BY <1>1, <1>2

\* What is said of a VM depends on its own record, the daemon, what was given up
\* and the directory of its name.
LEMMA VmKept ==
    ASSUME FleetTypeOK, NEW v \in Vms, VmInv(v), row'[v] = row[v], mem'[v] = mem[v],
           host'[v] = host[v], UNCHANGED daemon,
           v \in hist'.lost <=> v \in hist.lost,
           disk'[row[v].name] = disk[row[v].name] \/ ~Present(v)
    PROVE  VmInv(v)'
<1>1. HasDisk(v)'
  BY DEF VmInv, HasDisk, Present
<1>2. (Processes(v) /\ Sleeps(v) /\ Wired(v) /\ Expected(v))'
  BY DEF VmInv, Processes, Sleeps, Saved, Wired, Expected, Present, Alive, Asleep, Serving
<1> QED
  BY <1>1, <1>2 DEF VmInv
-----------------------------------------------------------------------------
(* Steps that no lock orders: they end guests and stop rows, at any moment *)
(* of any operation.                                                       *)

\* What such a step may do to a VM.
Calm(u) ==
    /\ row'[u].name = row[u].name
    /\ row'[u].state = row[u].state \/ (Present(u) /\ row'[u].state = "stopped")
    /\ host'[u].procs \subseteq host[u].procs
    /\ host'[u].slot = host[u].slot /\ host'[u].ran = host[u].ran
    /\ host'[u].bak => host[u].bak

\* The VM keeps what is said of it ...
LEMMA CalmVm ==
    ASSUME NEW u \in Vms, VmInv(u), Calm(u), Serving, Serving',
           u \in hist'.lost <=> u \in hist.lost,
           disk'[row[u].name] = disk[row[u].name] \/ ~Present(u),
           host'[u].tap = host[u].tap \/ row[u].state \in {"absent", "stopped"},
           Alive(u)' => mem'[u].inst # "none",
           mem'[u].condemned => mem[u].condemned \/ Present(u)
    PROVE  VmInv(u)'
<1>1. Present(u)' <=> Present(u)
  BY DEF Calm, Present
<1>2. Processes(u)'
  BY DEF VmInv, Processes, Calm, Serving, Alive
<1>3. Sleeps(u)'
  BY DEF VmInv, Sleeps, Saved, Calm, Asleep
<1>4. HasDisk(u)' /\ Expected(u)'
  BY <1>1 DEF VmInv, HasDisk, Expected, Calm
<1>5. Wired(u)'
  BY DEF VmInv, Wired, Calm, Alive
<1> QED
  BY <1>2, <1>3, <1>4, <1>5 DEF VmInv

\* ... and so does an operation that is under way.
LEMMA CalmOp ==
    ASSUME NEW m \in Names, OpInv(m), op'[m] = op[m], disk'[m] = disk[m],
           \A u \in Vms : Calm(u), hist'.lost = hist.lost,
           op[m].kind \in RowKinds \cup Creates => host'[Vm(m)].tap = host[Vm(m)].tap,
           op[m].kind \in Creates /\ op[m].pc \in {"rehome", "commit"} =>
              \A k \in Names \ {m} : Claimed(k)' # Vm(m),
           op[m].kind = "fork" /\ op[m].pc \in {"wire", "clone", "alias", "load"} =>
              op'[row[op[m].other].name] = op[row[op[m].other].name]
    PROVE  OpInv(m)'
<1>1. Vm(m)' = Vm(m) /\ Claimed(m)' = Claimed(m)
  BY DEF Vm, Claimed
<1>2. \A u \in Vms : Present(u)' <=> Present(u)
  BY DEF Calm, Present
<1>3. (RowOp(m) /\ SuspendOp(m) /\ ResumeOp(m) /\ DestroyOp(m))'
  <2>1. CASE op[m].kind \in RowKinds
    <3>1. Vm(m) \in Vms
      BY <2>1 DEF OpInv, RowOp
    <3>2. Calm(Vm(m)) /\ (Present(Vm(m))' <=> Present(Vm(m)))
      BY <1>1, <1>2, <3>1 DEF Present
    <3>3. RowOp(m)'
      BY <1>1, <2>1, <3>1, <3>2 DEF OpInv, RowOp, Calm, Alive
    <3>4. SuspendOp(m)'
      BY <1>1, <3>2 DEF OpInv, SuspendOp, Calm
    <3>5. (ResumeOp(m) /\ DestroyOp(m))'
      BY <1>1, <2>1, <3>2 DEF OpInv, ResumeOp, DestroyOp, Calm, Alive
    <3> QED
      BY <3>3, <3>4, <3>5
  <2>2. CASE op[m].kind \notin RowKinds
    BY <2>2 DEF RowOp, SuspendOp, ResumeOp, DestroyOp, RowKinds, Suspends
  <2> QED
    BY <2>1, <2>2
<1>4. Claims(m)'
  <2>1. Claimed(m) # NoVm => Claimed(m) \in Vms
    BY DEF OpInv, Claims, CreateOp, Claimed, Vm
  <2>2. Claimed(m)' # NoVm => ~Present(Claimed(m))'
    BY <1>1, <1>2, <2>1 DEF OpInv, Claims, Present
  <2> QED
    BY <1>1, <2>2 DEF OpInv, Claims
<1>5. CreateOp(m)'
  <2>1. CASE op[m].kind \in Creates
    <3>1. Vm(m) \in Vms /\ \A w \in Vms : Present(w)' => row'[w].name # m
      BY <1>2, <2>1 DEF OpInv, CreateOp, Calm
    <3>2. host'[Vm(m)].tap = host[Vm(m)].tap
      BY <2>1
    <3> QED
      BY <1>1, <2>1, <3>1, <3>2 DEF OpInv, CreateOp
  <2>2. CASE op[m].kind \notin Creates
    BY <2>2 DEF CreateOp
  <2> QED
    BY <2>1, <2>2
<1>6. ForkOp(m)'
  <2> DEFINE s == op[m].other
  <2>1. CASE op[m].kind = "fork" /\ op[m].pc \in {"wire", "clone", "alias", "load"}
    <3>1. /\ s \in Vms /\ row[s].state \in {"suspended", "stopped"} /\ Asleep(s)
          /\ Paired(row[s].name, m) /\ op[row[s].name].other = Vm(m)
      BY <2>1 DEF OpInv, ForkOp
    <3>2. /\ row'[s].name = row[s].name /\ row'[s].state \in {"suspended", "stopped"}
          /\ Asleep(s)'
      BY <3>1 DEF Calm, Asleep
    <3> QED
      BY <1>1, <2>1, <3>1, <3>2 DEF ForkOp, Paired
  <2>2. CASE ~(op[m].kind = "fork" /\ op[m].pc \in {"wire", "clone", "alias", "load"})
    BY <2>2 DEF ForkOp
  <2> QED
    BY <2>1, <2>2
<1> QED
  BY <1>3, <1>4, <1>5, <1>6 DEF OpInv

\* Names stay with their VMs.
LEMMA CalmNames ==
    ASSUME NamesUnique, \A u \in Vms : Calm(u)
    PROVE  NamesUnique'
<1>1. \A u \in Vms : (Present(u)' <=> Present(u)) /\ row'[u].name = row[u].name
  BY DEF Calm, Present
<1> QED
  BY <1>1 DEF NamesUnique

\* A step without a lock.  Only a stopped VM that no operation works on loses its
\* network.
LEMMA CalmStep ==
    ASSUME FleetInv, Serving, Serving', FleetTypeOK', UNCHANGED <<op, disk>>,
           hist'.lost = hist.lost,
           \A u \in Vms : /\ Calm(u)
                          /\ Alive(u)' => mem'[u].inst # "none"
                          /\ mem'[u].condemned => mem[u].condemned \/ Present(u)
                          /\ \/ host'[u].tap = host[u].tap
                             \/ row[u].state = "stopped" /\ op[row[u].name] = NoOp
    PROVE  FleetInv'
<1>1. ASSUME NEW u \in Vms PROVE VmInv(u)'
  <2>1. VmInv(u)
    BY DEF FleetInv
  <2> QED
    BY <2>1, CalmVm
<1>2. \A k \in Names : Claimed(k)' = Claimed(k)
  BY DEF Claimed
<1>3. ASSUME NEW m \in Names PROVE OpInv(m)'
  <2>1. OpInv(m)
    BY DEF FleetInv
  <2>2. op[m].kind \in Creates /\ op[m].pc \in {"rehome", "commit"} =>
           \A k \in Names \ {m} : Claimed(k)' # Vm(m)
    BY <1>2, <2>1 DEF OpInv, CreateOp
  <2>3. op[m].kind \in RowKinds \cup Creates => host'[Vm(m)].tap = host[Vm(m)].tap
    <3> SUFFICES ASSUME op[m].kind \in RowKinds \cup Creates
                 PROVE  host'[Vm(m)].tap = host[Vm(m)].tap
      OBVIOUS
    <3>1. Own(m) /\ op[m] # NoOp
      BY HasOwn, NoOpFacts DEF RowKinds, Creates, Destroys
    <3> QED
      BY <3>1 DEF Own, Present
  <2> QED
    BY <2>1, <2>2, <2>3, CalmOp
<1>4. NamesUnique'
  BY CalmNames DEF FleetInv
<1>5. ClaimsDistinct'
  BY <1>2 DEF FleetInv, ClaimsDistinct, Paired
<1> QED
  BY <1>1, <1>3, <1>4, <1>5 DEF FleetInv, Down

\* A lock is taken; what the new operation claims nobody else has.
LEMMA LockStep ==
    ASSUME FleetInv, Serving, NEW n \in Names, op[n] = NoOp, FleetTypeOK',
           \A m \in Names \ {n} : op'[m] = op[m],
           UNCHANGED <<row, host, disk, daemon>>, hist'.lost = hist.lost,
           \A u \in Vms : /\ mem'[u].inst = mem[u].inst
                          /\ mem'[u].condemned => mem[u].condemned,
           OpInv(n)', Claimed(n)' = NoVm \/ \A m \in Names : Claimed(m) # Claimed(n)'
    PROVE  FleetInv'
<1>1. \A u \in Vms : Calm(u)
  BY DEF Calm
<1>2. ASSUME NEW u \in Vms PROVE VmInv(u)'
  <2>1. VmInv(u)
    BY DEF FleetInv
  <2>2. Alive(u)' => mem'[u].inst # "none"
    BY <2>1 DEF VmInv, Processes, Alive
  <2> QED
    BY <1>1, <2>1, <2>2, CalmVm DEF Serving
<1>3. \A k \in Names \ {n} : Claimed(k)' = Claimed(k)
  BY DEF Claimed
<1>4. ASSUME NEW m \in Names \ {n} PROVE OpInv(m)'
  <2>1. OpInv(m)
    BY DEF FleetInv
  <2>2. op[m].kind \in Creates /\ op[m].pc \in {"rehome", "commit"} =>
           \A k \in Names \ {m} : Claimed(k)' # Vm(m)
    <3> SUFFICES ASSUME op[m].kind \in Creates, op[m].pc \in {"rehome", "commit"},
                        NEW k \in Names \ {m}
                 PROVE  Claimed(k)' # Vm(m)
      OBVIOUS
    <3>1. Vm(m) \in Vms /\ Claimed(m) = Vm(m) /\ Claimed(k) # Vm(m)
      BY <2>1 DEF OpInv, CreateOp, Claimed, Vm
    <3> QED
      BY <1>3, <3>1, VmRowsAssumption
  <2>3. op[m].kind = "fork" /\ op[m].pc \in {"wire", "clone", "alias", "load"} =>
           op'[row[op[m].other].name] = op[row[op[m].other].name]
    <3> SUFFICES ASSUME op[m].kind = "fork",
                        op[m].pc \in {"wire", "clone", "alias", "load"}
                 PROVE  op'[row[op[m].other].name] = op[row[op[m].other].name]
      OBVIOUS
    <3>1. op[m].other \in Vms /\ op[row[op[m].other].name].kind = "source"
      BY <2>1 DEF OpInv, ForkOp, Paired
    <3>2. row[op[m].other].name \in Names \ {n}
      BY <3>1, NoOpFacts, FieldTypes DEF FleetInv
    <3> QED
      BY <3>2
  <2> QED
    BY <1>1, <2>1, <2>2, <2>3, CalmOp
<1>5. NamesUnique'
  BY <1>1, CalmNames DEF FleetInv
<1>6. ClaimsDistinct'
  <2> SUFFICES ASSUME NEW m \in Names, NEW k \in Names, m # k,
                      Claimed(m)' = Claimed(k)', Claimed(m)' # NoVm
               PROVE  Paired(m, k)' \/ Paired(k, m)'
    BY DEF ClaimsDistinct
  <2>1. m # n /\ k # n
    BY <1>3
  <2>2. Paired(m, k) \/ Paired(k, m)
    BY <1>3, <2>1 DEF FleetInv, ClaimsDistinct
  <2> QED
    BY <2>1, <2>2 DEF Paired
<1>7. Down'
  BY DEF Down, Serving
<1> QED
  BY <1>2, <1>4, <1>5, <1>6, <1>7 DEF FleetInv
=============================================================================
