------------------------------ MODULE Services ------------------------------
(***************************************************************************)
(* Services (husker-core/src/services.rs): a row with a desired count, the  *)
(* VMs tagged with its id and an ordinal, and the reconcile that makes the  *)
(* second follow the first.  A reconcile works from a record that its       *)
(* caller (create, scale, delete, the daemon's loop) read before the        *)
(* reconcile took the service's lock, while guests die and users create and *)
(* destroy VMs under any name.                                              *)
(***************************************************************************)
EXTENDS Integers, FiniteSets

CONSTANTS
  SvcOrdinals,   \* instances a service can be scaled to
  SvcCallers,    \* concurrent callers of a service operation
  SvcMaxOps,     \* bound on operations started
  SvcMaxEvents   \* bound on events from outside (users, dying guests, crashes)

ASSUME SvcAssumption == SvcOrdinals \in Nat \ {0}

VARIABLES
  svcRow,        \* the service row, or SvcNone
  svcVm,         \* VM rows by name
  svcTask,       \* what each caller is doing
  svcFresh,       \* next fresh ids: service, VM
  svcCount,      \* operations and events so far
  svcHarmed,     \* foreign VMs a reconcile destroyed
  svcOvertaken   \* services a reconcile still followed when they were deleted

svcVars == <<svcRow, svcVm, svcTask, svcFresh, svcCount, svcHarmed, svcOvertaken>>

SvcNone == [absent |-> TRUE]
SvcHas(x) == x # SvcNone
SvcName(o) == <<"instance", o>>           \* instance_name
SvcLegacy == <<"legacy", 0>>              \* a name from before ordinals
SvcNames == {SvcLegacy} \cup {SvcName(o) : o \in 0..(SvcOrdinals - 1)}
SvcNoOrdinal == -1

\* A VM row; a plain one has service 0.
SvcVm(id, service, ordinal, state) ==
  [absent |-> FALSE, id |-> id, service |-> service, ordinal |-> ordinal, state |-> state]

\* A service from before ordinals may have an instance under another name, with
\* no ordinal or with one that a second instance has too; that instance may
\* have stopped.
SvcInit ==
  /\ svcRow = [absent |-> FALSE, id |-> 1, desired |-> 1]
  /\ \E o \in {SvcNoOrdinal, 0}, s \in {"running", "stopped"} :
       svcVm = [n \in SvcNames |-> CASE n = SvcLegacy -> SvcVm(1, 1, o, "running")
                                     [] n = SvcName(0) -> SvcVm(2, 1, 0, s)
                                     [] OTHER -> SvcNone]
  /\ svcTask = [c \in SvcCallers |-> SvcNone]
  /\ svcFresh = [service |-> 2, vm |-> 3] /\ svcCount = [ops |-> 0, events |-> 0]
  /\ svcHarmed = {} /\ svcOvertaken = {}

(***************************************************************************)
(* The callers.                                                             *)
(***************************************************************************)

SvcTasked(c, t) == svcTask' = [svcTask EXCEPT ![c] = t]
SvcBegins(c) == /\ ~SvcHas(svcTask[c]) /\ svcCount.ops < SvcMaxOps
                /\ svcCount' = [svcCount EXCEPT !.ops = @ + 1]

SvcReconcile(kind, record) ==
  [absent |-> FALSE, kind |-> kind, stage |-> "waiting", id |-> record.id,
   desired |-> record.desired, extra |-> {}, by |-> {}, at |-> 0,
   failed |-> FALSE, touched |-> FALSE]

SvcCreate(c, desired) ==
  /\ SvcBegins(c) /\ ~SvcHas(svcRow)
  /\ svcRow' = [absent |-> FALSE, id |-> svcFresh.service, desired |-> desired]
  /\ svcFresh' = [svcFresh EXCEPT !.service = @ + 1]
  /\ SvcTasked(c, SvcReconcile("create", svcRow'))
  /\ UNCHANGED <<svcVm, svcHarmed, svcOvertaken>>

\* scale_service reads the row, checks the request against it ...
SvcScale(c, desired) ==
  /\ SvcBegins(c) /\ SvcHas(svcRow)
  /\ SvcTasked(c, [SvcReconcile("scale", svcRow) EXCEPT !.stage = "scaling",
                                                        !.desired = desired])
  /\ UNCHANGED <<svcRow, svcVm, svcFresh, svcHarmed, svcOvertaken>>

\* ... updates it by id, and reads the service of that name again.
SvcScaled(c) ==
  /\ SvcHas(svcTask[c]) /\ svcTask[c].stage = "scaling"
  /\ IF SvcHas(svcRow) /\ svcRow.id = svcTask[c].id
     THEN /\ svcRow' = [svcRow EXCEPT !.desired = svcTask[c].desired]
          /\ SvcTasked(c, SvcReconcile("scale", svcRow'))
     ELSE UNCHANGED svcRow /\ SvcTasked(c, SvcNone)
  /\ UNCHANGED <<svcVm, svcFresh, svcCount, svcHarmed, svcOvertaken>>

SvcDelete(c) ==
  /\ SvcBegins(c) /\ SvcHas(svcRow)
  /\ SvcTasked(c, SvcReconcile("delete", [svcRow EXCEPT !.desired = 0]))
  /\ UNCHANGED <<svcRow, svcVm, svcFresh, svcHarmed, svcOvertaken>>

\* The periodic loop, and the reconcile at startup: rows are listed first.
SvcTick(c) ==
  /\ SvcBegins(c) /\ SvcHas(svcRow)
  /\ SvcTasked(c, SvcReconcile("tick", svcRow))
  /\ UNCHANGED <<svcRow, svcVm, svcFresh, svcHarmed, svcOvertaken>>

(***************************************************************************)
(* reconcile_service.                                                       *)
(***************************************************************************)

SvcLockFree(c) == \A d \in SvcCallers \ {c} :
  ~(SvcHas(svcTask[d]) /\ svcTask[d].stage = "running" /\ svcTask[d].id = svcTask[c].id)

SvcInstances(id) == {svcVm[n] : n \in {m \in SvcNames : SvcHas(svcVm[m]) /\ svcVm[m].service = id}}
SvcNameOf(vm) == CHOOSE n \in SvcNames : svcVm[n] = vm

\* better_survivor: running first, then the oldest (ids are given in order).
SvcBetter(a, b) == IF (a.state = "running") # (b.state = "running")
                   THEN a.state = "running" ELSE a.id < b.id

\* Under the lock: list and refresh, keep one survivor per ordinal.
SvcLocked(c) ==
  /\ SvcHas(svcTask[c]) /\ svcTask[c].stage = "waiting" /\ SvcLockFree(c)
  /\ LET all == {[name |-> SvcNameOf(vm), vm |-> vm] : vm \in SvcInstances(svcTask[c].id)}
         kept == {i \in all : i.vm.ordinal # SvcNoOrdinal /\
                    \A j \in all : j # i /\ j.vm.ordinal = i.vm.ordinal => SvcBetter(i.vm, j.vm)}
     IN SvcTasked(c, [svcTask[c] EXCEPT !.stage = "running", !.by = kept,
                                        !.extra = all \ kept])
  /\ svcOvertaken' = svcOvertaken \union
       {svcTask[d].id : d \in {e \in SvcCallers : SvcHas(svcTask[e]) /\
          svcTask[e].stage = "deleting" /\ svcTask[e].id = svcTask[c].id}}
  /\ UNCHANGED <<svcRow, svcVm, svcFresh, svcCount, svcHarmed>>

\* Mutant: an instance is destroyed by its name alone.
SvcSameGenerationByName(vm, listed) == SvcHas(vm)

\* destroy_vm_generation_locked leaves a VM that replaced the listed one alone.
SvcSameGeneration(vm, listed) == SvcHas(vm) /\ vm.id = listed.id

\* destroy_instance, under the VM's name lock.
SvcDestroyed(i) ==
  IF SvcSameGeneration(svcVm[i.name], i.vm)
  THEN /\ svcVm' = [svcVm EXCEPT ![i.name] = SvcNone]
       /\ svcHarmed' = IF svcVm[i.name].service = i.vm.service THEN svcHarmed
                       ELSE svcHarmed \union {svcVm[i.name].id}
  ELSE UNCHANGED <<svcVm, svcHarmed>>

SvcAt(t, o) == {i \in t.by : i.vm.ordinal = o}
SvcRunning(c) == SvcHas(svcTask[c]) /\ svcTask[c].stage = "running"

\* Duplicates and rows without an ordinal go first; a failure is reported and
\* the next one is tried.
SvcDestroyExtra(c, i, ok) ==
  /\ SvcRunning(c) /\ i \in svcTask[c].extra
  /\ SvcTasked(c, [svcTask[c] EXCEPT !.extra = @ \ {i}, !.failed = @ \/ ~ok])
  /\ IF ok THEN SvcDestroyed(i) ELSE UNCHANGED <<svcVm, svcHarmed>>
  /\ UNCHANGED <<svcRow, svcFresh, svcCount, svcOvertaken>>

SvcTurn(c) == SvcRunning(c) /\ svcTask[c].extra = {} /\ svcTask[c].at < svcTask[c].desired
SvcNow(c) == SvcAt(svcTask[c], svcTask[c].at)

\* An ordinal whose listed instance runs is left alone.
SvcKeep(c) ==
  /\ SvcTurn(c) /\ \E i \in SvcNow(c) : i.vm.state = "running"
  /\ SvcTasked(c, [svcTask[c] EXCEPT !.at = @ + 1])
  /\ UNCHANGED <<svcRow, svcVm, svcFresh, svcCount, svcHarmed, svcOvertaken>>

\* One that does not run is destroyed and created again, unless that fails.
SvcReplace(c, ok) ==
  /\ SvcTurn(c)
  /\ \E i \in SvcNow(c) :
       /\ i.vm.state # "running"
       /\ IF ok THEN /\ SvcDestroyed(i)
                     /\ SvcTasked(c, [svcTask[c] EXCEPT !.by = @ \ {i}])
          ELSE /\ UNCHANGED <<svcVm, svcHarmed>>
               /\ SvcTasked(c, [svcTask[c] EXCEPT !.at = @ + 1, !.failed = TRUE])
  /\ UNCHANGED <<svcRow, svcFresh, svcCount, svcOvertaken>>

\* create_instance: the name must be free (create_vm_record replaces nothing).
SvcCreateInstance(c, ok) ==
  /\ SvcTurn(c) /\ SvcNow(c) = {}
  /\ LET n == SvcName(svcTask[c].at)
         made == ok /\ ~SvcHas(svcVm[n]) IN
     /\ svcVm' = IF made THEN [svcVm EXCEPT ![n] = SvcVm(svcFresh.vm, svcTask[c].id,
                                                         svcTask[c].at, "running")]
                 ELSE svcVm
     /\ svcFresh' = IF made THEN [svcFresh EXCEPT !.vm = @ + 1] ELSE svcFresh
     /\ SvcTasked(c, [svcTask[c] EXCEPT !.at = @ + 1, !.failed = @ \/ ~made])
  /\ UNCHANGED <<svcRow, svcCount, svcHarmed, svcOvertaken>>

\* Scale-down, of the survivors listed at the start.
SvcExcess(t) == {i \in t.by : i.vm.ordinal >= t.desired}
SvcScaleDown(c, ok) ==
  /\ SvcRunning(c) /\ svcTask[c].extra = {} /\ svcTask[c].at = svcTask[c].desired
  /\ \E i \in SvcExcess(svcTask[c]) :
       /\ SvcTasked(c, [svcTask[c] EXCEPT !.by = @ \ {i}, !.failed = @ \/ ~ok])
       /\ IF ok THEN SvcDestroyed(i) ELSE UNCHANGED <<svcVm, svcHarmed>>
  /\ UNCHANGED <<svcRow, svcFresh, svcCount, svcOvertaken>>

SvcReconciled(c) == /\ SvcRunning(c) /\ svcTask[c].extra = {}
                    /\ svcTask[c].at = svcTask[c].desired /\ SvcExcess(svcTask[c]) = {}

\* The lock is released; delete_service goes on if nothing failed.
SvcUnlock(c) ==
  /\ SvcReconciled(c)
  /\ SvcTasked(c, IF svcTask[c].kind = "delete" /\ ~svcTask[c].failed
                  THEN [svcTask[c] EXCEPT !.stage = "deleting"] ELSE SvcNone)
  /\ UNCHANGED <<svcRow, svcVm, svcFresh, svcCount, svcHarmed, svcOvertaken>>

SvcPending(id, c) == \E d \in SvcCallers \ {c} :
  SvcHas(svcTask[d]) /\ svcTask[d].id = id /\ svcTask[d].stage \in {"waiting", "running"}

SvcDeleteRow(c) ==
  /\ SvcHas(svcTask[c]) /\ svcTask[c].stage = "deleting"
  /\ LET id == svcTask[c].id
         owns == SvcHas(svcRow) /\ svcRow.id = id IN
     /\ svcRow' = IF owns THEN SvcNone ELSE svcRow
     /\ svcOvertaken' = IF owns /\ SvcPending(id, c) THEN svcOvertaken \union {id} ELSE svcOvertaken
  /\ SvcTasked(c, SvcNone)
  /\ UNCHANGED <<svcVm, svcFresh, svcCount, svcHarmed>>

(***************************************************************************)
(* Everyone else.                                                           *)
(***************************************************************************)

SvcEvent == /\ svcCount.events < SvcMaxEvents
            /\ svcCount' = [svcCount EXCEPT !.events = @ + 1]
            /\ svcTask' = [c \in SvcCallers |-> IF SvcHas(svcTask[c])
                             THEN [svcTask[c] EXCEPT !.touched = TRUE] ELSE SvcNone]

SvcGuestDies(n) ==
  /\ SvcEvent /\ SvcHas(svcVm[n]) /\ svcVm[n].state = "running"
  /\ svcVm' = [svcVm EXCEPT ![n].state = "stopped"]
  /\ UNCHANGED <<svcRow, svcFresh, svcHarmed, svcOvertaken>>

SvcUserDestroys(n) ==
  /\ SvcEvent /\ SvcHas(svcVm[n])
  /\ svcVm' = [svcVm EXCEPT ![n] = SvcNone]
  /\ UNCHANGED <<svcRow, svcFresh, svcHarmed, svcOvertaken>>

\* A user's VM takes a free name, or replaces a stopped VM of that name.
SvcUserCreates(n) ==
  /\ SvcEvent /\ (SvcHas(svcVm[n]) => svcVm[n].state = "stopped")
  /\ svcVm' = [svcVm EXCEPT ![n] = SvcVm(svcFresh.vm, 0, SvcNoOrdinal, "running")]
  /\ svcFresh' = [svcFresh EXCEPT !.vm = @ + 1]
  /\ UNCHANGED <<svcRow, svcHarmed, svcOvertaken>>

\* The daemon dies: its callers with it, and every VM is found stopped.
SvcCrash ==
  /\ svcCount.events < SvcMaxEvents
  /\ svcCount' = [svcCount EXCEPT !.events = @ + 1]
  /\ svcTask' = [c \in SvcCallers |-> SvcNone]
  /\ svcVm' = [n \in SvcNames |-> IF SvcHas(svcVm[n]) THEN [svcVm[n] EXCEPT !.state = "stopped"]
                                  ELSE SvcNone]
  /\ UNCHANGED <<svcRow, svcFresh, svcHarmed, svcOvertaken>>

SvcNext ==
  \/ \E c \in SvcCallers :
       \/ \E d \in 0..SvcOrdinals : SvcCreate(c, d) \/ SvcScale(c, d)
       \/ SvcScaled(c) \/ SvcDelete(c) \/ SvcTick(c) \/ SvcLocked(c)
       \/ \E ok \in BOOLEAN :
            \/ SvcRunning(c) /\ \E i \in svcTask[c].extra : SvcDestroyExtra(c, i, ok)
            \/ SvcReplace(c, ok) \/ SvcCreateInstance(c, ok) \/ SvcScaleDown(c, ok)
       \/ SvcKeep(c) \/ SvcUnlock(c) \/ SvcDeleteRow(c)
  \/ \E n \in SvcNames : SvcGuestDies(n) \/ SvcUserDestroys(n) \/ SvcUserCreates(n)
  \/ SvcCrash

SvcOrdinalsOf(id) == {vm.ordinal : vm \in SvcInstances(id)}

\* A reconcile never destroys a VM of another owner, whoever took or replaced
\* an instance's name meanwhile; one that reports no failure, with nobody else
\* at work on the VMs, leaves exactly one running instance for each ordinal of
\* the record it was given, duplicates and instances without ordinal included;
\* and a deleted service leaves no instance behind, unless another
\* reconcile came after the one that emptied it.
SvcSound ==
  /\ svcHarmed = {}
  /\ \A c \in SvcCallers :
       SvcReconciled(c) /\ ~svcTask[c].failed /\ ~svcTask[c].touched =>
         LET vms == SvcInstances(svcTask[c].id) IN
         /\ SvcOrdinalsOf(svcTask[c].id) = 0..(svcTask[c].desired - 1)
         /\ Cardinality(vms) = svcTask[c].desired
         /\ \A vm \in vms : vm.state = "running"
  /\ \A n \in SvcNames : SvcHas(svcVm[n]) /\ svcVm[n].service # 0 =>
       \/ SvcHas(svcRow) /\ svcRow.id = svcVm[n].service
       \/ svcVm[n].service \in svcOvertaken
=============================================================================
