---------------------------- MODULE VmFleetProofs ---------------------------
(***************************************************************************)
(* Every step of VmFleet keeps the invariant of VmFleetInvariant; the      *)
(* theorems about the fleet follow.                                        *)
(***************************************************************************)
EXTENDS VmFleetInvariant

-----------------------------------------------------------------------------
(* Operations on a row: suspend, resume, stop, pause, destroy.             *)

\* suspend_vm: every await, with each of its failures.
LEMMA SuspendSteps ==
    ASSUME FleetInv, NEW n \in Names, Suspending(n)
    PROVE  FleetInv'
<1>1. Serving /\ op[n].kind \in Suspends
  BY DEF Suspending, At, SuspendMark, SuspendPause, SuspendCapture,
     SuspendManifest, SuspendUndo, SuspendKill, SuspendCommit, SuspendStamp,
     SuspendListen, SuspendUnroute
<1>2. op[n].kind \in RowKinds /\ op[n].kind \notin Destroys /\ op[n].kind # "resume"
  BY <1>1 DEF RowKinds, Suspends, Destroys
<1>3. PICK v \in Vms : v = Vm(n)
  BY <1>1, <1>2, RowContext
<1>4. /\ FleetTypeOK
      /\ VmFits(v, row[v].state, mem[v].inst, host[v].procs, host[v].slot,
                host[v].tap, host[v].ran, hist.lost)
      /\ OpFits(n, v, op[n].pc, row[v].state, host[v].procs, host[v].slot,
                host[v].tap, hist.lost)
  BY <1>1, <1>2, <1>3, RowNow
<1>5. CASE SuspendMark(n)
  <2>1. CASE /\ SetState(v, "suspending")
             /\ Goto(n, "pause")
             /\ UNCHANGED hist
    <3>1. /\ RowTo(v, "suspending") /\ MemTo(v, mem[v].inst)
          /\ HostTo(v, host[v].procs, host[v].slot, host[v].tap, host[v].ran)
          /\ HistTo(hist.lost) /\ OpTo(n, "pause") /\ UNCHANGED <<disk, daemon>>
      BY <1>3, <1>4, <1>5, <2>1, FieldTypes, Untouched, Literals, StateFacts,
         GotoFacts
         DEF SuspendMark
    <3>2. /\ VmFits(v, "suspending", mem[v].inst, host[v].procs,
                    host[v].slot, host[v].tap, host[v].ran, hist.lost)
          /\ OpFits(n, v, "pause", "suspending", host[v].procs,
                    host[v].slot, host[v].tap, hist.lost)
      BY <1>1, <1>2, <1>3, <1>4, <1>5, <2>1, FieldTypes
         DEF VmFits, OpFits, At, Suspends, Destroys, SuspendMark
    <3> QED
      BY <1>1, <1>2, <1>3, <1>4, <3>1, <3>2, RowEffect DEF DiskTo, FleetTypeOK
  <2>2. CASE Fault /\ Goto(n, "recover") /\ UNCHANGED row
    <3>1. /\ RowTo(v, row[v].state) /\ MemTo(v, mem[v].inst)
          /\ HostTo(v, host[v].procs, host[v].slot, host[v].tap, host[v].ran)
          /\ HistTo(hist.lost) /\ OpTo(n, "recover") /\ UNCHANGED <<disk, daemon>>
      BY <1>3, <1>4, <1>5, <2>2, FieldTypes, Untouched, Literals, FaultFacts,
         GotoFacts
         DEF SuspendMark
    <3>2. /\ VmFits(v, row[v].state, mem[v].inst, host[v].procs,
                    host[v].slot, host[v].tap, host[v].ran, hist.lost)
          /\ OpFits(n, v, "recover", row[v].state, host[v].procs,
                    host[v].slot, host[v].tap, hist.lost)
      BY <1>1, <1>2, <1>3, <1>4, <1>5, <2>2, FieldTypes
         DEF VmFits, OpFits, At, Suspends, Destroys, SuspendMark
    <3> QED
      BY <1>1, <1>2, <1>3, <1>4, <3>1, <3>2, RowEffect DEF DiskTo, FleetTypeOK
  <2> QED
    BY <1>3, <1>5, <2>1, <2>2 DEF SuspendMark
<1>6. CASE SuspendPause(n)
  <2>1. CASE PauseGuest(v) /\ Goto(n, "capture")
    <3>1. /\ RowTo(v, row[v].state) /\ MemTo(v, "paused")
          /\ HostTo(v, host[v].procs, host[v].slot, host[v].tap, host[v].ran)
          /\ HistTo(hist.lost) /\ OpTo(n, "capture") /\ UNCHANGED <<disk, daemon>>
      BY <1>3, <1>4, <1>6, <2>1, FieldTypes, Untouched, Literals, InstFacts,
         GotoFacts
         DEF SuspendPause, PauseGuest, Insts
    <3>2. /\ VmFits(v, row[v].state, "paused", host[v].procs,
                    host[v].slot, host[v].tap, host[v].ran, hist.lost)
          /\ OpFits(n, v, "capture", row[v].state, host[v].procs,
                    host[v].slot, host[v].tap, hist.lost)
      BY <1>1, <1>2, <1>3, <1>4, <1>6, <2>1, FieldTypes
         DEF VmFits, OpFits, At, Suspends, Destroys, SuspendPause
    <3> QED
      BY <1>1, <1>2, <1>3, <1>4, <3>1, <3>2, RowEffect DEF DiskTo, FleetTypeOK
  <2>2. CASE Goto(n, "capture") /\ UNCHANGED mem
    <3>1. /\ RowTo(v, row[v].state) /\ MemTo(v, mem[v].inst)
          /\ HostTo(v, host[v].procs, host[v].slot, host[v].tap, host[v].ran)
          /\ HistTo(hist.lost) /\ OpTo(n, "capture") /\ UNCHANGED <<disk, daemon>>
      BY <1>3, <1>4, <1>6, <2>2, FieldTypes, Untouched, Literals, GotoFacts
         DEF SuspendPause
    <3>2. /\ VmFits(v, row[v].state, mem[v].inst, host[v].procs,
                    host[v].slot, host[v].tap, host[v].ran, hist.lost)
          /\ OpFits(n, v, "capture", row[v].state, host[v].procs,
                    host[v].slot, host[v].tap, hist.lost)
      BY <1>1, <1>2, <1>3, <1>4, <1>6, <2>2, FieldTypes
         DEF VmFits, OpFits, At, Suspends, Destroys, SuspendPause
    <3> QED
      BY <1>1, <1>2, <1>3, <1>4, <3>1, <3>2, RowEffect DEF DiskTo, FleetTypeOK
  <2>3. CASE Goto(n, "undo") /\ UNCHANGED mem
    <3>1. /\ RowTo(v, row[v].state) /\ MemTo(v, mem[v].inst)
          /\ HostTo(v, host[v].procs, host[v].slot, host[v].tap, host[v].ran)
          /\ HistTo(hist.lost) /\ OpTo(n, "undo") /\ UNCHANGED <<disk, daemon>>
      BY <1>3, <1>4, <1>6, <2>3, FieldTypes, Untouched, Literals, GotoFacts
         DEF SuspendPause
    <3>2. /\ VmFits(v, row[v].state, mem[v].inst, host[v].procs,
                    host[v].slot, host[v].tap, host[v].ran, hist.lost)
          /\ OpFits(n, v, "undo", row[v].state, host[v].procs,
                    host[v].slot, host[v].tap, hist.lost)
      BY <1>1, <1>2, <1>3, <1>4, <1>6, <2>3, FieldTypes
         DEF VmFits, OpFits, At, Suspends, Destroys, SuspendPause
    <3> QED
      BY <1>1, <1>2, <1>3, <1>4, <3>1, <3>2, RowEffect DEF DiskTo, FleetTypeOK
  <2> QED
    BY <1>3, <1>6, <2>1, <2>2, <2>3 DEF SuspendPause
<1>7. CASE SuspendCapture(n)
  <2>1. CASE Goto(n, "manifest") /\ UNCHANGED hist
    <3>1. /\ RowTo(v, row[v].state) /\ MemTo(v, mem[v].inst)
          /\ HostTo(v, host[v].procs, Recaptured(v), host[v].tap, FALSE)
          /\ HistTo(hist.lost) /\ OpTo(n, "manifest") /\ UNCHANGED <<disk, daemon>>
      BY <1>3, <1>4, <1>7, <2>1, FieldTypes, Untouched, Literals, CapturedFacts,
         GotoFacts
         DEF SuspendCapture
    <3>2. /\ VmFits(v, row[v].state, mem[v].inst, host[v].procs,
                    Recaptured(v), host[v].tap, FALSE, hist.lost)
          /\ OpFits(n, v, "manifest", row[v].state, host[v].procs,
                    Recaptured(v), host[v].tap, hist.lost)
      BY <1>1, <1>2, <1>3, <1>4, <1>7, <2>1, FieldTypes
         DEF VmFits, OpFits, At, Suspends, Destroys, SuspendCapture
    <3> QED
      BY <1>1, <1>2, <1>3, <1>4, <3>1, <3>2, RowEffect DEF DiskTo, FleetTypeOK
  <2>2. CASE Goto(n, "undo") /\ UNCHANGED hist
    <3>1. /\ RowTo(v, row[v].state) /\ MemTo(v, mem[v].inst)
          /\ HostTo(v, host[v].procs, Recaptured(v), host[v].tap, FALSE)
          /\ HistTo(hist.lost) /\ OpTo(n, "undo") /\ UNCHANGED <<disk, daemon>>
      BY <1>3, <1>4, <1>7, <2>2, FieldTypes, Untouched, Literals, CapturedFacts,
         GotoFacts
         DEF SuspendCapture
    <3>2. /\ VmFits(v, row[v].state, mem[v].inst, host[v].procs,
                    Recaptured(v), host[v].tap, FALSE, hist.lost)
          /\ OpFits(n, v, "undo", row[v].state, host[v].procs,
                    Recaptured(v), host[v].tap, hist.lost)
      BY <1>1, <1>2, <1>3, <1>4, <1>7, <2>2, FieldTypes
         DEF VmFits, OpFits, At, Suspends, Destroys, SuspendCapture
    <3> QED
      BY <1>1, <1>2, <1>3, <1>4, <3>1, <3>2, RowEffect DEF DiskTo, FleetTypeOK
  <2>3. CASE Fault /\ Goto(n, "undo")
    <3>1. /\ RowTo(v, row[v].state) /\ MemTo(v, mem[v].inst)
          /\ HostTo(v, host[v].procs, Recaptured(v), host[v].tap, FALSE)
          /\ HistTo(hist.lost) /\ OpTo(n, "undo") /\ UNCHANGED <<disk, daemon>>
      BY <1>3, <1>4, <1>7, <2>3, FieldTypes, Untouched, Literals, CapturedFacts,
         GotoFacts, FaultFacts
         DEF SuspendCapture
    <3>2. /\ VmFits(v, row[v].state, mem[v].inst, host[v].procs,
                    Recaptured(v), host[v].tap, FALSE, hist.lost)
          /\ OpFits(n, v, "undo", row[v].state, host[v].procs,
                    Recaptured(v), host[v].tap, hist.lost)
      BY <1>1, <1>2, <1>3, <1>4, <1>7, <2>3, FieldTypes
         DEF VmFits, OpFits, At, Suspends, Destroys, SuspendCapture
    <3> QED
      BY <1>1, <1>2, <1>3, <1>4, <3>1, <3>2, RowEffect DEF DiskTo, FleetTypeOK
  <2> QED
    BY <1>3, <1>7, <2>1, <2>2, <2>3 DEF SuspendCapture
<1>8. CASE SuspendManifest(n)
  <2>1. CASE SetSlot(v, "complete") /\ Goto(n, "kill") /\ UNCHANGED hist
    <3>1. /\ RowTo(v, row[v].state) /\ MemTo(v, mem[v].inst)
          /\ HostTo(v, host[v].procs, "complete", host[v].tap, host[v].ran)
          /\ HistTo(hist.lost) /\ OpTo(n, "kill") /\ UNCHANGED <<disk, daemon>>
      BY <1>3, <1>4, <1>8, <2>1, FieldTypes, Untouched, Literals, SlotFacts,
         GotoFacts
         DEF SuspendManifest, Slots
    <3>2. /\ VmFits(v, row[v].state, mem[v].inst, host[v].procs,
                    "complete", host[v].tap, host[v].ran, hist.lost)
          /\ OpFits(n, v, "kill", row[v].state, host[v].procs,
                    "complete", host[v].tap, hist.lost)
      BY <1>1, <1>2, <1>3, <1>4, <1>8, <2>1, FieldTypes
         DEF VmFits, OpFits, At, Suspends, Destroys, SuspendManifest
    <3> QED
      BY <1>1, <1>2, <1>3, <1>4, <3>1, <3>2, RowEffect DEF DiskTo, FleetTypeOK
  <2>2. CASE Fault /\ Goto(n, "undo") /\ UNCHANGED host
    <3>1. /\ RowTo(v, row[v].state) /\ MemTo(v, mem[v].inst)
          /\ HostTo(v, host[v].procs, host[v].slot, host[v].tap, host[v].ran)
          /\ HistTo(hist.lost) /\ OpTo(n, "undo") /\ UNCHANGED <<disk, daemon>>
      BY <1>3, <1>4, <1>8, <2>2, FieldTypes, Untouched, Literals, FaultFacts,
         GotoFacts
         DEF SuspendManifest
    <3>2. /\ VmFits(v, row[v].state, mem[v].inst, host[v].procs,
                    host[v].slot, host[v].tap, host[v].ran, hist.lost)
          /\ OpFits(n, v, "undo", row[v].state, host[v].procs,
                    host[v].slot, host[v].tap, hist.lost)
      BY <1>1, <1>2, <1>3, <1>4, <1>8, <2>2, FieldTypes
         DEF VmFits, OpFits, At, Suspends, Destroys, SuspendManifest
    <3> QED
      BY <1>1, <1>2, <1>3, <1>4, <3>1, <3>2, RowEffect DEF DiskTo, FleetTypeOK
  <2> QED
    BY <1>3, <1>8, <2>1, <2>2 DEF SuspendManifest
<1>9. CASE SuspendUndo(n)
  <2>1. PICK i : i = IF op[n].was = "running" /\ Answers(v) THEN "running" ELSE mem[v].inst
    OBVIOUS
  <2>2. PICK l \in Slots : SetSlot(v, l)
    BY <1>3, <1>4, <1>9, SlotValues DEF SuspendUndo, FleetTypeOK
  <2>3. /\ MemTo(v, i) /\ HostTo(v, host[v].procs, l, host[v].tap, host[v].ran)
        /\ HistTo(hist.lost) /\ OpTo(n, "recover") /\ UNCHANGED <<disk, daemon>>
    BY <1>3, <1>4, <1>9, <2>1, <2>2, FieldTypes, Untouched, Literals, SlotFacts,
       InstFacts, FaultFacts, GotoFacts
       DEF SuspendUndo, Insts
  <2>4. PICK s \in {row[v].state, op[n].was} : RowTo(v, s)
    BY <1>3, <1>4, <1>9, FieldTypes, Untouched, StateFacts
       DEF SuspendUndo, VmFits
  <2>5. /\ VmFits(v, s, i, host[v].procs, l, host[v].tap, host[v].ran, hist.lost)
        /\ OpFits(n, v, "recover", s, host[v].procs, l, host[v].tap, hist.lost)
    BY <1>1, <1>2, <1>3, <1>4, <1>9, <2>1, <2>4, RowContext, FieldTypes
       DEF VmFits, OpFits, At, Suspends, Destroys, SuspendUndo, Live, SuspendOp
  <2> QED
    BY <1>1, <1>2, <1>3, <1>4, <2>3, <2>4, <2>5, RowEffect DEF DiskTo, FleetTypeOK
<1>10. CASE SuspendKill(n)
  <2>1. CASE DestroyGuest(v) /\ Goto(n, "commit") /\ UNCHANGED hist
    <3>1. /\ RowTo(v, row[v].state) /\ MemTo(v, "none")
          /\ HostTo(v, host[v].procs \ {"child"}, host[v].slot,
                    host[v].tap, host[v].ran)
          /\ HistTo(hist.lost) /\ OpTo(n, "commit") /\ UNCHANGED <<disk, daemon>>
      BY <1>3, <1>4, <1>10, <2>1, FieldTypes, Untouched, Literals, InstFacts,
         ReapedFacts, GotoFacts
         DEF SuspendKill, DestroyGuest, Insts
    <3>2. /\ VmFits(v, row[v].state, "none", host[v].procs \
                    {"child"}, host[v].slot, host[v].tap, host[v].ran,
                    hist.lost)
          /\ OpFits(n, v, "commit", row[v].state, host[v].procs \
                    {"child"}, host[v].slot, host[v].tap, hist.lost)
      BY <1>1, <1>2, <1>3, <1>4, <1>10, <2>1, FieldTypes
         DEF VmFits, OpFits, At, Suspends, Destroys, SuspendKill
    <3> QED
      BY <1>1, <1>2, <1>3, <1>4, <3>1, <3>2, RowEffect DEF DiskTo, FleetTypeOK
  <2>2. CASE Goto(n, "undo") /\ UNCHANGED <<mem, host, hist>>
    <3>1. /\ RowTo(v, row[v].state) /\ MemTo(v, mem[v].inst)
          /\ HostTo(v, host[v].procs, host[v].slot, host[v].tap, host[v].ran)
          /\ HistTo(hist.lost) /\ OpTo(n, "undo") /\ UNCHANGED <<disk, daemon>>
      BY <1>3, <1>4, <1>10, <2>2, FieldTypes, Untouched, Literals, GotoFacts
         DEF SuspendKill
    <3>2. /\ VmFits(v, row[v].state, mem[v].inst, host[v].procs,
                    host[v].slot, host[v].tap, host[v].ran, hist.lost)
          /\ OpFits(n, v, "undo", row[v].state, host[v].procs,
                    host[v].slot, host[v].tap, hist.lost)
      BY <1>1, <1>2, <1>3, <1>4, <1>10, <2>2, FieldTypes
         DEF VmFits, OpFits, At, Suspends, Destroys, SuspendKill
    <3> QED
      BY <1>1, <1>2, <1>3, <1>4, <3>1, <3>2, RowEffect DEF DiskTo, FleetTypeOK
  <2>3. CASE Fault /\ Reaped(v) /\ Goto(n, "undo") /\ UNCHANGED mem
    <3>1. /\ RowTo(v, row[v].state) /\ MemTo(v, mem[v].inst)
          /\ HostTo(v, host[v].procs \ {"child"}, host[v].slot,
                    host[v].tap, host[v].ran)
          /\ HistTo(hist.lost) /\ OpTo(n, "undo") /\ UNCHANGED <<disk, daemon>>
      BY <1>3, <1>4, <1>10, <2>3, FieldTypes, Untouched, Literals, FaultFacts,
         ReapedFacts, GotoFacts
         DEF SuspendKill
    <3>2. /\ VmFits(v, row[v].state, mem[v].inst, host[v].procs \
                    {"child"}, host[v].slot, host[v].tap, host[v].ran,
                    hist.lost)
          /\ OpFits(n, v, "undo", row[v].state, host[v].procs \
                    {"child"}, host[v].slot, host[v].tap, hist.lost)
      BY <1>1, <1>2, <1>3, <1>4, <1>10, <2>3, FieldTypes
         DEF VmFits, OpFits, At, Suspends, Destroys, SuspendKill
    <3> QED
      BY <1>1, <1>2, <1>3, <1>4, <3>1, <3>2, RowEffect DEF DiskTo, FleetTypeOK
  <2> QED
    BY <1>3, <1>10, <2>1, <2>2, <2>3 DEF SuspendKill
<1>11. CASE SuspendCommit(n)
  <2>1. CASE /\ SetRow(v, Interrupted(Runtime(row[v], "suspended", FALSE)))
             /\ Goto(n, "stamp")
             /\ UNCHANGED hist
    <3>1. RowTo(v, "suspended")
      BY <1>3, <1>4, <1>11, <2>1, FieldTypes, RowWrites
         DEF SuspendCommit, VmFits
    <3>2. /\ RowTo(v, "suspended") /\ MemTo(v, mem[v].inst)
          /\ HostTo(v, host[v].procs, host[v].slot, host[v].tap, host[v].ran)
          /\ HistTo(hist.lost) /\ OpTo(n, "stamp") /\ UNCHANGED <<disk, daemon>>
      BY <1>3, <1>4, <1>11, <2>1, <3>1, FieldTypes, Untouched, Literals,
         GotoFacts
         DEF SuspendCommit
    <3>3. /\ VmFits(v, "suspended", mem[v].inst, host[v].procs,
                    host[v].slot, host[v].tap, host[v].ran, hist.lost)
          /\ OpFits(n, v, "stamp", "suspended", host[v].procs,
                    host[v].slot, host[v].tap, hist.lost)
      BY <1>1, <1>2, <1>3, <1>4, <1>11, <2>1, FieldTypes
         DEF VmFits, OpFits, At, Suspends, Destroys, SuspendCommit
    <3> QED
      BY <1>1, <1>2, <1>3, <1>4, <3>2, <3>3, RowEffect DEF DiskTo, FleetTypeOK
  <2>2. CASE Fault /\ SetRow(v, Interrupted(row[v])) /\ Unlock(n)
    <3>1. RowTo(v, row[v].state)
      BY <1>3, <1>4, <1>11, <2>2, FieldTypes, RowWrites
         DEF SuspendCommit, VmFits
    <3>2. /\ RowTo(v, row[v].state) /\ MemTo(v, mem[v].inst)
          /\ HostTo(v, host[v].procs, host[v].slot, host[v].tap, host[v].ran)
          /\ HistTo(hist.lost) /\ Freed(n) /\ UNCHANGED <<disk, daemon>>
      BY <1>3, <1>4, <1>11, <2>2, <3>1, FieldTypes, Untouched, Literals,
         FaultFacts, UnlockFacts
         DEF SuspendCommit
    <3>3. VmFits(v, row[v].state, mem[v].inst, host[v].procs,
                 host[v].slot, host[v].tap, host[v].ran, hist.lost)
      BY <1>1, <1>2, <1>3, <1>4, <1>11, <2>2, FieldTypes
         DEF VmFits, OpFits, At, SuspendCommit
    <3> QED
      BY <1>1, <1>2, <1>3, <1>4, <3>2, <3>3, RowEffect DEF DiskTo, FleetTypeOK
  <2> QED
    BY <1>3, <1>11, <2>1, <2>2 DEF SuspendCommit
<1>12. CASE SuspendStamp(n)
  <2>1. CASE /\ SetRow(v, Anchored(row[v], TRUE))
             /\ Goto(n, "listen")
             /\ UNCHANGED hist
    <3>1. RowTo(v, row[v].state)
      BY <1>3, <1>4, <1>12, <2>1, FieldTypes, RowWrites DEF SuspendStamp, VmFits
    <3>2. /\ RowTo(v, row[v].state) /\ MemTo(v, mem[v].inst)
          /\ HostTo(v, host[v].procs, host[v].slot, host[v].tap, host[v].ran)
          /\ HistTo(hist.lost) /\ OpTo(n, "listen") /\ UNCHANGED <<disk, daemon>>
      BY <1>3, <1>4, <1>12, <2>1, <3>1, FieldTypes, Untouched, Literals,
         GotoFacts
         DEF SuspendStamp
    <3>3. /\ VmFits(v, row[v].state, mem[v].inst, host[v].procs,
                    host[v].slot, host[v].tap, host[v].ran, hist.lost)
          /\ OpFits(n, v, "listen", row[v].state, host[v].procs,
                    host[v].slot, host[v].tap, hist.lost)
      BY <1>1, <1>2, <1>3, <1>4, <1>12, <2>1, FieldTypes
         DEF VmFits, OpFits, At, Suspends, Destroys, SuspendStamp
    <3> QED
      BY <1>1, <1>2, <1>3, <1>4, <3>2, <3>3, RowEffect DEF DiskTo, FleetTypeOK
  <2>2. CASE Fault /\ Unlock(n) /\ UNCHANGED row
    <3>1. /\ RowTo(v, row[v].state) /\ MemTo(v, mem[v].inst)
          /\ HostTo(v, host[v].procs, host[v].slot, host[v].tap, host[v].ran)
          /\ HistTo(hist.lost) /\ Freed(n) /\ UNCHANGED <<disk, daemon>>
      BY <1>3, <1>4, <1>12, <2>2, FieldTypes, Untouched, Literals, FaultFacts,
         UnlockFacts
         DEF SuspendStamp
    <3>2. VmFits(v, row[v].state, mem[v].inst, host[v].procs,
                 host[v].slot, host[v].tap, host[v].ran, hist.lost)
      BY <1>1, <1>2, <1>3, <1>4, <1>12, <2>2, FieldTypes
         DEF VmFits, OpFits, At, SuspendStamp
    <3> QED
      BY <1>1, <1>2, <1>3, <1>4, <3>1, <3>2, RowEffect DEF DiskTo, FleetTypeOK
  <2> QED
    BY <1>3, <1>12, <2>1, <2>2 DEF SuspendStamp
<1>13. CASE SuspendListen(n)
  <2>0. OpTo(n, "unroute")
    <3> DEFINE o == [op[n] EXCEPT !.pc = "unroute", !.ports = Forwards(v)]
    <3>1. op[n] \in Operations /\ Forwards(v) \in SUBSET Ports
      BY <1>4 DEF FleetTypeOK, Forwards
    <3>2. SetOp(n, o)
      BY <1>3, <1>13 DEF SuspendListen
    <3>3. o \in Operations
      BY <3>1, Literals DEF Operations
    <3>4. /\ o.pc = "unroute" /\ o.kind = op[n].kind /\ o.vm = op[n].vm
          /\ o.other = op[n].other /\ o.to = op[n].to /\ o.was = op[n].was
      BY <3>1 DEF Operations
    <3> HIDE DEF o
    <3> QED
      BY <1>4, <3>2, <3>3, <3>4, OpUpdate DEF OpTo, FleetTypeOK
  <2>1. /\ RowTo(v, row[v].state) /\ MemTo(v, mem[v].inst)
        /\ HostTo(v, host[v].procs, host[v].slot, host[v].tap, host[v].ran)
        /\ HistTo(hist.lost) /\ OpTo(n, "unroute") /\ UNCHANGED <<disk, daemon>>
    BY <1>3, <1>4, <1>13, <2>0, FieldTypes, Untouched, Literals
       DEF SuspendListen
  <2>2. /\ VmFits(v, row[v].state, mem[v].inst, host[v].procs,
                  host[v].slot, host[v].tap, host[v].ran, hist.lost)
        /\ OpFits(n, v, "unroute", row[v].state, host[v].procs,
                  host[v].slot, host[v].tap, hist.lost)
    BY <1>1, <1>2, <1>3, <1>4, <1>13, FieldTypes
       DEF VmFits, OpFits, At, Suspends, Destroys, SuspendListen
  <2> QED
    BY <1>1, <1>2, <1>3, <1>4, <2>1, <2>2, RowEffect DEF DiskTo, FleetTypeOK
<1>14. CASE SuspendUnroute(n)
  <2>1. /\ RowTo(v, row[v].state) /\ MemTo(v, mem[v].inst)
        /\ HostTo(v, host[v].procs, host[v].slot, host[v].tap, host[v].ran)
        /\ HistTo(hist.lost) /\ Freed(n) /\ UNCHANGED <<disk, daemon>>
    BY <1>3, <1>4, <1>14, FieldTypes, Untouched, Literals, UnlockFacts
       DEF SuspendUnroute
  <2>2. VmFits(v, row[v].state, mem[v].inst, host[v].procs,
               host[v].slot, host[v].tap, host[v].ran, hist.lost)
    BY <1>1, <1>2, <1>3, <1>4, <1>14, FieldTypes
       DEF VmFits, OpFits, At, SuspendUnroute
  <2> QED
    BY <1>1, <1>2, <1>3, <1>4, <2>1, <2>2, RowEffect DEF DiskTo, FleetTypeOK
<1> QED
  BY <1>5, <1>6, <1>7, <1>8, <1>9, <1>10, <1>11, <1>12, <1>13, <1>14 DEF Suspending

\* resume_vm and restore_from_suspend, with each of their failures.
LEMMA ResumeSteps ==
    ASSUME FleetInv, NEW n \in Names, Resuming(n)
    PROVE  FleetInv'
<1>1. Serving /\ op[n].kind = "resume"
  BY DEF Resuming, At, ResumeUnpause, ResumeRewire, ResumeRestore, ResumeCommit,
     ResumeDiscard, ResumeRoute, ResumeDrain
<1>2. op[n].kind \in RowKinds \ Destroys /\ op[n].kind \notin Suspends
  BY <1>1 DEF RowKinds, Suspends, Destroys
<1>3. PICK v \in Vms : v = Vm(n)
  BY <1>1, <1>2, RowContext
<1>4. /\ FleetTypeOK
      /\ VmFits(v, row[v].state, mem[v].inst, host[v].procs, host[v].slot,
                host[v].tap, host[v].ran, hist.lost)
      /\ OpFits(n, v, op[n].pc, row[v].state, host[v].procs, host[v].slot,
                host[v].tap, hist.lost)
  BY <1>1, <1>2, <1>3, RowNow
<1>5. CASE ResumeUnpause(n)
  <2>1. CASE ResumeGuest(v) /\ SetState(v, "running") /\ UNCHANGED hist
    <3>1. /\ RowTo(v, "running") /\ MemTo(v, "running")
          /\ HostTo(v, host[v].procs, host[v].slot, host[v].tap, host[v].ran)
          /\ HistTo(hist.lost) /\ Freed(n) /\ UNCHANGED <<disk, daemon>>
      BY <1>3, <1>4, <1>5, <2>1, FieldTypes, Untouched, Literals, InstFacts,
         StateFacts, UnlockFacts
         DEF ResumeUnpause, ResumeGuest, Insts
    <3>2. VmFits(v, "running", "running", host[v].procs,
                 host[v].slot, host[v].tap, host[v].ran, hist.lost)
      BY <1>1, <1>2, <1>3, <1>4, <1>5, <2>1, FieldTypes
         DEF VmFits, OpFits, At, ResumeUnpause
    <3> QED
      BY <1>1, <1>2, <1>3, <1>4, <3>1, <3>2, RowEffect DEF DiskTo, FleetTypeOK
  <2>2. CASE ResumeGuest(v) /\ Fault /\ UNCHANGED row
    <3>1. /\ RowTo(v, row[v].state) /\ MemTo(v, "running")
          /\ HostTo(v, host[v].procs, host[v].slot, host[v].tap, host[v].ran)
          /\ HistTo(hist.lost) /\ Freed(n) /\ UNCHANGED <<disk, daemon>>
      BY <1>3, <1>4, <1>5, <2>2, FieldTypes, Untouched, Literals, InstFacts,
         FaultFacts, UnlockFacts
         DEF ResumeUnpause, ResumeGuest, Insts
    <3>2. VmFits(v, row[v].state, "running", host[v].procs,
                 host[v].slot, host[v].tap, host[v].ran, hist.lost)
      BY <1>1, <1>2, <1>3, <1>4, <1>5, <2>2, FieldTypes
         DEF VmFits, OpFits, At, ResumeUnpause
    <3> QED
      BY <1>1, <1>2, <1>3, <1>4, <3>1, <3>2, RowEffect DEF DiskTo, FleetTypeOK
  <2>3. CASE UNCHANGED <<row, mem, hist>>
    <3>1. /\ RowTo(v, row[v].state) /\ MemTo(v, mem[v].inst)
          /\ HostTo(v, host[v].procs, host[v].slot, host[v].tap, host[v].ran)
          /\ HistTo(hist.lost) /\ Freed(n) /\ UNCHANGED <<disk, daemon>>
      BY <1>3, <1>4, <1>5, <2>3, FieldTypes, Untouched, Literals, UnlockFacts
         DEF ResumeUnpause
    <3>2. VmFits(v, row[v].state, mem[v].inst, host[v].procs,
                 host[v].slot, host[v].tap, host[v].ran, hist.lost)
      BY <1>1, <1>2, <1>3, <1>4, <1>5, <2>3, FieldTypes
         DEF VmFits, OpFits, At, ResumeUnpause
    <3> QED
      BY <1>1, <1>2, <1>3, <1>4, <3>1, <3>2, RowEffect DEF DiskTo, FleetTypeOK
  <2> QED
    BY <1>3, <1>5, <2>1, <2>2, <2>3 DEF ResumeUnpause
<1>6. CASE ResumeRewire(n)
  <2>1. CASE SetTap(v, TRUE) /\ Goto(n, "restore") /\ UNCHANGED hist
    <3>1. /\ RowTo(v, row[v].state) /\ MemTo(v, mem[v].inst)
          /\ HostTo(v, host[v].procs, host[v].slot, TRUE, host[v].ran)
          /\ HistTo(hist.lost) /\ OpTo(n, "restore") /\ UNCHANGED <<disk, daemon>>
      BY <1>3, <1>4, <1>6, <2>1, FieldTypes, Untouched, Literals, TapFacts,
         GotoFacts
         DEF ResumeRewire
    <3>2. /\ VmFits(v, row[v].state, mem[v].inst, host[v].procs,
                    host[v].slot, TRUE, host[v].ran, hist.lost)
          /\ OpFits(n, v, "restore", row[v].state, host[v].procs,
                    host[v].slot, TRUE, hist.lost)
      BY <1>1, <1>2, <1>3, <1>4, <1>6, <2>1, FieldTypes
         DEF VmFits, OpFits, At, Suspends, Destroys, ResumeRewire
    <3> QED
      BY <1>1, <1>2, <1>3, <1>4, <3>1, <3>2, RowEffect DEF DiskTo, FleetTypeOK
  <2>2. CASE Unlock(n) /\ Fault /\ UNCHANGED host
    <3>1. /\ RowTo(v, row[v].state) /\ MemTo(v, mem[v].inst)
          /\ HostTo(v, host[v].procs, host[v].slot, host[v].tap, host[v].ran)
          /\ HistTo(hist.lost) /\ Freed(n) /\ UNCHANGED <<disk, daemon>>
      BY <1>3, <1>4, <1>6, <2>2, FieldTypes, Untouched, Literals, FaultFacts,
         UnlockFacts
         DEF ResumeRewire
    <3>2. VmFits(v, row[v].state, mem[v].inst, host[v].procs,
                 host[v].slot, host[v].tap, host[v].ran, hist.lost)
      BY <1>1, <1>2, <1>3, <1>4, <1>6, <2>2, FieldTypes
         DEF VmFits, OpFits, At, ResumeRewire
    <3> QED
      BY <1>1, <1>2, <1>3, <1>4, <3>1, <3>2, RowEffect DEF DiskTo, FleetTypeOK
  <2>3. CASE Unlock(n) /\ UNCHANGED <<host, hist>>
    <3>1. /\ RowTo(v, row[v].state) /\ MemTo(v, mem[v].inst)
          /\ HostTo(v, host[v].procs, host[v].slot, host[v].tap, host[v].ran)
          /\ HistTo(hist.lost) /\ Freed(n) /\ UNCHANGED <<disk, daemon>>
      BY <1>3, <1>4, <1>6, <2>3, FieldTypes, Untouched, Literals, UnlockFacts
         DEF ResumeRewire
    <3>2. VmFits(v, row[v].state, mem[v].inst, host[v].procs,
                 host[v].slot, host[v].tap, host[v].ran, hist.lost)
      BY <1>1, <1>2, <1>3, <1>4, <1>6, <2>3, FieldTypes
         DEF VmFits, OpFits, At, ResumeRewire
    <3> QED
      BY <1>1, <1>2, <1>3, <1>4, <3>1, <3>2, RowEffect DEF DiskTo, FleetTypeOK
  <2> QED
    BY <1>3, <1>6, <2>1, <2>2, <2>3 DEF ResumeRewire
<1>7. CASE ResumeRestore(n)
  <2>1. CASE /\ Saved(v)
             /\ Spawned(v, "running")
             /\ Goto(n, "commit")
             /\ UNCHANGED hist
    <3>1. /\ RowTo(v, row[v].state) /\ MemTo(v, "running")
          /\ HostTo(v, host[v].procs \cup {"child"}, host[v].slot,
                    host[v].tap, (host[v].slot # "none"))
          /\ HistTo(hist.lost) /\ OpTo(n, "commit") /\ UNCHANGED <<disk, daemon>>
      BY <1>3, <1>4, <1>7, <2>1, FieldTypes, Untouched, Literals, SpawnedFacts,
         GotoFacts
         DEF ResumeRestore, Insts
    <3>2. /\ VmFits(v, row[v].state, "running", host[v].procs \cup
                    {"child"}, host[v].slot, host[v].tap, (host[v].slot #
                    "none"), hist.lost)
          /\ OpFits(n, v, "commit", row[v].state, host[v].procs \cup
                    {"child"}, host[v].slot, host[v].tap, hist.lost)
      BY <1>1, <1>2, <1>3, <1>4, <1>7, <2>1, FieldTypes
         DEF VmFits, OpFits, At, Suspends, Destroys, ResumeRestore, Saved
    <3> QED
      BY <1>1, <1>2, <1>3, <1>4, <3>1, <3>2, RowEffect DEF DiskTo, FleetTypeOK
  <2>2. CASE AbortGuest(v) /\ Unlock(n) /\ (Fault \/ UNCHANGED hist)
    <3>1. /\ RowTo(v, row[v].state) /\ MemTo(v, "none")
          /\ HostTo(v, host[v].procs \ {"child"}, host[v].slot,
                    host[v].tap, host[v].ran)
          /\ HistTo(hist.lost) /\ Freed(n) /\ UNCHANGED <<disk, daemon>>
      BY <1>3, <1>4, <1>7, <2>2, FieldTypes, Untouched, Literals, InstFacts,
         ReapedFacts, FaultFacts, UnlockFacts
         DEF ResumeRestore, AbortGuest, Insts
    <3>2. VmFits(v, row[v].state, "none", host[v].procs \ {"child"},
                 host[v].slot, host[v].tap, host[v].ran, hist.lost)
      BY <1>1, <1>2, <1>3, <1>4, <1>7, <2>2, FieldTypes
         DEF VmFits, OpFits, At, ResumeRestore
    <3> QED
      BY <1>1, <1>2, <1>3, <1>4, <3>1, <3>2, RowEffect DEF DiskTo, FleetTypeOK
  <2>3. CASE Unlock(n) /\ UNCHANGED <<mem, host, hist>>
    <3>1. /\ RowTo(v, row[v].state) /\ MemTo(v, mem[v].inst)
          /\ HostTo(v, host[v].procs, host[v].slot, host[v].tap, host[v].ran)
          /\ HistTo(hist.lost) /\ Freed(n) /\ UNCHANGED <<disk, daemon>>
      BY <1>3, <1>4, <1>7, <2>3, FieldTypes, Untouched, Literals, UnlockFacts
         DEF ResumeRestore
    <3>2. VmFits(v, row[v].state, mem[v].inst, host[v].procs,
                 host[v].slot, host[v].tap, host[v].ran, hist.lost)
      BY <1>1, <1>2, <1>3, <1>4, <1>7, <2>3, FieldTypes
         DEF VmFits, OpFits, At, ResumeRestore
    <3> QED
      BY <1>1, <1>2, <1>3, <1>4, <3>1, <3>2, RowEffect DEF DiskTo, FleetTypeOK
  <2> QED
    BY <1>3, <1>7, <2>1, <2>2, <2>3 DEF ResumeRestore
<1>8. CASE ResumeCommit(n)
  <2>1. CASE /\ SetRuntime(v, "running", TRUE)
             /\ Goto(n, "discard")
             /\ UNCHANGED hist
    <3>1. /\ RowTo(v, "running") /\ MemTo(v, mem[v].inst)
          /\ HostTo(v, host[v].procs, host[v].slot, host[v].tap, host[v].ran)
          /\ HistTo(hist.lost) /\ OpTo(n, "discard") /\ UNCHANGED <<disk, daemon>>
      BY <1>3, <1>4, <1>8, <2>1, FieldTypes, Untouched, Literals, RuntimeFacts,
         GotoFacts
         DEF ResumeCommit
    <3>2. /\ VmFits(v, "running", mem[v].inst, host[v].procs,
                    host[v].slot, host[v].tap, host[v].ran, hist.lost)
          /\ OpFits(n, v, "discard", "running", host[v].procs,
                    host[v].slot, host[v].tap, hist.lost)
      BY <1>1, <1>2, <1>3, <1>4, <1>8, <2>1, FieldTypes
         DEF VmFits, OpFits, At, Suspends, Destroys, ResumeCommit
    <3> QED
      BY <1>1, <1>2, <1>3, <1>4, <3>1, <3>2, RowEffect DEF DiskTo, FleetTypeOK
  <2>2. CASE Fault /\ Unlock(n) /\ UNCHANGED row
    <3>1. /\ RowTo(v, row[v].state) /\ MemTo(v, mem[v].inst)
          /\ HostTo(v, host[v].procs, host[v].slot, host[v].tap, host[v].ran)
          /\ HistTo(hist.lost) /\ Freed(n) /\ UNCHANGED <<disk, daemon>>
      BY <1>3, <1>4, <1>8, <2>2, FieldTypes, Untouched, Literals, FaultFacts,
         UnlockFacts
         DEF ResumeCommit
    <3>2. VmFits(v, row[v].state, mem[v].inst, host[v].procs,
                 host[v].slot, host[v].tap, host[v].ran, hist.lost)
      BY <1>1, <1>2, <1>3, <1>4, <1>8, <2>2, FieldTypes
         DEF VmFits, OpFits, At, ResumeCommit
    <3> QED
      BY <1>1, <1>2, <1>3, <1>4, <3>1, <3>2, RowEffect DEF DiskTo, FleetTypeOK
  <2> QED
    BY <1>3, <1>8, <2>1, <2>2 DEF ResumeCommit
<1>9. CASE ResumeDiscard(n)
  <2>0. PICK l \in Slots : SetSlot(v, l)
    BY <1>3, <1>4, <1>9, SlotValues DEF ResumeDiscard, DropSlot, FleetTypeOK
  <2>1. /\ RowTo(v, row[v].state) /\ MemTo(v, mem[v].inst)
        /\ HostTo(v, host[v].procs, l, host[v].tap, host[v].ran)
        /\ HistTo(hist.lost) /\ OpTo(n, "route") /\ UNCHANGED <<disk, daemon>>
    BY <1>3, <1>4, <1>9, <2>0, FieldTypes, Untouched, Literals, SlotFacts,
       FaultFacts, GotoFacts
       DEF ResumeDiscard, DropSlot
  <2>2. /\ VmFits(v, row[v].state, mem[v].inst, host[v].procs,
                  l, host[v].tap, host[v].ran, hist.lost)
        /\ OpFits(n, v, "route", row[v].state, host[v].procs, l,
                  host[v].tap, hist.lost)
    BY <1>1, <1>2, <1>3, <1>4, <1>9, FieldTypes
       DEF VmFits, OpFits, At, Suspends, Destroys, ResumeDiscard
  <2> QED
    BY <1>1, <1>2, <1>3, <1>4, <2>1, <2>2, RowEffect DEF DiskTo, FleetTypeOK
<1>10. CASE ResumeRoute(n)
  <2>1. /\ RowTo(v, row[v].state) /\ MemTo(v, mem[v].inst)
        /\ HostTo(v, host[v].procs, host[v].slot, host[v].tap, host[v].ran)
        /\ HistTo(hist.lost) /\ OpTo(n, "drain") /\ UNCHANGED <<disk, daemon>>
    BY <1>3, <1>4, <1>10, FieldTypes, Untouched, Literals, GotoFacts
       DEF ResumeRoute
  <2>2. /\ VmFits(v, row[v].state, mem[v].inst, host[v].procs,
                  host[v].slot, host[v].tap, host[v].ran, hist.lost)
        /\ OpFits(n, v, "drain", row[v].state, host[v].procs,
                  host[v].slot, host[v].tap, hist.lost)
    BY <1>1, <1>2, <1>3, <1>4, <1>10, FieldTypes
       DEF VmFits, OpFits, At, Suspends, Destroys, ResumeRoute
  <2> QED
    BY <1>1, <1>2, <1>3, <1>4, <2>1, <2>2, RowEffect DEF DiskTo, FleetTypeOK
<1>11. CASE ResumeDrain(n)
  <2>1. RowTo(v, row[v].state)
    BY <1>3, <1>4, <1>11, FieldTypes, RowWrites DEF ResumeDrain, VmFits
  <2>2. /\ RowTo(v, row[v].state) /\ MemTo(v, mem[v].inst)
        /\ HostTo(v, host[v].procs, host[v].slot, host[v].tap, host[v].ran)
        /\ HistTo(hist.lost) /\ Freed(n) /\ UNCHANGED <<disk, daemon>>
    BY <1>3, <1>4, <1>11, <2>1, FieldTypes, Untouched, Literals, UnlockFacts
       DEF ResumeDrain
  <2>3. VmFits(v, row[v].state, mem[v].inst, host[v].procs,
               host[v].slot, host[v].tap, host[v].ran, hist.lost)
    BY <1>1, <1>2, <1>3, <1>4, <1>11, FieldTypes
       DEF VmFits, OpFits, At, ResumeDrain
  <2> QED
    BY <1>1, <1>2, <1>3, <1>4, <2>2, <2>3, RowEffect DEF DiskTo, FleetTypeOK
<1> QED
  BY <1>5, <1>6, <1>7, <1>8, <1>9, <1>10, <1>11 DEF Resuming

Stopping(n) == \/ Cancel(n) \/ StopDiscard(n) \/ ShutDownGuest(n) \/ StopKill(n)
               \/ StopCommit(n) \/ PauseCommit(n) \/ RecoverUserdata(n)

\* stop_vm, pause_vm, and what every operation does to userdata.
LEMMA StopSteps ==
    ASSUME FleetInv, NEW n \in Names, Stopping(n)
    PROVE  FleetInv'
<1>1. Serving /\ op[n].kind \in RowKinds \ {"resume"} /\ op[n].pc # "check"
  BY DEF Stopping, At, Cancel, StopDiscard, ShutDownGuest, StopKill, StopCommit,
     PauseCommit, RecoverUserdata, RowKinds, Suspends, Destroys
<1>2. op[n].kind \in RowKinds
  BY <1>1
<1>3. PICK v \in Vms : v = Vm(n)
  BY <1>1, <1>2, RowContext
<1>4. /\ FleetTypeOK
      /\ VmFits(v, row[v].state, mem[v].inst, host[v].procs, host[v].slot,
                host[v].tap, host[v].ran, hist.lost)
      /\ OpFits(n, v, op[n].pc, row[v].state, host[v].procs, host[v].slot,
                host[v].tap, hist.lost)
  BY <1>1, <1>2, <1>3, RowNow
<1>5. CASE Cancel(n)
  <2>1. CASE op[n].kind \in Suspends
    <3>1. /\ RowTo(v, row[v].state) /\ MemTo(v, mem[v].inst)
          /\ HostTo(v, host[v].procs, host[v].slot, host[v].tap, host[v].ran)
          /\ HistTo(hist.lost) /\ OpTo(n, "mark") /\ UNCHANGED <<disk, daemon>>
      BY <1>3, <1>4, <1>5, <2>1, FieldTypes, Untouched, Literals, CancelFacts
         DEF Cancel, Suspends
    <3>2. /\ VmFits(v, row[v].state, mem[v].inst, host[v].procs,
                    host[v].slot, host[v].tap, host[v].ran, hist.lost)
          /\ OpFits(n, v, "mark", row[v].state, host[v].procs,
                    host[v].slot, host[v].tap, hist.lost)
      BY <1>1, <1>2, <1>3, <1>4, <1>5, <2>1, FieldTypes
         DEF VmFits, OpFits, At, Suspends, Destroys, Cancel
    <3> QED
      BY <1>1, <1>2, <1>3, <1>4, <3>1, <3>2, RowEffect DEF DiskTo, FleetTypeOK
  <2>2. CASE op[n].kind = "pause"
    <3>1. /\ RowTo(v, row[v].state) /\ MemTo(v, mem[v].inst)
          /\ HostTo(v, host[v].procs, host[v].slot, host[v].tap, host[v].ran)
          /\ HistTo(hist.lost) /\ OpTo(n, "pause") /\ UNCHANGED <<disk, daemon>>
      BY <1>3, <1>4, <1>5, <2>2, FieldTypes, Untouched, Literals, CancelFacts
         DEF Cancel, Suspends
    <3>2. /\ VmFits(v, row[v].state, mem[v].inst, host[v].procs,
                    host[v].slot, host[v].tap, host[v].ran, hist.lost)
          /\ OpFits(n, v, "pause", row[v].state, host[v].procs,
                    host[v].slot, host[v].tap, hist.lost)
      BY <1>1, <1>2, <1>3, <1>4, <1>5, <2>2, FieldTypes
         DEF VmFits, OpFits, At, Suspends, Destroys, Cancel
    <3> QED
      BY <1>1, <1>2, <1>3, <1>4, <3>1, <3>2, RowEffect DEF DiskTo, FleetTypeOK
  <2>3. CASE op[n].kind \in {"stop"} \cup Destroys
    <3>1. /\ RowTo(v, row[v].state) /\ MemTo(v, mem[v].inst)
          /\ HostTo(v, host[v].procs, host[v].slot, host[v].tap, host[v].ran)
          /\ HistTo(hist.lost) /\ OpTo(n, "shutdown") /\ UNCHANGED <<disk, daemon>>
      BY <1>3, <1>4, <1>5, <2>3, FieldTypes, Untouched, Literals, CancelFacts
         DEF Cancel, Suspends, Destroys
    <3>2. /\ VmFits(v, row[v].state, mem[v].inst, host[v].procs,
                    host[v].slot, host[v].tap, host[v].ran, hist.lost)
          /\ OpFits(n, v, "shutdown", row[v].state, host[v].procs,
                    host[v].slot, host[v].tap, hist.lost)
      BY <1>1, <1>2, <1>3, <1>4, <1>5, <2>3, FieldTypes
         DEF VmFits, OpFits, At, Suspends, Destroys, Cancel
    <3> QED
      BY <1>1, <1>2, <1>3, <1>4, <3>1, <3>2, RowEffect DEF DiskTo, FleetTypeOK
  <2> QED
    BY <1>3, <1>5, <2>1, <2>2, <2>3 DEF Cancel, At
<1>6. CASE StopDiscard(n)
  <2>0. PICK l \in Slots : SetSlot(v, l)
    BY <1>3, <1>4, <1>6, SlotValues DEF StopDiscard, FleetTypeOK
  <2>1. /\ RowTo(v, row[v].state) /\ MemTo(v, mem[v].inst)
        /\ HostTo(v, host[v].procs, l, host[v].tap, host[v].ran)
        /\ HistTo(hist.lost \cup {v}) /\ OpTo(n, "stopped") /\ UNCHANGED <<disk, daemon>>
    BY <1>3, <1>4, <1>6, <2>0, FieldTypes, Untouched, Literals, SlotFacts, LostFacts,
       CancelFacts
       DEF StopDiscard
  <2>2. /\ VmFits(v, row[v].state, mem[v].inst, host[v].procs,
                  l, host[v].tap, host[v].ran, hist.lost \cup {v})
        /\ OpFits(n, v, "stopped", row[v].state, host[v].procs,
                  l, host[v].tap, hist.lost \cup {v})
    BY <1>1, <1>2, <1>3, <1>4, <1>6, FieldTypes
       DEF VmFits, OpFits, At, Suspends, Destroys, StopDiscard
  <2> QED
    BY <1>1, <1>2, <1>3, <1>4, <2>1, <2>2, RowEffect DEF DiskTo, FleetTypeOK
<1>7. CASE ShutDownGuest(n)
  <2>1. CASE Reaped(v)
    <3>1. /\ RowTo(v, row[v].state) /\ MemTo(v, mem[v].inst)
          /\ HostTo(v, host[v].procs \ {"child"}, host[v].slot,
                    host[v].tap, host[v].ran)
          /\ HistTo(hist.lost) /\ OpTo(n, "kill") /\ UNCHANGED <<disk, daemon>>
      BY <1>3, <1>4, <1>7, <2>1, FieldTypes, Untouched, Literals, ReapedFacts,
         GotoFacts
         DEF ShutDownGuest
    <3>2. /\ VmFits(v, row[v].state, mem[v].inst, host[v].procs \
                    {"child"}, host[v].slot, host[v].tap, host[v].ran,
                    hist.lost)
          /\ OpFits(n, v, "kill", row[v].state, host[v].procs \
                    {"child"}, host[v].slot, host[v].tap, hist.lost)
      BY <1>1, <1>2, <1>3, <1>4, <1>7, <2>1, FieldTypes
         DEF VmFits, OpFits, At, Suspends, Destroys, ShutDownGuest
    <3> QED
      BY <1>1, <1>2, <1>3, <1>4, <3>1, <3>2, RowEffect DEF DiskTo, FleetTypeOK
  <2>2. CASE UNCHANGED host
    <3>1. /\ RowTo(v, row[v].state) /\ MemTo(v, mem[v].inst)
          /\ HostTo(v, host[v].procs, host[v].slot, host[v].tap, host[v].ran)
          /\ HistTo(hist.lost) /\ OpTo(n, "kill") /\ UNCHANGED <<disk, daemon>>
      BY <1>3, <1>4, <1>7, <2>2, FieldTypes, Untouched, Literals, GotoFacts
         DEF ShutDownGuest
    <3>2. /\ VmFits(v, row[v].state, mem[v].inst, host[v].procs,
                    host[v].slot, host[v].tap, host[v].ran, hist.lost)
          /\ OpFits(n, v, "kill", row[v].state, host[v].procs,
                    host[v].slot, host[v].tap, hist.lost)
      BY <1>1, <1>2, <1>3, <1>4, <1>7, <2>2, FieldTypes
         DEF VmFits, OpFits, At, Suspends, Destroys, ShutDownGuest
    <3> QED
      BY <1>1, <1>2, <1>3, <1>4, <3>1, <3>2, RowEffect DEF DiskTo, FleetTypeOK
  <2> QED
    BY <1>3, <1>7, <2>1, <2>2 DEF ShutDownGuest
<1>8. CASE StopKill(n)
  <2>1. CASE StopGuest(v) /\ Goto(n, "stopped")
    <3>1. /\ RowTo(v, row[v].state) /\ MemTo(v, "stopped")
          /\ HostTo(v, host[v].procs \ {"child"}, host[v].slot,
                    host[v].tap, host[v].ran)
          /\ HistTo(hist.lost) /\ OpTo(n, "stopped") /\ UNCHANGED <<disk, daemon>>
      BY <1>3, <1>4, <1>8, <2>1, FieldTypes, Untouched, Literals, InstFacts,
         ReapedFacts, GotoFacts
         DEF StopKill, StopGuest, Insts
    <3>2. /\ VmFits(v, row[v].state, "stopped", host[v].procs \
                    {"child"}, host[v].slot, host[v].tap, host[v].ran,
                    hist.lost)
          /\ OpFits(n, v, "stopped", row[v].state, host[v].procs \
                    {"child"}, host[v].slot, host[v].tap, hist.lost)
      BY <1>1, <1>2, <1>3, <1>4, <1>8, <2>1, FieldTypes
         DEF VmFits, OpFits, At, Suspends, Destroys, StopKill
    <3> QED
      BY <1>1, <1>2, <1>3, <1>4, <3>1, <3>2, RowEffect DEF DiskTo, FleetTypeOK
  <2>2. CASE Goto(n, "recover") /\ UNCHANGED <<mem, host>>
    <3>1. /\ RowTo(v, row[v].state) /\ MemTo(v, mem[v].inst)
          /\ HostTo(v, host[v].procs, host[v].slot, host[v].tap, host[v].ran)
          /\ HistTo(hist.lost) /\ OpTo(n, "recover") /\ UNCHANGED <<disk, daemon>>
      BY <1>3, <1>4, <1>8, <2>2, FieldTypes, Untouched, Literals, GotoFacts
         DEF StopKill
    <3>2. /\ VmFits(v, row[v].state, mem[v].inst, host[v].procs,
                    host[v].slot, host[v].tap, host[v].ran, hist.lost)
          /\ OpFits(n, v, "recover", row[v].state, host[v].procs,
                    host[v].slot, host[v].tap, hist.lost)
      BY <1>1, <1>2, <1>3, <1>4, <1>8, <2>2, FieldTypes
         DEF VmFits, OpFits, At, Suspends, Destroys, StopKill
    <3> QED
      BY <1>1, <1>2, <1>3, <1>4, <3>1, <3>2, RowEffect DEF DiskTo, FleetTypeOK
  <2> QED
    BY <1>3, <1>8, <2>1, <2>2 DEF StopKill
<1>9. CASE StopCommit(n)
  <2>1. CASE SetRow(v, Interrupted(Stopped(row[v]))) /\ UNCHANGED hist
    <3>1. RowTo(v, "stopped")
      BY <1>3, <1>4, <1>9, <2>1, FieldTypes, RowWrites DEF StopCommit, VmFits
    <3>2. /\ RowTo(v, "stopped") /\ MemTo(v, mem[v].inst)
          /\ HostTo(v, host[v].procs, host[v].slot, host[v].tap, host[v].ran)
          /\ HistTo(hist.lost) /\ Freed(n) /\ UNCHANGED <<disk, daemon>>
      BY <1>3, <1>4, <1>9, <2>1, <3>1, FieldTypes, Untouched, Literals,
         UnlockFacts
         DEF StopCommit
    <3>3. VmFits(v, "stopped", mem[v].inst, host[v].procs,
                 host[v].slot, host[v].tap, host[v].ran, hist.lost)
      BY <1>1, <1>2, <1>3, <1>4, <1>9, <2>1, FieldTypes
         DEF VmFits, OpFits, At, StopCommit
    <3> QED
      BY <1>1, <1>2, <1>3, <1>4, <3>2, <3>3, RowEffect DEF DiskTo, FleetTypeOK
  <2>2. CASE Fault /\ SetRow(v, Interrupted(row[v]))
    <3>1. RowTo(v, row[v].state)
      BY <1>3, <1>4, <1>9, <2>2, FieldTypes, RowWrites DEF StopCommit, VmFits
    <3>2. /\ RowTo(v, row[v].state) /\ MemTo(v, mem[v].inst)
          /\ HostTo(v, host[v].procs, host[v].slot, host[v].tap, host[v].ran)
          /\ HistTo(hist.lost) /\ Freed(n) /\ UNCHANGED <<disk, daemon>>
      BY <1>3, <1>4, <1>9, <2>2, <3>1, FieldTypes, Untouched, Literals,
         FaultFacts, UnlockFacts
         DEF StopCommit
    <3>3. VmFits(v, row[v].state, mem[v].inst, host[v].procs,
                 host[v].slot, host[v].tap, host[v].ran, hist.lost)
      BY <1>1, <1>2, <1>3, <1>4, <1>9, <2>2, FieldTypes
         DEF VmFits, OpFits, At, StopCommit
    <3> QED
      BY <1>1, <1>2, <1>3, <1>4, <3>2, <3>3, RowEffect DEF DiskTo, FleetTypeOK
  <2>3. CASE Fault /\ UNCHANGED row
    <3>1. /\ RowTo(v, row[v].state) /\ MemTo(v, mem[v].inst)
          /\ HostTo(v, host[v].procs, host[v].slot, host[v].tap, host[v].ran)
          /\ HistTo(hist.lost) /\ Freed(n) /\ UNCHANGED <<disk, daemon>>
      BY <1>3, <1>4, <1>9, <2>3, FieldTypes, Untouched, Literals, FaultFacts,
         UnlockFacts
         DEF StopCommit
    <3>2. VmFits(v, row[v].state, mem[v].inst, host[v].procs,
                 host[v].slot, host[v].tap, host[v].ran, hist.lost)
      BY <1>1, <1>2, <1>3, <1>4, <1>9, <2>3, FieldTypes
         DEF VmFits, OpFits, At, StopCommit
    <3> QED
      BY <1>1, <1>2, <1>3, <1>4, <3>1, <3>2, RowEffect DEF DiskTo, FleetTypeOK
  <2> QED
    BY <1>3, <1>9, <2>1, <2>2, <2>3 DEF StopCommit
<1>10. CASE PauseCommit(n)
  <2>1. CASE /\ PauseGuest(v)
             /\ SetRow(v, Interrupted(InState(row[v], "paused")))
             /\ Unlock(n)
             /\ UNCHANGED hist
    <3>1. RowTo(v, "paused")
      BY <1>3, <1>4, <1>10, <2>1, FieldTypes, RowWrites DEF PauseCommit, VmFits
    <3>2. /\ RowTo(v, "paused") /\ MemTo(v, "paused")
          /\ HostTo(v, host[v].procs, host[v].slot, host[v].tap, host[v].ran)
          /\ HistTo(hist.lost) /\ Freed(n) /\ UNCHANGED <<disk, daemon>>
      BY <1>3, <1>4, <1>10, <2>1, <3>1, FieldTypes, Untouched, Literals,
         InstFacts, UnlockFacts
         DEF PauseCommit, PauseGuest, Insts
    <3>3. VmFits(v, "paused", "paused", host[v].procs, host[v].slot,
                 host[v].tap, host[v].ran, hist.lost)
      BY <1>1, <1>2, <1>3, <1>4, <1>10, <2>1, FieldTypes
         DEF VmFits, OpFits, At, PauseCommit, Destroys
    <3> QED
      BY <1>1, <1>2, <1>3, <1>4, <3>2, <3>3, RowEffect DEF DiskTo, FleetTypeOK
  <2>2. CASE /\ SetInst(v, "running")
             /\ Fault
             /\ Goto(n, "recover")
             /\ UNCHANGED row
    <3>1. /\ RowTo(v, row[v].state) /\ MemTo(v, "running")
          /\ HostTo(v, host[v].procs, host[v].slot, host[v].tap, host[v].ran)
          /\ HistTo(hist.lost) /\ OpTo(n, "recover") /\ UNCHANGED <<disk, daemon>>
      BY <1>3, <1>4, <1>10, <2>2, FieldTypes, Untouched, Literals, InstFacts,
         FaultFacts, GotoFacts
         DEF PauseCommit, Insts
    <3>2. /\ VmFits(v, row[v].state, "running", host[v].procs,
                    host[v].slot, host[v].tap, host[v].ran, hist.lost)
          /\ OpFits(n, v, "recover", row[v].state, host[v].procs,
                    host[v].slot, host[v].tap, hist.lost)
      BY <1>1, <1>2, <1>3, <1>4, <1>10, <2>2, FieldTypes
         DEF VmFits, OpFits, At, Suspends, Destroys, PauseCommit
    <3> QED
      BY <1>1, <1>2, <1>3, <1>4, <3>1, <3>2, RowEffect DEF DiskTo, FleetTypeOK
  <2>3. CASE Goto(n, "recover") /\ UNCHANGED <<row, mem, hist>>
    <3>1. /\ RowTo(v, row[v].state) /\ MemTo(v, mem[v].inst)
          /\ HostTo(v, host[v].procs, host[v].slot, host[v].tap, host[v].ran)
          /\ HistTo(hist.lost) /\ OpTo(n, "recover") /\ UNCHANGED <<disk, daemon>>
      BY <1>3, <1>4, <1>10, <2>3, FieldTypes, Untouched, Literals, GotoFacts
         DEF PauseCommit
    <3>2. /\ VmFits(v, row[v].state, mem[v].inst, host[v].procs,
                    host[v].slot, host[v].tap, host[v].ran, hist.lost)
          /\ OpFits(n, v, "recover", row[v].state, host[v].procs,
                    host[v].slot, host[v].tap, hist.lost)
      BY <1>1, <1>2, <1>3, <1>4, <1>10, <2>3, FieldTypes
         DEF VmFits, OpFits, At, Suspends, Destroys, PauseCommit
    <3> QED
      BY <1>1, <1>2, <1>3, <1>4, <3>1, <3>2, RowEffect DEF DiskTo, FleetTypeOK
  <2> QED
    BY <1>3, <1>10, <2>1, <2>2, <2>3 DEF PauseCommit
<1>11. CASE RecoverUserdata(n)
  <2>0. MemTo(v, Refreshed(v))
    <3> DEFINE b == mem[v].job \/ (/\ row[v].state = "running" /\ Refreshed(v) = "running"
                                   /\ op[n].cut /\ Claimable(v))
               i == Refreshed(v)
    <3>1. mem[v] \in Memories /\ b \in BOOLEAN /\ i \in Insts
      BY <1>4, FieldTypes DEF Refreshed, Insts
    <3>2. SetMem(v, [mem[v] EXCEPT !.job = b, !.inst = i])
      BY <1>3, <1>11 DEF RecoverUserdata
    <3>3. i = Refreshed(v)
      OBVIOUS
    <3> HIDE DEF b, i
    <3>4. [mem[v] EXCEPT !.job = b, !.inst = i] \in Memories
      BY <3>1 DEF Memories, Insts
    <3>5. LET m == [mem[v] EXCEPT !.job = b, !.inst = i] IN
          m.inst = i /\ m.condemned = mem[v].condemned
      BY <3>1 DEF Memories
    <3> QED
      BY <1>4, <3>2, <3>3, <3>4, <3>5, FieldTypes, MemUpdate DEF MemTo
  <2>00. RowTo(v, row[v].state)
    <3>1. row[v] \in Rows
      BY <1>4, FieldTypes
    <3>2. \/ SetRow(v, WithStatus(row[v], "running")) \/ SetRow(v, row[v])
          \/ SetRow(v, Interrupted(row[v]))
      BY <1>3, <1>11 DEF RecoverUserdata
    <3>3. LET q == WithStatus(row[v], "running") IN
          q \in Rows /\ q.name = row[v].name /\ q.state = row[v].state
      BY <3>1, StatusFacts DEF Statuses
    <3>4. LET q == Interrupted(row[v]) IN
          q \in Rows /\ q.name = row[v].name /\ q.state = row[v].state
      BY <3>1, InterruptedFacts
    <3> QED
      BY <1>4, <3>1, <3>2, <3>3, <3>4, FieldTypes, RowKept
  <2>1. /\ RowTo(v, row[v].state) /\ MemTo(v, Refreshed(v))
        /\ HostTo(v, host[v].procs, host[v].slot, host[v].tap, host[v].ran)
        /\ HistTo(hist.lost) /\ Freed(n) /\ UNCHANGED <<disk, daemon>>
    BY <1>3, <1>4, <1>11, <2>0, <2>00, FieldTypes, Untouched, Literals,
       UnlockFacts
       DEF RecoverUserdata
  <2>2. VmFits(v, row[v].state, Refreshed(v), host[v].procs,
               host[v].slot, host[v].tap, host[v].ran, hist.lost)
    BY <1>1, <1>2, <1>3, <1>4, <1>11, FieldTypes
       DEF VmFits, OpFits, At, RecoverUserdata, Refreshed
  <2> QED
    BY <1>1, <1>2, <1>3, <1>4, <2>1, <2>2, RowEffect DEF DiskTo, FleetTypeOK
<1> QED
  BY <1>5, <1>6, <1>7, <1>8, <1>9, <1>10, <1>11 DEF Stopping

Destroying(n) == DestroyKill(n) \/ DestroyRmdir(n) \/ DestroyUnwire(n)

\* destroy_vm, from the end of the guest to the release of its network.
LEMMA DestroySteps ==
    ASSUME FleetInv, NEW n \in Names, Destroying(n)
    PROVE  FleetInv'
<1>1. Serving /\ op[n].kind \in Destroys /\ op[n].pc # "check"
  BY DEF Destroying, At, DestroyKill, DestroyRmdir, DestroyUnwire
<1>2. op[n].kind \in RowKinds /\ op[n].kind \notin Suspends /\ op[n].kind # "resume"
  BY <1>1 DEF RowKinds, Suspends, Destroys
<1>3. PICK v \in Vms : v = Vm(n)
  BY <1>1, <1>2, RowContext
<1>4. /\ FleetTypeOK
      /\ VmFits(v, row[v].state, mem[v].inst, host[v].procs, host[v].slot,
                host[v].tap, host[v].ran, hist.lost)
      /\ OpFits(n, v, op[n].pc, row[v].state, host[v].procs, host[v].slot,
                host[v].tap, hist.lost)
  BY <1>1, <1>2, <1>3, RowNow
<1>5. CASE DestroyKill(n)
  <2>1. CASE /\ DestroyGuest(v)
             /\ hist' = [hist EXCEPT !.lost = @ \cup {v}]
             /\ Goto(n, "rmdir")
    <3>1. /\ RowTo(v, row[v].state) /\ MemTo(v, "none")
          /\ HostTo(v, host[v].procs \ {"child"}, host[v].slot,
                    host[v].tap, host[v].ran)
          /\ HistTo(hist.lost \cup {v}) /\ OpTo(n, "rmdir") /\ UNCHANGED <<disk, daemon>>
      BY <1>3, <1>4, <1>5, <2>1, FieldTypes, Untouched, Literals, InstFacts,
         ReapedFacts, LostFacts, GotoFacts
         DEF DestroyKill, DestroyGuest, Insts
    <3>2. /\ VmFits(v, row[v].state, "none", host[v].procs \
                    {"child"}, host[v].slot, host[v].tap, host[v].ran,
                    hist.lost \cup {v})
          /\ OpFits(n, v, "rmdir", row[v].state, host[v].procs \
                    {"child"}, host[v].slot, host[v].tap, hist.lost \cup {v})
      BY <1>1, <1>2, <1>3, <1>4, <1>5, <2>1, FieldTypes
         DEF VmFits, OpFits, At, Suspends, Destroys, DestroyKill
    <3> QED
      BY <1>1, <1>2, <1>3, <1>4, <3>1, <3>2, RowEffect DEF DiskTo, FleetTypeOK
  <2>2. CASE /\ mem[v].inst = "none"
             /\ UNCHANGED <<mem, host>>
             /\ hist' = [hist EXCEPT !.lost = @ \cup {v}]
             /\ Goto(n, "rmdir")
    <3>1. /\ RowTo(v, row[v].state) /\ MemTo(v, mem[v].inst)
          /\ HostTo(v, host[v].procs, host[v].slot, host[v].tap, host[v].ran)
          /\ HistTo(hist.lost \cup {v}) /\ OpTo(n, "rmdir") /\ UNCHANGED <<disk, daemon>>
      BY <1>3, <1>4, <1>5, <2>2, FieldTypes, Untouched, Literals, LostFacts,
         GotoFacts
         DEF DestroyKill
    <3>2. /\ VmFits(v, row[v].state, mem[v].inst, host[v].procs,
                    host[v].slot, host[v].tap, host[v].ran, hist.lost \cup {v})
          /\ OpFits(n, v, "rmdir", row[v].state, host[v].procs,
                    host[v].slot, host[v].tap, hist.lost \cup {v})
      BY <1>1, <1>2, <1>3, <1>4, <1>5, <2>2, FieldTypes
         DEF VmFits, OpFits, At, Suspends, Destroys, DestroyKill
    <3> QED
      BY <1>1, <1>2, <1>3, <1>4, <3>1, <3>2, RowEffect DEF DiskTo, FleetTypeOK
  <2>3. CASE Fault /\ Reaped(v) /\ Unlock(n) /\ UNCHANGED mem
    <3>1. /\ RowTo(v, row[v].state) /\ MemTo(v, mem[v].inst)
          /\ HostTo(v, host[v].procs \ {"child"}, host[v].slot,
                    host[v].tap, host[v].ran)
          /\ HistTo(hist.lost) /\ Freed(n) /\ UNCHANGED <<disk, daemon>>
      BY <1>3, <1>4, <1>5, <2>3, FieldTypes, Untouched, Literals, FaultFacts,
         ReapedFacts, UnlockFacts
         DEF DestroyKill
    <3>2. VmFits(v, row[v].state, mem[v].inst, host[v].procs \
                 {"child"}, host[v].slot, host[v].tap, host[v].ran,
                 hist.lost)
      BY <1>1, <1>2, <1>3, <1>4, <1>5, <2>3, FieldTypes
         DEF VmFits, OpFits, At, DestroyKill
    <3> QED
      BY <1>1, <1>2, <1>3, <1>4, <3>1, <3>2, RowEffect DEF DiskTo, FleetTypeOK
  <2>4. CASE Fault /\ Reaped(v) /\ Goto(n, "recover") /\ UNCHANGED mem
    <3>1. /\ RowTo(v, row[v].state) /\ MemTo(v, mem[v].inst)
          /\ HostTo(v, host[v].procs \ {"child"}, host[v].slot,
                    host[v].tap, host[v].ran)
          /\ HistTo(hist.lost) /\ OpTo(n, "recover") /\ UNCHANGED <<disk, daemon>>
      BY <1>3, <1>4, <1>5, <2>4, FieldTypes, Untouched, Literals, FaultFacts,
         ReapedFacts, GotoFacts
         DEF DestroyKill
    <3>2. /\ VmFits(v, row[v].state, mem[v].inst, host[v].procs \
                    {"child"}, host[v].slot, host[v].tap, host[v].ran,
                    hist.lost)
          /\ OpFits(n, v, "recover", row[v].state, host[v].procs \
                    {"child"}, host[v].slot, host[v].tap, hist.lost)
      BY <1>1, <1>2, <1>3, <1>4, <1>5, <2>4, FieldTypes
         DEF VmFits, OpFits, At, Suspends, Destroys, DestroyKill
    <3> QED
      BY <1>1, <1>2, <1>3, <1>4, <3>1, <3>2, RowEffect DEF DiskTo, FleetTypeOK
  <2> QED
    BY <1>3, <1>5, <2>1, <2>2, <2>3, <2>4 DEF DestroyKill, DestroyFailed
<1>6. CASE DestroyRmdir(n)
  <2>1. CASE /\ disk' = [disk EXCEPT ![n] = NoVm]
             /\ Goto(n, "unwire")
             /\ UNCHANGED hist
    <3>1. /\ RowTo(v, row[v].state) /\ MemTo(v, mem[v].inst)
          /\ HostTo(v, host[v].procs, host[v].slot, host[v].tap, host[v].ran)
          /\ HistTo(hist.lost) /\ OpTo(n, "unwire") /\ DiskTo(n) /\ UNCHANGED daemon
      BY <1>3, <1>4, <1>6, <2>1, FieldTypes, Untouched, Literals, GotoFacts
         DEF DestroyRmdir, DiskTo, FleetTypeOK
    <3>2. /\ VmFits(v, row[v].state, mem[v].inst, host[v].procs,
                    host[v].slot, host[v].tap, host[v].ran, hist.lost)
          /\ OpFits(n, v, "unwire", row[v].state, host[v].procs,
                    host[v].slot, host[v].tap, hist.lost)
      BY <1>1, <1>2, <1>3, <1>4, <1>6, <2>1, FieldTypes
         DEF VmFits, OpFits, At, Suspends, Destroys, DestroyRmdir
    <3> QED
      BY <1>1, <1>2, <1>3, <1>4, <3>1, <3>2, <1>6, <2>1, RowEffect
         DEF DiskTo, FleetTypeOK, OpFits, Destroys, DestroyRmdir, At
  <2>2. CASE Fault /\ Unlock(n) /\ UNCHANGED disk
    <3>1. /\ RowTo(v, row[v].state) /\ MemTo(v, mem[v].inst)
          /\ HostTo(v, host[v].procs, host[v].slot, host[v].tap, host[v].ran)
          /\ HistTo(hist.lost) /\ Freed(n) /\ UNCHANGED <<disk, daemon>>
      BY <1>3, <1>4, <1>6, <2>2, FieldTypes, Untouched, Literals, FaultFacts,
         UnlockFacts
         DEF DestroyRmdir
    <3>2. VmFits(v, row[v].state, mem[v].inst, host[v].procs,
                 host[v].slot, host[v].tap, host[v].ran, hist.lost)
      BY <1>1, <1>2, <1>3, <1>4, <1>6, <2>2, FieldTypes
         DEF VmFits, OpFits, At, DestroyRmdir
    <3> QED
      BY <1>1, <1>2, <1>3, <1>4, <3>1, <3>2, RowEffect DEF DiskTo, FleetTypeOK
  <2>3. CASE Fault /\ Goto(n, "recover") /\ UNCHANGED disk
    <3>1. /\ RowTo(v, row[v].state) /\ MemTo(v, mem[v].inst)
          /\ HostTo(v, host[v].procs, host[v].slot, host[v].tap, host[v].ran)
          /\ HistTo(hist.lost) /\ OpTo(n, "recover") /\ UNCHANGED <<disk, daemon>>
      BY <1>3, <1>4, <1>6, <2>3, FieldTypes, Untouched, Literals, FaultFacts,
         GotoFacts
         DEF DestroyRmdir
    <3>2. /\ VmFits(v, row[v].state, mem[v].inst, host[v].procs,
                    host[v].slot, host[v].tap, host[v].ran, hist.lost)
          /\ OpFits(n, v, "recover", row[v].state, host[v].procs,
                    host[v].slot, host[v].tap, hist.lost)
      BY <1>1, <1>2, <1>3, <1>4, <1>6, <2>3, FieldTypes
         DEF VmFits, OpFits, At, Suspends, Destroys, DestroyRmdir
    <3> QED
      BY <1>1, <1>2, <1>3, <1>4, <3>1, <3>2, RowEffect DEF DiskTo, FleetTypeOK
  <2> QED
    BY <1>3, <1>6, <2>1, <2>2, <2>3 DEF DestroyRmdir, DestroyFailed
<1>7. CASE DestroyUnwire(n)
  <2>1. CASE Released(v) /\ Goto(n, "retire") /\ UNCHANGED <<row, hist>>
    <3>1. /\ RowTo(v, row[v].state) /\ MemTo(v, mem[v].inst)
          /\ HostTo(v, host[v].procs, host[v].slot, FALSE, host[v].ran)
          /\ HistTo(hist.lost) /\ OpTo(n, "retire") /\ UNCHANGED <<disk, daemon>>
      BY <1>3, <1>4, <1>7, <2>1, FieldTypes, Untouched, Literals, TapFacts,
         GotoFacts
         DEF DestroyUnwire, Released
    <3>2. /\ VmFits(v, row[v].state, mem[v].inst, host[v].procs,
                    host[v].slot, FALSE, host[v].ran, hist.lost)
          /\ OpFits(n, v, "retire", row[v].state, host[v].procs,
                    host[v].slot, FALSE, hist.lost)
      BY <1>1, <1>2, <1>3, <1>4, <1>7, <2>1, FieldTypes
         DEF VmFits, OpFits, At, Suspends, Destroys, DestroyUnwire
    <3> QED
      BY <1>1, <1>2, <1>3, <1>4, <3>1, <3>2, RowEffect DEF DiskTo, FleetTypeOK
  <2>2. CASE /\ Fault
             /\ SetRow(v, Stopped(row[v]))
             /\ Unlock(n)
             /\ UNCHANGED host
    <3>1. RowTo(v, "stopped")
      BY <1>3, <1>4, <1>7, <2>2, FieldTypes, RowWrites DEF DestroyUnwire, VmFits
    <3>2. /\ RowTo(v, "stopped") /\ MemTo(v, mem[v].inst)
          /\ HostTo(v, host[v].procs, host[v].slot, host[v].tap, host[v].ran)
          /\ HistTo(hist.lost) /\ Freed(n) /\ UNCHANGED <<disk, daemon>>
      BY <1>3, <1>4, <1>7, <2>2, <3>1, FieldTypes, Untouched, Literals,
         FaultFacts, UnlockFacts
         DEF DestroyUnwire
    <3>3. VmFits(v, "stopped", mem[v].inst, host[v].procs,
                 host[v].slot, host[v].tap, host[v].ran, hist.lost)
      BY <1>1, <1>2, <1>3, <1>4, <1>7, <2>2, FieldTypes
         DEF VmFits, OpFits, At, DestroyUnwire
    <3> QED
      BY <1>1, <1>2, <1>3, <1>4, <3>2, <3>3, RowEffect DEF DiskTo, FleetTypeOK
  <2>3. CASE /\ Fault
             /\ SetRow(v, Stopped(row[v]))
             /\ Goto(n, "recover")
             /\ UNCHANGED host
    <3>1. RowTo(v, "stopped")
      BY <1>3, <1>4, <1>7, <2>3, FieldTypes, RowWrites DEF DestroyUnwire, VmFits
    <3>2. /\ RowTo(v, "stopped") /\ MemTo(v, mem[v].inst)
          /\ HostTo(v, host[v].procs, host[v].slot, host[v].tap, host[v].ran)
          /\ HistTo(hist.lost) /\ OpTo(n, "recover") /\ UNCHANGED <<disk, daemon>>
      BY <1>3, <1>4, <1>7, <2>3, <3>1, FieldTypes, Untouched, Literals,
         FaultFacts, GotoFacts
         DEF DestroyUnwire
    <3>3. /\ VmFits(v, "stopped", mem[v].inst, host[v].procs,
                    host[v].slot, host[v].tap, host[v].ran, hist.lost)
          /\ OpFits(n, v, "recover", "stopped", host[v].procs,
                    host[v].slot, host[v].tap, hist.lost)
      BY <1>1, <1>2, <1>3, <1>4, <1>7, <2>3, FieldTypes
         DEF VmFits, OpFits, At, Suspends, Destroys, DestroyUnwire
    <3> QED
      BY <1>1, <1>2, <1>3, <1>4, <3>2, <3>3, RowEffect DEF DiskTo, FleetTypeOK
  <2> QED
    BY <1>3, <1>7, <2>1, <2>2, <2>3 DEF DestroyUnwire, DestroyFailed
<1> QED
  BY <1>5, <1>6, <1>7 DEF Destroying

\* destroy_vm looks at the row again once it holds the lock.
LEMMA DestroyCheckStep ==
    ASSUME FleetInv, NEW n \in Names, DestroyCheck(n)
    PROVE  FleetInv'
<1>1. /\ FleetTypeOK /\ OpInv(n) /\ Serving /\ op[n].kind \in Destroys
      /\ op[n].pc = "check" /\ op[n].kind \in RowKinds
      /\ op[n].kind \notin Creates \cup Suspends \cup {"resume", "fork"}
  BY DEF FleetInv, DestroyCheck, At, RowKinds, Creates, Suspends, Destroys
<1>2. PICK v \in Vms : v = Vm(n)
  BY <1>1 DEF OpInv, RowOp
<1>3. VmInv(v) /\ row[v].name = n
  BY <1>1, <1>2 DEF FleetInv, OpInv, RowOp
<1>4. UNCHANGED <<row, mem, host, disk, daemon, hist>>
  BY DEF DestroyCheck
<1>5. VmInv(v)'
  BY <1>1, <1>3, <1>4, VmKept
<1>6. CASE Freed(n)
  <2>1. OpInv(n)' /\ Claimed(n)' = NoVm
    BY <1>6, FreedOp DEF Freed
  <2>2. FleetTypeOK' /\ Frame(n)
    BY <1>1, <1>2, <1>4, <1>6 DEF FleetTypeOK, Freed, Frame
  <2> QED
    BY <1>1, <1>2, <1>3, <1>4, <1>5, <2>1, <2>2, LocalStep DEF Present
<1>7. ASSUME NEW pc \in {"cancel", "recover"}, OpTo(n, pc), v \in Owners(n),
             pc = "cancel" => ~host[v].bak
      PROVE  FleetInv'
  <2>1. /\ op'[n].kind = op[n].kind /\ op'[n].vm = v /\ op'[n].other = op[n].other
        /\ op'[n].pc = pc /\ Vm(n)' = v
    BY <1>2, <1>7 DEF OpTo, Vm
  <2>2. Claimed(n)' = Claimed(n) /\ Claims(n)'
    <3>1. Claimed(n)' = Claimed(n)
      BY <1>1, <2>1 DEF Claimed
    <3> QED
      BY <1>1, <1>4, <2>1, <3>1 DEF OpInv, Claims, Present, Destroys
  <2>3. RowOp(n)'
    BY <1>1, <1>3, <1>4, <1>7, <2>1 DEF RowOp, Owners, Present
  <2>4. OpInv(n)'
    BY <1>1, <1>7, <2>1, <2>2, <2>3
       DEF OpInv, SuspendOp, ResumeOp, DestroyOp, CreateOp, ForkOp
  <2>5. FleetTypeOK' /\ Frame(n)
    BY <1>1, <1>2, <1>4, <1>7 DEF FleetTypeOK, OpTo, Frame
  <2> QED
    BY <1>1, <1>2, <1>3, <1>4, <1>5, <2>2, <2>4, <2>5, LocalStep DEF Present
<1>8. \/ Unlock(n)
      \/ v \in Owners(n) /\ ~host[v].bak /\ Goto(n, "cancel")
      \/ v \in Owners(n) /\ Goto(n, "recover")
  BY <1>2 DEF DestroyCheck, Reconciled
<1>9. op \in [Names -> Operations] /\ "cancel" \in Awaits /\ "recover" \in Awaits
  BY <1>1, Literals DEF FleetTypeOK
<1>10. CASE Unlock(n)
  BY <1>6, <1>9, <1>10, UnlockFacts
<1>11. CASE v \in Owners(n) /\ ~host[v].bak /\ Goto(n, "cancel")
  BY <1>7, <1>9, <1>11, GotoFacts
<1>12. CASE v \in Owners(n) /\ Goto(n, "recover")
  BY <1>7, <1>9, <1>12, GotoFacts
<1> QED
  BY <1>8, <1>10, <1>11, <1>12

\* The row goes last; a creation that replaces the VM goes on under its lock.
LEMMA DestroyRetireStep ==
    ASSUME FleetInv, NEW n \in Names, DestroyRetire(n)
    PROVE  FleetInv'
<1>1. /\ Serving /\ op[n].kind \in Destroys /\ op[n].pc = "retire"
      /\ op[n].kind \in RowKinds /\ op[n].kind \notin Creates /\ op[n].kind # "fork"
  BY DEF DestroyRetire, At, RowKinds, Creates, Destroys
<1>2. PICK v \in Vms : v = Vm(n)
  BY <1>1, RowContext
<1>3. /\ row[v].name = n /\ Present(v) /\ VmInv(v) /\ FleetTypeOK /\ OpInv(n)
      /\ ~host[v].bak /\ v \in hist.lost /\ ~Alive(v) /\ NamesUnique
  BY <1>1, <1>2, RowContext DEF DestroyOp, FleetInv
<1>4. /\ row' \in [Vms -> Rows] /\ row'[v] = Retired(row[v])
      /\ \A u \in Vms \ {v} : row'[u] = row[u]
  <2>1. Retired(row[v]) \in Rows
    BY <1>3, VmRowsAssumption DEF Retired, Rows
  <2> QED
    BY <1>2, <1>3, <2>1, RowUpdate DEF DestroyRetire, FleetTypeOK
<1>5. row'[v].state = "absent" /\ row'[v].name = n
  BY <1>3, <1>4 DEF Retired
<1>6. MemTo(v, mem[v].inst)
  <2>1. mem[v] \in Memories
    BY <1>3 DEF FleetTypeOK
  <2>2. [mem[v] EXCEPT !.sessions = 0] \in Memories
    BY <2>1, VmRowsAssumption DEF Memories
  <2> QED
    BY <1>2, <1>3, <2>1, <2>2, MemUpdate DEF DestroyRetire, FleetTypeOK, Memories, MemTo
<1>7. PICK l \in Slots : HostTo(v, host[v].procs, l, host[v].tap, host[v].ran)
  BY <1>2, <1>3, SlotFacts, SlotValues DEF DestroyRetire, DropSlot, FleetTypeOK
<1>8. UNCHANGED <<disk, daemon>> /\ HistTo(hist.lost)
  BY <1>2, <1>3, FaultFacts, Untouched DEF DestroyRetire, DropSlot
<1>9. VmInv(v)'
  <2>1. /\ row'[v].state = "absent" /\ mem'[v].inst = mem[v].inst
        /\ host'[v].procs = host[v].procs /\ host'[v].bak = host[v].bak
        /\ v \in hist'.lost /\ daemon' = daemon
    BY <1>3, <1>5, <1>6, <1>7, <1>8 DEF MemTo, HostTo, HistTo
  <2> QED
    BY <1>1, <1>3, <2>1 DEF VmInv, Processes, Sleeps, Saved, HasDisk, Wired, Expected,
                            Present, Alive, Serving
<1>10. CASE Freed(n)
  <2>1. OpInv(n)' /\ Claimed(n)' = NoVm
    BY <1>10, FreedOp DEF Freed
  <2>2. FleetTypeOK' /\ Frame(n)
    BY <1>2, <1>3, <1>4, <1>6, <1>7, <1>8, <1>10
       DEF FleetTypeOK, Freed, Frame, MemTo, HostTo, HistTo
  <2> QED
    BY <1>1, <1>2, <1>5, <1>8, <1>9, <2>1, <2>2, LocalStep DEF Present, HistTo
<1>11. CASE op[n].kind = "replace" /\ SetOp(n, Creation("create", op[n].other, NoVm))
  <2> DEFINE w == op[n].other
             o == Creation("create", w, NoVm)
  <2>1. w \in Vms /\ ~Present(w) /\ w \notin hist.lost /\ Claimed(n) = w /\ w # v
    BY <1>1, <1>3, <1>11, VmRowsAssumption DEF OpInv, Claims, Claimed
  <2>2. o \in Operations
    BY <2>1, VmRowsAssumption, Literals DEF Creation, Holder, Operations
  <2>3. o.kind = "create" /\ o.vm = w /\ o.pc = "wire"
    BY DEF Creation, Holder
  <2> HIDE DEF o
  <2>4. /\ op' \in [Names -> Operations] /\ op'[n] = o
        /\ \A m \in Names \ {n} : op'[m] = op[m]
    BY <1>3, <1>11, <2>2, OpUpdate DEF FleetTypeOK, o
  <2>5. /\ op'[n].kind = "create" /\ op'[n].pc = "wire" /\ Vm(n)' = w
        /\ Claimed(n)' = w
    BY <2>3, <2>4 DEF Vm, Claimed, Creates
  <2>6. CreateOp(n)'
    <3>1. \A u \in Vms : Present(u)' => row'[u].name # n
      BY <1>3, <1>4, <1>5 DEF Present, NamesUnique
    <3> QED
      BY <2>1, <2>5, <3>1 DEF CreateOp
  <2>7. Claims(n)'
    BY <1>4, <1>8, <2>1, <2>5 DEF Claims, Present, HistTo
  <2>8. OpInv(n)'
    BY <2>5, <2>6, <2>7 DEF OpInv, RowOp, SuspendOp, ResumeOp, DestroyOp, ForkOp,
                            RowKinds, Suspends, Destroys
  <2>9. FleetTypeOK' /\ Frame(n)
    BY <1>2, <1>3, <1>4, <1>6, <1>7, <1>8, <2>4
       DEF FleetTypeOK, Frame, MemTo, HostTo, HistTo
  <2> QED
    BY <1>1, <1>2, <1>5, <1>8, <1>9, <2>1, <2>5, <2>8, <2>9, LocalStep
       DEF Present, HistTo
<1> QED
  BY <1>3, <1>10, <1>11, UnlockFacts DEF DestroyRetire, FleetTypeOK

-----------------------------------------------------------------------------
(* Creations: they work on a VM that has no row, in the directory of a     *)
(* name that no row has.                                                   *)

\* What a creation finds.
LEMMA CreateContext ==
    ASSUME FleetInv, NEW n \in Names, op[n].kind \in Creates
    PROVE  /\ Vm(n) \in Vms /\ ~Present(Vm(n)) /\ Vm(n) \notin hist.lost
           /\ ~host[Vm(n)].bak /\ Claimed(n) = Vm(n)
           /\ FleetTypeOK /\ OpInv(n) /\ VmInv(Vm(n))
           /\ op[n].kind \notin RowKinds /\ op[n].kind \notin {"replace", "source"}
<1>1. OpInv(n) /\ FleetTypeOK /\ Claimed(n) = Vm(n)
  BY DEF FleetInv, Claimed, Vm
<1>2. Vm(n) \in Vms /\ ~Present(Vm(n)) /\ Vm(n) \notin hist.lost
  BY <1>1, VmRowsAssumption DEF OpInv, CreateOp, Claims
<1>3. VmInv(Vm(n))
  BY <1>2 DEF FleetInv
<1>4. ~host[Vm(n)].bak
  BY <1>2, <1>3 DEF VmInv, Sleeps, Present
<1> QED
  BY <1>1, <1>2, <1>3, <1>4 DEF RowKinds, Creates, Destroys

\* The awaits of a fork at which it still holds its source.
Holding == {"wire", "clone", "alias", "load"}

\* The new values fit what is said of a creation that goes on at pc, in a directory
\* that holds the disk of d.
CreateFits(n, v, pc, i, p, t, d) ==
    /\ p \subseteq {"child"} /\ ("child" \in p => i # "none")
    /\ pc \in {"spawn", "alias", "load", "rehome", "commit"} => d = v
    /\ pc \in {"spawn", "commit"} \/ (op[n].kind = "create" /\ pc = "clone") => t
    /\ pc \in {"rehome", "commit"} => \A m \in Names \ {n} : Claimed(m) # v
    /\ op[n].kind = "fork" /\ pc \in Holding => op[n].pc \in Holding

\* A step of a creation that goes on, in terms of the new values.
LEMMA CreateStep ==
    ASSUME FleetInv, Serving, NEW n \in Names, op[n].kind \in Creates,
           NEW v \in Vms, v = Vm(n), UNCHANGED <<row, daemon>>,
           NEW i, MemTo(v, i), NEW p, NEW l, NEW t, NEW r, HostTo(v, p, l, t, r),
           HistTo(hist.lost), DiskTo(n), NEW pc, OpTo(n, pc),
           CreateFits(n, v, pc, i, p, t, disk'[n])
    PROVE  FleetInv'
<1>1. /\ ~Present(v) /\ v \notin hist.lost /\ ~host[v].bak /\ Claimed(n) = v
      /\ FleetTypeOK /\ OpInv(n) /\ VmInv(v) /\ op[n].kind \notin RowKinds
      /\ op[n].kind \notin {"replace", "source"}
  BY CreateContext
<1>2. FleetTypeOK' /\ Frame(n)
  <2>1. RowTo(v, row[v].state)
    BY <1>1, Untouched
  <2> QED
    BY <1>1, <2>1, FrameFacts
<1>3. /\ row'[v] = row[v] /\ mem'[v].inst = i /\ mem'[v].condemned = mem[v].condemned
      /\ host'[v].procs = p /\ host'[v].tap = t /\ host'[v].bak = host[v].bak
      /\ hist'.lost = hist.lost /\ daemon' = daemon
  BY DEF MemTo, HostTo, HistTo
<1>4. VmInv(v)'
  BY <1>1, <1>3 DEF CreateFits, VmInv, Processes, Sleeps, Saved, HasDisk, Wired,
                    Expected, Present, Alive, Serving
<1>5. /\ op'[n].kind = op[n].kind /\ op'[n].vm = v /\ op'[n].other = op[n].other
      /\ op'[n].pc = pc /\ Vm(n)' = v /\ Claimed(n)' = v
  BY <1>1 DEF OpTo, Vm, Claimed
<1>6. Claims(n)'
  BY <1>1, <1>3, <1>5 DEF Claims, Present
<1>7. CreateOp(n)'
  <2>1. \A m \in Names \ {n} : Claimed(m)' = Claimed(m)
    BY DEF OpTo, Claimed
  <2>2. \A w \in Vms : Present(w)' => row'[w].name # n
    BY <1>1 DEF OpInv, CreateOp, Present
  <2> QED
    BY <1>3, <1>5, <2>1, <2>2 DEF CreateFits, CreateOp
<1>8. ForkOp(n)'
  <2> SUFFICES ASSUME op[n].kind = "fork", pc \in Holding PROVE ForkOp(n)'
    BY <1>5 DEF ForkOp, Holding
  <2> DEFINE s == op[n].other
  <2>1. /\ s \in Vms /\ row[s].state \in {"suspended", "stopped"} /\ Asleep(s)
        /\ Paired(row[s].name, n) /\ op[row[s].name].other = Vm(n)
    BY <1>1 DEF CreateFits, OpInv, ForkOp, Holding
  <2>2. s # v /\ row[s].name \in Names /\ row[s].name # n
    BY <1>1, <2>1, FieldTypes DEF Paired, Present
  <2>3. op'[row[s].name] = op[row[s].name] /\ row'[s] = row[s] /\ host'[s] = host[s]
    BY <2>1, <2>2 DEF OpTo, HostTo
  <2> QED
    BY <1>5, <2>1, <2>3 DEF ForkOp, Paired, Asleep
<1>9. OpInv(n)'
  BY <1>1, <1>5, <1>6, <1>7, <1>8
     DEF OpInv, RowOp, SuspendOp, ResumeOp, DestroyOp, RowKinds, Suspends
<1> QED
  BY <1>1, <1>2, <1>3, <1>4, <1>5, <1>9, LocalStep DEF Present

\* The steps of a creation that touch nothing but its own VM.
LEMMA CreateSteps ==
    ASSUME FleetInv, NEW n \in Names,
           CreateWire(n) \/ CreateDisk(n) \/ CreateSpawn(n) \/ ForkRehome(n)
    PROVE  FleetInv'
<1>1. /\ Serving /\ op[n].kind \in Creates /\ UNCHANGED <<row, daemon>>
      /\ "fork" \in Creates /\ "create" \in Creates
  BY DEF CreateWire, CreateDisk, CreateSpawn, ForkRehome, At, Creates
<1>2. PICK v \in Vms : v = Vm(n)
  BY <1>1, CreateContext
<1>3. /\ FleetTypeOK /\ CreateOp(n)
      /\ host[v].procs \subseteq {"child"}
      /\ "child" \in host[v].procs => mem[v].inst # "none"
  BY <1>1, <1>2, CreateContext
     DEF OpInv, VmInv, Processes, Alive
<1>4. CASE CreateWire(n)
  <2>1. UNCHANGED <<mem, disk>> /\ op[n].pc = "wire" /\ op[n].pc \in Holding
    BY <1>4 DEF CreateWire, At, Holding
  <2>2. MemTo(v, mem[v].inst) /\ DiskTo(n)
    BY <1>3, <2>1, Untouched DEF DiskTo, FleetTypeOK
  <2>3. CASE SetTap(v, op[n].kind = "create") /\ Goto(n, "clone") /\ UNCHANGED hist
    <3>1. /\ HostTo(v, host[v].procs, host[v].slot, op[n].kind = "create", host[v].ran)
          /\ OpTo(n, "clone") /\ HistTo(hist.lost)
      BY <1>3, <2>3, FieldTypes, TapFacts, GotoFacts, Untouched, Literals
    <3>2. CreateFits(n, v, "clone", mem[v].inst, host[v].procs,
                     op[n].kind = "create", disk'[n])
      BY <1>1, <1>2, <1>3, <2>1, <2>2, <3>1 DEF CreateFits, CreateOp, Holding
    <3> QED
      BY <1>1, <1>2, <2>1, <2>2, <3>1, <3>2, CreateStep
  <2>4. CASE Fault /\ Goto(n, "rollback") /\ UNCHANGED host
    <3>1. /\ HostTo(v, host[v].procs, host[v].slot, host[v].tap, host[v].ran)
          /\ OpTo(n, "rollback") /\ HistTo(hist.lost)
      BY <1>3, <2>4, FieldTypes, FaultFacts, GotoFacts, Untouched, Literals
    <3>2. CreateFits(n, v, "rollback", mem[v].inst, host[v].procs,
                     host[v].tap, disk'[n])
      BY <1>1, <1>2, <1>3, <2>1, <2>2, <3>1 DEF CreateFits, CreateOp, Holding
    <3> QED
      BY <1>1, <1>2, <2>1, <2>2, <3>1, <3>2, CreateStep
  <2> QED
    BY <1>2, <1>4, <2>3, <2>4 DEF CreateWire
<1>5. CASE CreateDisk(n)
  <2>1. UNCHANGED <<mem, host>> /\ op[n].pc = "clone" /\ op[n].pc \in Holding
    BY <1>5 DEF CreateDisk, At, Holding
  <2>2. DiskTo(n) /\ disk'[n] = v
    BY <1>2, <1>3, <1>5 DEF CreateDisk, DiskTo, FleetTypeOK
  <2>3. /\ MemTo(v, mem[v].inst)
        /\ HostTo(v, host[v].procs, host[v].slot, host[v].tap, host[v].ran)
    BY <1>3, <2>1, Untouched
  <2>4. CASE op[n].kind = "create" /\ Goto(n, "spawn") /\ UNCHANGED hist
    <3>1. OpTo(n, "spawn") /\ HistTo(hist.lost)
      BY <1>3, <2>4, FieldTypes, GotoFacts, Untouched, Literals
    <3>2. CreateFits(n, v, "spawn", mem[v].inst, host[v].procs,
                     host[v].tap, disk'[n])
      BY <1>1, <1>2, <1>3, <2>1, <2>2, <2>3, <2>4, <3>1 DEF CreateFits, CreateOp, Holding
    <3> QED
      BY <1>1, <1>2, <2>1, <2>2, <2>3, <3>1, <3>2, CreateStep
  <2>5. CASE Goto(n, "alias") /\ UNCHANGED hist
    <3>1. OpTo(n, "alias") /\ HistTo(hist.lost)
      BY <1>3, <2>5, FieldTypes, GotoFacts, Untouched, Literals
    <3>2. CreateFits(n, v, "alias", mem[v].inst, host[v].procs,
                     host[v].tap, disk'[n])
      BY <1>1, <1>2, <1>3, <2>1, <2>2, <2>3, <3>1 DEF CreateFits, CreateOp, Holding
    <3> QED
      BY <1>1, <1>2, <2>1, <2>2, <2>3, <3>1, <3>2, CreateStep
  <2>6. CASE Fault /\ Goto(n, "rollback")
    <3>1. OpTo(n, "rollback") /\ HistTo(hist.lost)
      BY <1>3, <2>6, FieldTypes, FaultFacts, GotoFacts, Literals
    <3>2. CreateFits(n, v, "rollback", mem[v].inst, host[v].procs,
                     host[v].tap, disk'[n])
      BY <1>1, <1>2, <1>3, <2>1, <2>2, <2>3, <3>1 DEF CreateFits, CreateOp, Holding
    <3> QED
      BY <1>1, <1>2, <2>1, <2>2, <2>3, <3>1, <3>2, CreateStep
  <2> QED
    BY <1>5, <2>4, <2>5, <2>6 DEF CreateDisk
<1>6. CASE CreateSpawn(n)
  <2>1. /\ UNCHANGED disk /\ op[n].pc = "spawn" /\ op[n].kind = "create"
        /\ "commit" \notin Holding /\ "rollback" \notin Holding
    BY <1>6 DEF CreateSpawn, At, Holding
  <2>2. DiskTo(n) /\ disk'[n] = v /\ host[v].tap
    BY <1>1, <1>2, <1>3, <2>1 DEF CreateOp, DiskTo, FleetTypeOK
  <2>3. \A m \in Names \ {n} : Claimed(m) # v
    BY <1>1, <1>2, <2>1, OwnApart
  <2>4. CASE Spawned(v, "running") /\ Goto(n, "commit") /\ UNCHANGED hist
    <3>1. /\ HostTo(v, host[v].procs \cup {"child"}, host[v].slot, host[v].tap,
                    host[v].slot # "none")
          /\ MemTo(v, "running") /\ OpTo(n, "commit") /\ HistTo(hist.lost)
      BY <1>3, <2>4, FieldTypes, SpawnedFacts, GotoFacts, Untouched, Literals DEF Insts
    <3>2. CreateFits(n, v, "commit", "running", host[v].procs \cup {"child"},
                     host[v].tap, disk'[n])
      BY <1>1, <1>2, <1>3, <2>1, <2>2, <2>3, <3>1 DEF CreateFits, CreateOp, Holding
    <3> QED
      BY <1>1, <1>2, <2>1, <2>2, <2>3, <3>1, <3>2, CreateStep
  <2>5. CASE Spawned(v, "failed") /\ Goto(n, "rollback") /\ Fault
    <3>1. /\ HostTo(v, host[v].procs \cup {"child"}, host[v].slot, host[v].tap,
                    host[v].slot # "none")
          /\ MemTo(v, "failed") /\ OpTo(n, "rollback") /\ HistTo(hist.lost)
      BY <1>3, <2>5, FieldTypes, SpawnedFacts, GotoFacts, FaultFacts, Literals DEF Insts
    <3>2. CreateFits(n, v, "rollback", "failed", host[v].procs \cup {"child"},
                     host[v].tap, disk'[n])
      BY <1>1, <1>2, <1>3, <2>1, <2>2, <3>1 DEF CreateFits, CreateOp, Holding
    <3> QED
      BY <1>1, <1>2, <2>1, <2>2, <3>1, <3>2, CreateStep
  <2> QED
    BY <1>2, <1>6, <2>4, <2>5 DEF CreateSpawn
<1>7. CASE ForkRehome(n)
  <2>1. /\ UNCHANGED <<mem, disk>> /\ op[n].pc = "rehome"
        /\ "commit" \notin Holding /\ "rollback" \notin Holding
    BY <1>7 DEF ForkRehome, At, Holding
  <2>2. /\ DiskTo(n) /\ disk'[n] = v /\ MemTo(v, mem[v].inst)
        /\ \A m \in Names \ {n} : Claimed(m) # v
    BY <1>1, <1>2, <1>3, <2>1, Untouched DEF CreateOp, DiskTo, FleetTypeOK
  <2>3. CASE SetTap(v, TRUE) /\ Goto(n, "commit") /\ UNCHANGED hist
    <3>1. /\ HostTo(v, host[v].procs, host[v].slot, TRUE, host[v].ran)
          /\ OpTo(n, "commit") /\ HistTo(hist.lost)
      BY <1>3, <2>3, FieldTypes, TapFacts, GotoFacts, Untouched, Literals
    <3>2. CreateFits(n, v, "commit", mem[v].inst, host[v].procs, TRUE, disk'[n])
      BY <1>1, <1>2, <1>3, <2>1, <2>2, <3>1 DEF CreateFits, CreateOp, Holding
    <3> QED
      BY <1>1, <1>2, <2>1, <2>2, <3>1, <3>2, CreateStep
  <2>4. CASE Goto(n, "rollback") /\ UNCHANGED host /\ (Fault \/ UNCHANGED hist)
    <3>1. /\ HostTo(v, host[v].procs, host[v].slot, host[v].tap, host[v].ran)
          /\ OpTo(n, "rollback") /\ HistTo(hist.lost)
      BY <1>3, <2>4, FieldTypes, FaultFacts, GotoFacts, Untouched, Literals
    <3>2. CreateFits(n, v, "rollback", mem[v].inst, host[v].procs,
                     host[v].tap, disk'[n])
      BY <1>1, <1>2, <1>3, <2>1, <2>2, <3>1 DEF CreateFits, CreateOp, Holding
    <3> QED
      BY <1>1, <1>2, <2>1, <2>2, <3>1, <3>2, CreateStep
  <2> QED
    BY <1>2, <1>7, <2>3, <2>4 DEF ForkRehome
<1> QED
  BY <1>4, <1>5, <1>6, <1>7

-----------------------------------------------------------------------------
(* Operations begin.                                                       *)

\* The lock of a row's name is taken for an operation on the row.
LEMMA RowLock ==
    ASSUME FleetInv, Serving, NEW v \in Vms, NEW n \in Names, n = row[v].name,
           NEW k \in RowKinds \ {"replace"}, NEW pc \in Awaits, Lock(n, k, v, pc),
           UNCHANGED <<row, host, disk, daemon>>, HistTo(hist.lost),
           mem' \in [Vms -> Memories],
           \A u \in Vms : /\ mem'[u].inst = mem[u].inst
                          /\ mem'[u].condemned => mem[u].condemned,
           Present(v) \/ (k \in Destroys /\ v \in hist.lost),
           k \in Destroys => pc = "check",
           k \notin Destroys => ~host[v].bak /\ row[v].state # "stopped",
           k \in Suspends => row[v].state \in Live /\ pc = "cancel",
           k = "resume" => pc \in {"unpause", "rewire"}
    PROVE  FleetInv'
<1>1. FleetTypeOK /\ VmInv(v) /\ k \in Kinds
  BY DEF FleetInv, RowKinds, Destroys, Kinds
<1>2. /\ op' \in [Names -> Operations] /\ op[n] = NoOp
      /\ op'[n].kind = k /\ op'[n].vm = v /\ op'[n].other = NoVm
      /\ op'[n].pc = pc /\ op'[n].was = row[v].state
      /\ \A m \in Names \ {n} : op'[m] = op[m]
  BY <1>1, LockFacts DEF FleetTypeOK
<1>3. FleetTypeOK' /\ hist'.lost = hist.lost
  BY <1>1, <1>2 DEF FleetTypeOK, HistTo
<1>4. k \notin Creates \cup {"replace", "source", "fork"}
  BY DEF RowKinds, Creates, Destroys
<1>5. Claimed(n)' = NoVm /\ Vm(n)' = v
  BY <1>2, <1>4 DEF Claimed, Vm
<1>6. RowOp(n)'
  <2>1. k \notin Destroys /\ Alive(v) => host[v].tap
    BY <1>1 DEF VmInv, Wired, Present
  <2> QED
    BY <1>2, <1>3, <1>5, <2>1 DEF RowOp, Present, Alive
<1>7. (SuspendOp(n) /\ ResumeOp(n) /\ DestroyOp(n))'
  BY <1>2, <1>5 DEF SuspendOp, ResumeOp, DestroyOp, Live
<1>8. OpInv(n)'
  BY <1>2, <1>4, <1>5, <1>6, <1>7 DEF OpInv, CreateOp, ForkOp, Claims
<1> QED
  BY <1>2, <1>3, <1>5, <1>8, LockStep

\* resume_vm, however it was asked for.
LEMMA ResumeLock ==
    ASSUME FleetInv, NEW v \in Vms, BeginResume(v), Serving, HistTo(hist.lost)
    PROVE  FleetInv'
<1>1. FleetTypeOK /\ row[v].name \in Names
  BY FieldTypes DEF FleetInv
<1>2. PICK pc \in {"unpause", "rewire"} : Lock(row[v].name, "resume", v, pc)
  BY DEF BeginResume, Begin
<1>3. /\ row[v].state \in {"paused", "suspended"} /\ ~host[v].bak
      /\ UNCHANGED <<row, mem, host, disk, daemon>>
  BY DEF BeginResume, Begin, Reconciled
<1>4. "resume" \in RowKinds /\ "resume" \notin Destroys \cup Suspends /\ pc \in Awaits
  BY DEF RowKinds, Destroys, Suspends, Awaits
<1> QED
  BY <1>1, <1>2, <1>3, <1>4, RowLock DEF Present, FleetTypeOK

\* One memory record changes; the instance stays, and nothing is condemned by it.
LEMMA MemKept ==
    ASSUME FleetTypeOK, NEW v \in Vms, NEW m \in Memories, SetMem(v, m),
           m.inst = mem[v].inst, m.condemned => mem[v].condemned
    PROVE  /\ mem' \in [Vms -> Memories]
           /\ \A u \in Vms : /\ mem'[u].inst = mem[u].inst
                             /\ mem'[u].condemned => mem[u].condemned
  BY MemUpdate DEF FleetTypeOK

\* The calls of clients and of the daemon's loops that take a lock.
LEMMA RowLocks ==
    ASSUME FleetInv, NEW v \in Vms,
           \/ SuspendVm(v) \/ ResumeVm(v) \/ StopVm(v) \/ PauseVm(v)
           \/ DestroyLock(v) \/ IdleAct(v) \/ ConnectWake(v)
           \/ \E p \in Ports : ListenerWake(p, v)
    PROVE  FleetInv'
<1>1. FleetTypeOK /\ row[v].name \in Names /\ VmInv(v)
  BY FieldTypes DEF FleetInv
<1>2. /\ {"suspend", "idle", "stop", "pause", "destroy", "reap"}
            \subseteq RowKinds \ {"replace"}
      /\ {"suspend", "idle", "stop", "pause"} \cap Destroys = {}
      /\ {"stop", "pause", "destroy", "reap"} \cap Suspends = {}
      /\ {"cancel", "discard", "check"} \subseteq Awaits
      /\ {"destroy", "reap"} \subseteq Destroys
  BY DEF RowKinds, Destroys, Suspends, Awaits
<1>3. ASSUME NEW c, Call(c) PROVE HistTo(hist.lost) /\ Serving
  BY <1>1, <1>3, CallFacts DEF Serving
<1>4. row[v].state \in Live => ~host[v].bak
  BY <1>1 DEF VmInv, Sleeps, Live
<1>5. \A u \in Vms : /\ mem[u].inst = mem[u].inst
                     /\ mem[u].condemned => mem[u].condemned
  OBVIOUS
<1>6. CASE SuspendVm(v)
  <2>1. /\ Lock(row[v].name, "suspend", v, "cancel") /\ row[v].state \in Live
        /\ UNCHANGED <<row, mem, host, disk, daemon>> /\ Call("suspend")
    BY <1>6 DEF SuspendVm, Begin
  <2> QED
    BY <1>1, <1>2, <1>3, <1>4, <2>1, RowLock DEF Present, FleetTypeOK, Live
<1>7. CASE ResumeVm(v)
  BY <1>3, <1>7, ResumeLock DEF ResumeVm
<1>8. CASE StopVm(v)
  <2>1. PICK pc \in {"discard", "cancel"} : Lock(row[v].name, "stop", v, pc)
    BY <1>8 DEF StopVm, Begin
  <2>2. /\ row[v].state \in Live \cup {"suspended"} /\ ~host[v].bak
        /\ UNCHANGED <<row, mem, host, disk, daemon>> /\ Call("stop")
    BY <1>8 DEF StopVm, Begin, Reconciled
  <2> QED
    BY <1>1, <1>2, <1>3, <2>1, <2>2, RowLock DEF Present, FleetTypeOK, Live
<1>9. CASE PauseVm(v)
  <2>1. /\ Lock(row[v].name, "pause", v, "cancel") /\ row[v].state \in Live
        /\ UNCHANGED <<row, mem, host, disk, daemon>> /\ Call("pause")
    BY <1>9 DEF PauseVm, Begin, Live
  <2> QED
    BY <1>1, <1>2, <1>3, <1>4, <2>1, RowLock DEF Present, FleetTypeOK, Live
<1>10. CASE DestroyLock(v)
  <2> DEFINE m == [mem[v] EXCEPT !.condemned = FALSE]
  <2>1. mem[v] \in Memories
    BY <1>1, FieldTypes
  <2>2. m \in Memories /\ m.inst = mem[v].inst /\ ~m.condemned
    BY <2>1 DEF Memories
  <2>3. /\ Lock(row[v].name, "destroy", v, "check") /\ SetMem(v, m) /\ Serving
        /\ mem[v].condemned /\ UNCHANGED <<row, host, disk, daemon, hist>>
    BY <1>10 DEF DestroyLock
  <2> HIDE DEF m
  <2>4. /\ mem' \in [Vms -> Memories]
        /\ \A u \in Vms : /\ mem'[u].inst = mem[u].inst
                          /\ mem'[u].condemned => mem[u].condemned
    BY <1>1, <2>2, <2>3, MemKept
  <2>5. Present(v) \/ v \in hist.lost
    BY <1>1, <2>3 DEF VmInv, Expected
  <2>6. HistTo(hist.lost)
    BY <1>1, <2>3, Untouched
  <2> QED
    BY <1>1, <1>2, <2>3, <2>4, <2>5, <2>6, RowLock
<1>11. CASE IdleAct(v)
  <2> DEFINE m == [mem[v] EXCEPT !.verdict = "none"]
  <2>1. mem[v] \in Memories
    BY <1>1, FieldTypes
  <2>2. m \in Memories /\ m.inst = mem[v].inst /\ m.condemned = mem[v].condemned
    BY <2>1 DEF Memories
  <2>3. SetMem(v, m) /\ Serving /\ UNCHANGED <<row, host, disk, daemon, hist>>
    BY <1>11 DEF IdleAct, polRest
  <2>4. \/ /\ row[v].state = "running" /\ Lock(row[v].name, "idle", v, "cancel")
        \/ /\ Present(v) /\ Lock(row[v].name, "reap", v, "check")
        \/ UNCHANGED op
    BY <1>11 DEF IdleAct, EvaluatePolicy, Present
  <2> HIDE DEF m
  <2>5. /\ mem' \in [Vms -> Memories]
        /\ \A u \in Vms : /\ mem'[u].inst = mem[u].inst
                          /\ mem'[u].condemned => mem[u].condemned
    BY <1>1, <2>2, <2>3, MemKept
  <2>6. HistTo(hist.lost)
    BY <1>1, <2>3, Untouched
  <2>7. CASE row[v].state = "running" /\ Lock(row[v].name, "idle", v, "cancel")
    BY <1>1, <1>2, <1>4, <2>3, <2>5, <2>6, <2>7, RowLock DEF Present, Live
  <2>8. CASE Present(v) /\ Lock(row[v].name, "reap", v, "check")
    BY <1>1, <1>2, <2>3, <2>5, <2>6, <2>8, RowLock
  <2>9. CASE UNCHANGED op
    <3>1. \A u \in Vms : Calm(u) /\ (Alive(u)' => mem'[u].inst # "none")
      BY <2>3, <2>5 DEF Calm, Alive, FleetInv, VmInv, Processes
    <3>2. FleetTypeOK' /\ Serving'
      BY <1>1, <2>3, <2>5, <2>9 DEF FleetTypeOK, Serving
    <3> QED
      BY <2>3, <2>5, <2>9, <3>1, <3>2, CalmStep
  <2> QED
    BY <2>4, <2>7, <2>8, <2>9
<1>12. CASE ConnectWake(v)
  BY <1>1, <1>12, ResumeLock, Untouched DEF ConnectWake
<1>13. CASE \E p \in Ports : ListenerWake(p, v)
  BY <1>3, <1>13, ResumeLock DEF ListenerWake
<1> QED
  BY <1>6, <1>7, <1>8, <1>9, <1>10, <1>11, <1>12, <1>13

\* A VM that nothing on the host knows is claimed by nobody.
LEMMA FreshClaim ==
    ASSUME FleetInv, NEW v \in Vms, Fresh(v)
    PROVE  /\ ~Present(v) /\ v \notin hist.lost
           /\ \A m \in Names : Claimed(m) # v
  BY VmRowsAssumption DEF Fresh, Present, Claimed

\* create_vm and fork_vm take their first lock.
LEMMA CreateLocks ==
    ASSUME FleetInv, NEW v \in Vms, NEW n \in Names,
           CreateVm(v, n) \/ \E m \in Names : ForkVm(m, n, v)
    PROVE  FleetInv'
<1>1. FleetTypeOK
  BY DEF FleetInv
<1>2. /\ Fresh(v) /\ \E c : Call(c) /\ UNCHANGED <<row, mem, host, disk, daemon>>
  BY DEF CreateVm, ForkVm
<1>3. HistTo(hist.lost) /\ Serving
  BY <1>1, <1>2, CallFacts DEF Serving
<1>4. ~Present(v) /\ v \notin hist.lost /\ \A m \in Names : Claimed(m) # v
  BY <1>2, FreshClaim
<1>5. ASSUME NEW m \in Names, op[m] = NoOp, NEW o \in Operations, SetOp(m, o)
      PROVE  /\ FleetTypeOK' /\ op'[m] = o /\ \A k \in Names \ {m} : op'[k] = op[k]
             /\ hist'.lost = hist.lost
  <2>1. /\ op' \in [Names -> Operations] /\ op'[m] = o
        /\ \A k \in Names \ {m} : op'[k] = op[k]
    BY <1>1, <1>5, OpUpdate DEF FleetTypeOK
  <2> QED
    BY <1>1, <1>2, <1>3, <2>1 DEF FleetTypeOK, HistTo
<1>6. \A u \in Vms : /\ mem'[u].inst = mem[u].inst
                     /\ mem'[u].condemned => mem[u].condemned
  BY <1>2
<1>7. CASE /\ op[n] = NoOp /\ Owners(n) = {} /\ SetOp(n, Creation("create", v, NoVm))
  <2> DEFINE o == Creation("create", v, NoVm)
  <2>1. o \in Operations
    BY VmRowsAssumption, Literals DEF Creation, Holder, Operations
  <2>2. o.kind = "create" /\ o.vm = v /\ o.pc = "wire"
    BY DEF Creation, Holder
  <2>3. /\ FleetTypeOK' /\ op'[n] = o /\ \A k \in Names \ {n} : op'[k] = op[k]
        /\ hist'.lost = hist.lost
    BY <1>5, <1>7, <2>1
  <2> HIDE DEF o
  <2>4. Vm(n)' = v /\ Claimed(n)' = v /\ op'[n].kind = "create" /\ op'[n].pc = "wire"
    BY <2>2, <2>3 DEF Vm, Claimed, Creates
  <2>5. CreateOp(n)' /\ Claims(n)'
    BY <1>2, <1>4, <1>7, <2>3, <2>4 DEF CreateOp, Claims, Owners, Present
  <2>6. OpInv(n)'
    BY <2>4, <2>5 DEF OpInv, RowOp, SuspendOp, ResumeOp, DestroyOp, ForkOp,
                      RowKinds, Suspends, Destroys
  <2> QED
    BY <1>2, <1>3, <1>4, <1>6, <1>7, <2>3, <2>4, <2>6, LockStep
<1>8. ASSUME op[n] = NoOp, NEW w \in Owners(n), row[w].state = "stopped",
             SetOp(n, Holder("replace", w, v, NoVm, "check", "absent"))
      PROVE  FleetInv'
  <2> DEFINE o == Holder("replace", w, v, NoVm, "check", "absent")
  <2>0. w \in Vms /\ Present(w) /\ row[w].name = n
    BY DEF Owners, Present
  <2>1. o \in Operations
    BY <2>0, VmRowsAssumption, Literals DEF Holder, Operations
  <2>2. o.kind = "replace" /\ o.vm = w /\ o.other = v /\ o.pc = "check"
    BY DEF Holder
  <2>3. /\ FleetTypeOK' /\ op'[n] = o /\ \A k \in Names \ {n} : op'[k] = op[k]
        /\ hist'.lost = hist.lost
    BY <1>5, <1>8, <2>1
  <2> HIDE DEF o
  <2>4. /\ Vm(n)' = w /\ Claimed(n)' = v /\ op'[n].kind = "replace"
        /\ op'[n].pc = "check" /\ op'[n].other = v
    BY <2>2, <2>3 DEF Vm, Claimed, Creates
  <2>5. RowOp(n)'
    BY <1>2, <2>0, <2>4 DEF RowOp, Present, Destroys
  <2>6. Claims(n)'
    BY <1>2, <1>4, <2>3, <2>4 DEF Claims, Present
  <2>7. OpInv(n)'
    BY <2>4, <2>5, <2>6 DEF OpInv, SuspendOp, ResumeOp, DestroyOp, CreateOp, ForkOp,
                            Suspends, Destroys, Creates
  <2> QED
    BY <1>2, <1>3, <1>4, <1>6, <1>8, <2>3, <2>4, <2>7, LockStep
<1>9. ASSUME NEW m \in Names, op[m] = NoOp,
             SetOp(m, Holder("source", NoVm, v, n, "wait", "absent"))
      PROVE  FleetInv'
  <2> DEFINE o == Holder("source", NoVm, v, n, "wait", "absent")
  <2>1. o \in Operations
    BY VmRowsAssumption, Literals DEF Holder, Operations
  <2>2. o.kind = "source" /\ o.other = v /\ o.to = n /\ o.pc = "wait"
    BY DEF Holder
  <2>3. /\ FleetTypeOK' /\ op'[m] = o /\ \A k \in Names \ {m} : op'[k] = op[k]
        /\ hist'.lost = hist.lost
    BY <1>5, <1>9, <2>1
  <2> HIDE DEF o
  <2>4. /\ Claimed(m)' = v /\ op'[m].kind = "source" /\ op'[m].other = v
        /\ op'[m].to = n
    BY <2>2, <2>3 DEF Claimed, Creates
  <2>5. Claims(m)'
    BY <1>2, <1>4, <2>3, <2>4 DEF Claims, Present
  <2>6. OpInv(m)'
    BY <2>4, <2>5 DEF OpInv, RowOp, SuspendOp, ResumeOp, DestroyOp, CreateOp, ForkOp,
                      RowKinds, Suspends, Destroys, Creates
  <2> QED
    BY <1>2, <1>3, <1>4, <1>6, <1>9, <2>3, <2>4, <2>6, LockStep
<1> QED
  BY <1>7, <1>8, <1>9 DEF CreateVm, ForkVm, Locked

-----------------------------------------------------------------------------
(* What happens to a VM without its lock.                                  *)

\* Such a step, in terms of the new values.
LEMMA Bystander ==
    ASSUME FleetInv, Serving, NEW v \in Vms, NEW s, RowTo(v, s),
           s = row[v].state \/ (Present(v) /\ s = "stopped"),
           mem' \in [Vms -> Memories], \A u \in Vms \ {v} : mem'[u] = mem[u],
           NEW p, HostTo(v, p, host[v].slot, host[v].tap, host[v].ran),
           p \subseteq host[v].procs, "child" \in p => mem'[v].inst # "none",
           mem'[v].condemned => mem[v].condemned \/ Present(v),
           UNCHANGED <<op, disk, daemon>>, HistTo(hist.lost)
    PROVE  FleetInv'
<1>1. FleetTypeOK' /\ Serving' /\ hist'.lost = hist.lost
  BY DEF FleetInv, FleetTypeOK, RowTo, HostTo, HistTo, Serving
<1>2. ASSUME NEW u \in Vms
      PROVE  /\ Calm(u)
             /\ Alive(u)' => mem'[u].inst # "none"
             /\ mem'[u].condemned => mem[u].condemned \/ Present(u)
             /\ host'[u].tap = host[u].tap
  <2>1. CASE u = v
    BY <2>1 DEF RowTo, HostTo, Calm, Alive
  <2>2. CASE u # v
    <3>1. row'[u] = row[u] /\ mem'[u] = mem[u] /\ host'[u] = host[u]
      BY <2>2 DEF RowTo, HostTo
    <3>2. VmInv(u)
      BY DEF FleetInv
    <3> QED
      BY <3>1, <3>2 DEF Calm, VmInv, Processes, Alive
  <2> QED
    BY <2>1, <2>2
<1> QED
  BY <1>1, <1>2, CalmStep

\* The daemon remembers something else about a VM.
LEMMA Remembered ==
    ASSUME FleetInv, Serving, NEW v \in Vms, NEW m \in Memories, SetMem(v, m),
           m.inst # "none" \/ m.inst = mem[v].inst,
           m.condemned => mem[v].condemned \/ Present(v),
           NEW s, RowTo(v, s), s = row[v].state \/ (Present(v) /\ s = "stopped"),
           UNCHANGED <<host, op, disk, daemon>>, HistTo(hist.lost)
    PROVE  FleetInv'
<1>1. FleetTypeOK /\ VmInv(v)
  BY DEF FleetInv
<1>2. mem' \in [Vms -> Memories] /\ mem'[v] = m /\ \A u \in Vms \ {v} : mem'[u] = mem[u]
  BY <1>1, MemUpdate DEF FleetTypeOK
<1>3. HostTo(v, host[v].procs, host[v].slot, host[v].tap, host[v].ran)
  BY <1>1, Untouched
<1>4. "child" \in host[v].procs => m.inst # "none"
  BY <1>1 DEF VmInv, Processes, Alive
<1> QED
  BY <1>2, <1>3, <1>4, Bystander

\* The steps that only change the memory of the daemon.
LEMMA MemorySteps ==
    ASSUME FleetInv, NEW v \in Vms,
           \/ DestroyVm(v) \/ AgentConnect(v) \/ ConnectFind(v) \/ ConnectDial(v)
           \/ ConnectClose(v) \/ ProbeRead(v) \/ ProbeAsk(v) \/ IdleDecide(v)
    PROVE  FleetInv'
<1>1. FleetTypeOK /\ mem[v] \in Memories /\ mem[v].inst \in Insts
  BY FieldTypes DEF FleetInv
<1>2. /\ UNCHANGED <<row, host, op, disk, daemon>>
      /\ UNCHANGED hist \/ \E c : Call(c)
      /\ Serving
  BY DEF DestroyVm, AgentConnect, ConnectFind, ConnectDial, ConnectClose, ProbeRead,
         ProbeAsk, IdleDecide, polRest, Call, Serving
<1>3. RowTo(v, row[v].state) /\ HistTo(hist.lost)
  BY <1>1, <1>2, Untouched, CallFacts
<1>4. ASSUME NEW m \in Memories, SetMem(v, m), m.inst # "none" \/ m.inst = mem[v].inst,
             m.condemned => mem[v].condemned \/ Present(v)
      PROVE  FleetInv'
  BY <1>2, <1>3, <1>4, Remembered
<1>5. CASE DestroyVm(v)
  <2> DEFINE m == [mem[v] EXCEPT !.condemned = TRUE]
  <2>1. m \in Memories /\ m.inst = mem[v].inst
    BY <1>1 DEF Memories
  <2>2. SetMem(v, m) /\ Present(v)
    BY <1>5 DEF DestroyVm, Present
  <2> HIDE DEF m
  <2> QED
    BY <1>4, <2>1, <2>2
<1>6. CASE AgentConnect(v)
  <2> DEFINE m == [mem[v] EXCEPT !.conn = "asked"]
  <2>1. m \in Memories /\ m.inst = mem[v].inst /\ m.condemned = mem[v].condemned
    BY <1>1 DEF Memories
  <2>2. SetMem(v, m)
    BY <1>6 DEF AgentConnect
  <2> HIDE DEF m
  <2> QED
    BY <1>4, <2>1, <2>2
<1>7. CASE ConnectFind(v)
  <2>0. PICK c \in {"found", "none"} : SetMem(v, [mem[v] EXCEPT !.conn = c])
    BY <1>7 DEF ConnectFind
  <2> DEFINE m == [mem[v] EXCEPT !.conn = c]
  <2>1. m \in Memories /\ m.inst = mem[v].inst /\ m.condemned = mem[v].condemned
    BY <1>1 DEF Memories
  <2> HIDE DEF m
  <2> QED
    BY <1>4, <2>0, <2>1 DEF m
<1>8. CASE ConnectDial(v)
  <2>1. CASE SetMem(v, [mem[v] EXCEPT !.conn = "none"])
    <3>1. LET m == [mem[v] EXCEPT !.conn = "none"] IN
          m \in Memories /\ m.inst = mem[v].inst /\ m.condemned = mem[v].condemned
      BY <1>1 DEF Memories
    <3> QED
      BY <1>4, <2>1, <3>1
  <2>2. CASE SetMem(v, [mem[v] EXCEPT !.conn = "open", !.sessions = @ + 1])
    <3> DEFINE k == mem[v].sessions + 1
    <3>1. k \in 0..MaxSessions
      BY <1>1, <1>8, VmRowsAssumption DEF Memories, ConnectDial
    <3>2. SetMem(v, [mem[v] EXCEPT !.conn = "open", !.sessions = k])
      BY <2>2
    <3> HIDE DEF k
    <3>3. LET m == [mem[v] EXCEPT !.conn = "open", !.sessions = k] IN
          m \in Memories /\ m.inst = mem[v].inst /\ m.condemned = mem[v].condemned
      BY <1>1, <3>1 DEF Memories
    <3> QED
      BY <1>4, <3>2, <3>3
  <2> QED
    BY <1>8, <2>1, <2>2 DEF ConnectDial
<1>9. CASE ConnectClose(v)
  <2> DEFINE k == IF mem[v].sessions > 0 THEN mem[v].sessions - 1 ELSE 0
  <2>1. k \in 0..MaxSessions
    BY <1>1, VmRowsAssumption DEF Memories
  <2>2. SetMem(v, [mem[v] EXCEPT !.conn = "none", !.sessions = k])
    BY <1>9 DEF ConnectClose
  <2> HIDE DEF k
  <2>3. LET m == [mem[v] EXCEPT !.conn = "none", !.sessions = k] IN
        m \in Memories /\ m.inst = mem[v].inst /\ m.condemned = mem[v].condemned
    BY <1>1, <2>1 DEF Memories
  <2> QED
    BY <1>4, <2>2, <2>3
<1>10. CASE ProbeRead(v)
  <2> DEFINE m == [mem[v] EXCEPT !.probe = "read"]
  <2>1. m \in Memories /\ m.inst = mem[v].inst /\ m.condemned = mem[v].condemned
    BY <1>1 DEF Memories
  <2>2. SetMem(v, m)
    BY <1>10 DEF ProbeRead
  <2> HIDE DEF m
  <2> QED
    BY <1>4, <2>1, <2>2
<1>11. CASE ProbeAsk(v)
  <2>0. PICK c \in {"none", "gone"} :
           SetMem(v, [mem[v] EXCEPT !.inst = Refreshed(v), !.probe = c])
    BY <1>11 DEF ProbeAsk
  <2> DEFINE i == Refreshed(v)
  <2>1. i \in Insts /\ (i # "none" \/ i = mem[v].inst)
    BY <1>1 DEF Refreshed, Insts
  <2>2. SetMem(v, [mem[v] EXCEPT !.inst = i, !.probe = c])
    BY <2>0
  <2> HIDE DEF i
  <2>3. LET m == [mem[v] EXCEPT !.inst = i, !.probe = c] IN
        m \in Memories /\ m.inst = i /\ m.condemned = mem[v].condemned
    BY <1>1, <2>1 DEF Memories, Insts
  <2> QED
    BY <1>4, <2>1, <2>2, <2>3
<1>12. CASE IdleDecide(v)
  <2> DEFINE d == EvaluatePolicy(v)
  <2>1. d \in {"none", "suspend", "reap"}
    BY DEF EvaluatePolicy
  <2>2. SetMem(v, [mem[v] EXCEPT !.verdict = d])
    BY <1>12 DEF IdleDecide
  <2> HIDE DEF d
  <2>3. LET m == [mem[v] EXCEPT !.verdict = d] IN
        m \in Memories /\ m.inst = mem[v].inst /\ m.condemned = mem[v].condemned
    BY <1>1, <2>1 DEF Memories
  <2> QED
    BY <1>4, <2>2, <2>3
<1> QED
  BY <1>5, <1>6, <1>7, <1>8, <1>9, <1>10, <1>11, <1>12

\* Userdata, probes and the drain change a row without the lock.
LEMMA RowlessSteps ==
    ASSUME FleetInv, NEW v \in Vms,
           \/ RunUserdata(v) \/ SpawnUserdata(v) \/ FinishUserdata(v)
           \/ ProbeMark(v) \/ DrainMark(v)
    PROVE  FleetInv'
<1>1. FleetTypeOK /\ row[v] \in Rows /\ row \in [Vms -> Rows] /\ mem[v] \in Memories
  BY FieldTypes DEF FleetInv
<1>2. /\ UNCHANGED <<host, op, disk, daemon>> /\ Serving
      /\ UNCHANGED hist \/ \E c : Call(c)
  BY DEF RunUserdata, SpawnUserdata, StartUserdata, ClaimAndInsert, Claimable,
         FinishUserdata, ProbeMark, DrainMark, Call, Serving
<1>3. HistTo(hist.lost)
  BY <1>1, <1>2, Untouched, CallFacts
<1>4. ASSUME NEW q \in Rows, SetRow(v, q), q.name = row[v].name,
             q.state = row[v].state \/ (Present(v) /\ q.state = "stopped"),
             NEW m \in Memories, SetMem(v, m), m.inst = mem[v].inst,
             m.condemned = mem[v].condemned
      PROVE  FleetInv'
  <2>1. RowTo(v, q.state)
    BY <1>1, <1>4, RowKept
  <2> QED
    BY <1>2, <1>3, <1>4, <2>1, Remembered
<1>5. ASSUME NEW b \in BOOLEAN
      PROVE  LET m == [mem[v] EXCEPT !.job = b] IN
             m \in Memories /\ m.inst = mem[v].inst /\ m.condemned = mem[v].condemned
  BY <1>1 DEF Memories
<1>6. \A s \in Statuses : LET q == WithStatus(row[v], s) IN
         q \in Rows /\ q.state = row[v].state /\ q.name = row[v].name
  BY <1>1, StatusFacts
<1>7. CASE RunUserdata(v) \/ SpawnUserdata(v)
  <2>1. SetRow(v, WithStatus(row[v], "running")) /\ SetJob(v, TRUE)
    BY <1>7 DEF RunUserdata, SpawnUserdata, StartUserdata, ClaimAndInsert
  <2>2. SetMem(v, [mem[v] EXCEPT !.job = TRUE]) /\ "running" \in Statuses
    BY <2>1 DEF SetJob, Statuses
  <2> QED
    BY <1>4, <1>5, <1>6, <2>1, <2>2
<1>8. CASE FinishUserdata(v)
  <2>1. PICK s \in {"completed", "failed"} :
           SetRow(v, IF row[v].status = "running" THEN WithStatus(row[v], s)
                     ELSE row[v])
    BY <1>8 DEF FinishUserdata
  <2>2. SetMem(v, [mem[v] EXCEPT !.job = FALSE]) /\ s \in Statuses
    BY <1>8 DEF FinishUserdata, SetJob, Statuses
  <2>3. CASE row[v].status = "running"
    BY <1>4, <1>5, <1>6, <2>1, <2>2, <2>3
  <2>4. CASE row[v].status # "running"
    BY <1>1, <1>4, <1>5, <2>1, <2>2, <2>4
  <2> QED
    BY <2>3, <2>4
<1>9. CASE ProbeMark(v)
  <2>1. LET q == Stopped(row[v]) IN
        /\ q \in Rows /\ q.name = row[v].name
        /\ q.state = row[v].state \/ (Present(v) /\ q.state = "stopped")
    BY <1>1, StoppedFacts DEF Present
  <2>2. LET m == [mem[v] EXCEPT !.probe = "none"] IN
        m \in Memories /\ m.inst = mem[v].inst /\ m.condemned = mem[v].condemned
    BY <1>1 DEF Memories
  <2>3. SetRow(v, Stopped(row[v])) /\ SetMem(v, [mem[v] EXCEPT !.probe = "none"])
    BY <1>9 DEF ProbeMark
  <2> QED
    BY <1>4, <2>1, <2>2, <2>3
<1>10. CASE DrainMark(v)
  <2>1. LET q == Interrupted(Stopped(row[v])) IN
        /\ q \in Rows /\ q.name = row[v].name
        /\ q.state = row[v].state \/ (Present(v) /\ q.state = "stopped")
    <3>1. Stopped(row[v]) \in Rows
      BY <1>1, StoppedFacts
    <3>2. /\ Stopped(row[v]).name = row[v].name
          /\ \/ Stopped(row[v]).state = row[v].state
             \/ Present(v) /\ Stopped(row[v]).state = "stopped"
      BY <1>1, StoppedFacts DEF Present
    <3> QED
      BY <3>1, <3>2, InterruptedFacts
  <2>2. LET m == [mem[v] EXCEPT !.verdict = "none"] IN
        m \in Memories /\ m.inst = mem[v].inst /\ m.condemned = mem[v].condemned
    BY <1>1 DEF Memories
  <2>3. /\ SetRow(v, Interrupted(Stopped(row[v])))
        /\ SetMem(v, [mem[v] EXCEPT !.verdict = "none"])
    BY <1>10 DEF DrainMark
  <2> QED
    BY <1>4, <2>1, <2>2, <2>3
<1> QED
  BY <1>7, <1>8, <1>9, <1>10

\* Port forwards are no business of the invariant.
LEMMA ForwardSteps ==
    ASSUME FleetInv, NEW v \in Vms, NEW p \in Ports,
           \/ AddForwardRule(p, v) \/ AddForwardRow(p, v)
           \/ RemoveForwardRule(p, v) \/ RemoveForwardRow(p, v)
    PROVE  FleetInv'
<1>1. /\ FleetTypeOK /\ UNCHANGED <<row, mem, host, disk, op, daemon>>
      /\ UNCHANGED hist \/ \E c : Call(c)
      /\ Serving /\ mem[v] \in Memories
  BY FieldTypes DEF FleetInv, AddForwardRule, AddForwardRow, RemoveForwardRule,
     RemoveForwardRow, netRest, Call, Serving
<1>2. HistTo(hist.lost)
  BY <1>1, Untouched, CallFacts
<1>3. RowTo(v, row[v].state)
  BY <1>1, Untouched
<1>4. SetMem(v, mem[v])
  BY <1>1 DEF SetMem, FleetTypeOK
<1> QED
  BY <1>1, <1>2, <1>3, <1>4, Remembered

\* A guest ends, by itself or because shutdown stops it.
LEMMA GuestSteps ==
    ASSUME FleetInv, NEW v \in Vms, GuestExit(v) \/ DrainStop(v)
    PROVE  FleetInv'
<1>1. /\ FleetTypeOK /\ VmInv(v) /\ mem[v] \in Memories /\ UNCHANGED <<row, disk, op, daemon>>
      /\ mem \in [Vms -> Memories] /\ host \in [Vms -> Hosts]
  BY FieldTypes DEF FleetInv, GuestExit, DrainStop
<1>2. Serving
  BY <1>1 DEF GuestExit, DrainStop, VmInv, Processes, Alive, Serving
<1>3. HistTo(hist.lost) /\ RowTo(v, row[v].state)
  BY <1>1, FaultFacts, Untouched DEF GuestExit, DrainStop
<1>4. "child" \in host[v].procs => mem[v].inst # "none"
  BY <1>1 DEF VmInv, Processes, Alive
<1>5. CASE GuestExit(v)
  <2>1. /\ UNCHANGED mem
        /\ HostTo(v, host[v].procs \ {"child"}, host[v].slot, host[v].tap, host[v].ran)
    BY <1>1, <1>5, ReapedFacts DEF GuestExit
  <2> QED
    BY <1>1, <1>2, <1>3, <2>1, Bystander
<1>6. CASE DrainStop(v)
  <2>1. CASE /\ Reaped(v)
             /\ SetMem(v, [mem[v] EXCEPT !.inst = "stopped", !.verdict = "marking"])
    <3>1. LET m == [mem[v] EXCEPT !.inst = "stopped", !.verdict = "marking"] IN
          m \in Memories /\ m.condemned = mem[v].condemned
      BY <1>1 DEF Memories
    <3>2. HostTo(v, host[v].procs \ {"child"}, host[v].slot, host[v].tap, host[v].ran)
      BY <1>1, <2>1, ReapedFacts
    <3>3. /\ mem' \in [Vms -> Memories] /\ \A u \in Vms \ {v} : mem'[u] = mem[u]
          /\ mem'[v].condemned = mem[v].condemned
      BY <1>1, <2>1, <3>1, MemUpdate
    <3> QED
      BY <1>1, <1>2, <1>3, <3>2, <3>3, Bystander
  <2>2. CASE SetMem(v, [mem[v] EXCEPT !.verdict = "marking"]) /\ UNCHANGED host
    <3>1. LET m == [mem[v] EXCEPT !.verdict = "marking"] IN
          m \in Memories /\ m.inst = mem[v].inst /\ m.condemned = mem[v].condemned
      BY <1>1 DEF Memories
    <3> QED
      BY <1>1, <1>2, <1>3, <2>2, <3>1, Remembered
  <2> QED
    BY <1>6, <2>1, <2>2 DEF DrainStop
<1> QED
  BY <1>5, <1>6

\* Shutdown begins: owned tasks end, and the live VMs are listed.
LEMMA DrainStep ==
    ASSUME FleetInv, DrainBegin
    PROVE  FleetInv'
<1>1. FleetTypeOK /\ Serving /\ Serving' /\ UNCHANGED <<host, disk, op, hist>>
  BY DEF FleetInv, DrainBegin, Loop, Serving
<1>2. ASSUME NEW u \in Vms
      PROVE  /\ row'[u] \in Rows /\ row'[u].name = row[u].name
             /\ row'[u].state = row[u].state
  <2>1. row[u] \in Rows /\ row'[u] \in {Interrupted(row[u]), row[u]}
    BY <1>1 DEF DrainBegin, FleetTypeOK
  <2> QED
    BY <2>1, InterruptedFacts
<1>3. ASSUME NEW u \in Vms
      PROVE  /\ mem'[u] \in Memories /\ mem'[u].inst = mem[u].inst
             /\ mem'[u].condemned = mem[u].condemned
  <2>1. mem[u] \in Memories
    BY <1>1 DEF FleetTypeOK
  <2>2. PICK d \in {"drain", "none"} :
           mem'[u] = [mem[u] EXCEPT !.job = FALSE, !.verdict = d]
    BY <1>1 DEF DrainBegin, FleetTypeOK
  <2> QED
    BY <2>1, <2>2 DEF Memories
<1>4. FleetTypeOK'
  <2>1. row' \in [Vms -> Rows] /\ mem' \in [Vms -> Memories]
    BY <1>2, <1>3 DEF DrainBegin
  <2> QED
    BY <1>1, <2>1 DEF FleetTypeOK, DrainBegin
<1>5. ASSUME NEW u \in Vms
      PROVE  Calm(u) /\ (Alive(u)' => mem'[u].inst # "none")
  <2>1. VmInv(u)
    BY DEF FleetInv
  <2> QED
    BY <1>1, <1>2, <1>3, <2>1 DEF Calm, VmInv, Processes, Alive
<1> QED
  BY <1>1, <1>3, <1>4, <1>5, CalmStep

-----------------------------------------------------------------------------
(* The steps that touch more than one VM or lock.                          *)

\* The row of a created VM is written while its disk and its TAP are in place.
LEMMA CommitStep ==
    ASSUME FleetInv, NEW n \in Names, CreateCommit(n)
    PROVE  FleetInv'
<1>1. /\ Serving /\ op[n].kind \in Creates /\ op[n].pc = "commit"
      /\ UNCHANGED <<mem, host, disk, daemon>>
  BY DEF CreateCommit, At
<1>2. PICK v \in Vms : v = Vm(n)
  BY <1>1, CreateContext
<1>3. /\ FleetTypeOK /\ VmInv(v) /\ OpInv(n) /\ Claimed(n) = v /\ v \notin hist.lost
      /\ op[n].kind \notin RowKinds
  BY <1>1, <1>2, CreateContext
<1>4. /\ disk[n] = v /\ host[v].tap /\ \A m \in Names \ {n} : Claimed(m) # v
  BY <1>1, <1>2, <1>3 DEF OpInv, CreateOp
<1>5. CASE UNCHANGED hist /\ Unlock(n)
           /\ \E q \in Rows : SetRow(v, q) /\ q.state = "running" /\ q.name = n
  <2>1. /\ row' \in [Vms -> Rows] /\ row'[v].state = "running" /\ row'[v].name = n
        /\ \A u \in Vms \ {v} : row'[u] = row[u]
    BY <1>3, <1>5, RowUpdate DEF FleetTypeOK
  <2>2. Freed(n)
    BY <1>3, <1>5, UnlockFacts DEF FleetTypeOK
  <2>3. OpInv(n)' /\ Claimed(n)' = NoVm
    BY <2>2, FreedOp DEF Freed
  <2>4. FleetTypeOK' /\ Frame(n)
    BY <1>1, <1>2, <1>3, <1>5, <2>1, <2>2 DEF FleetTypeOK, Frame, Freed
  <2>5. VmInv(v)'
    <3>1. Processes(v)'
      BY <1>1, <1>3 DEF VmInv, Processes, Alive, Serving
    <3>2. ~host[v].bak
      BY <1>1, <1>2, CreateContext
    <3>3. Sleeps(v)'
      BY <1>1, <2>1, <3>2 DEF Sleeps
    <3>4. (HasDisk(v) /\ Wired(v) /\ Expected(v))'
      BY <1>1, <1>4, <2>1 DEF HasDisk, Wired, Expected, Present
    <3> QED
      BY <3>1, <3>3, <3>4 DEF VmInv
  <2> QED
    BY <1>1, <1>2, <1>4, <1>5, <2>1, <2>3, <2>4, <2>5, LocalStep
<1>6. CASE Fault /\ Goto(n, "rollback") /\ UNCHANGED row
  <2>1. /\ HistTo(hist.lost) /\ OpTo(n, "rollback") /\ MemTo(v, mem[v].inst)
        /\ HostTo(v, host[v].procs, host[v].slot, host[v].tap, host[v].ran)
    BY <1>1, <1>3, <1>6, FaultFacts, GotoFacts, Untouched, Literals DEF FleetTypeOK
  <2>2. DiskTo(n)
    BY <1>1, <1>3 DEF DiskTo, FleetTypeOK
  <2>3. CreateFits(n, v, "rollback", mem[v].inst, host[v].procs, host[v].tap, disk'[n])
    BY <1>1, <1>3 DEF CreateFits, VmInv, Processes, Alive, Holding
  <2> QED
    BY <1>1, <1>2, <1>6, <2>1, <2>2, <2>3, CreateStep
<1>7. ASSUME NEW s \in {"pending", "none"}
      PROVE  LET q == [state |-> "running", pid |-> TRUE, anchor |-> FALSE,
                       name |-> n, tapdev |-> TRUE, parent |-> op[n].other,
                       status |-> s]
             IN q \in Rows /\ q.state = "running" /\ q.name = n
  <2>1. op[n].other \in Vms \cup {NoVm}
    BY <1>3 DEF FleetTypeOK, Operations
  <2> QED
    BY <2>1, Literals DEF Rows
<1> QED
  BY <1>2, <1>5, <1>6, <1>7 DEF CreateCommit

\* An operation on n that lets go of the locks S of its source.
LEMMA ReleaseStep ==
    ASSUME FleetInv, Serving, NEW n \in Names, op[n].kind \in Creates,
           NEW v \in Vms, v = Vm(n), UNCHANGED <<row, daemon>>, FleetTypeOK',
           hist'.lost = hist.lost,
           NEW S, S = SourceLock(n), \A m \in S : op'[m] = NoOp,
           \A m \in Names \ (S \cup {n}) : op'[m] = op[m],
           \A u \in Vms : Calm(u),
           \A u \in Vms \ {v} : mem'[u] = mem[u] /\ host'[u].tap = host[u].tap,
           \A m \in Names \ {n} : disk'[m] = disk[m],
           Alive(v)' => mem'[v].inst # "none", mem'[v].condemned = mem[v].condemned,
           OpInv(n)', Claimed(n)' \in {Claimed(n), NoVm}
    PROVE  FleetInv'
<1>1. /\ ~Present(v) /\ Claimed(n) = v /\ FleetTypeOK /\ OpInv(n)
      /\ \A u \in Vms : Present(u) => row[u].name # n
  <2>1. ~Present(v) /\ Claimed(n) = v /\ FleetTypeOK /\ OpInv(n)
    BY CreateContext
  <2> QED
    BY <2>1 DEF OpInv, CreateOp
<1>2. ASSUME NEW u \in Vms PROVE VmInv(u)'
  <2>1. VmInv(u)
    BY DEF FleetInv
  <2>2. disk'[row[u].name] = disk[row[u].name] \/ ~Present(u)
    BY <1>1, FieldTypes
  <2>3. CASE u = v
    BY <1>1, <2>1, <2>2, <2>3, CalmVm DEF Present, Serving
  <2>4. CASE u # v
    <3>1. Alive(u)' => mem'[u].inst # "none"
      BY <2>1, <2>4 DEF VmInv, Processes, Calm, Alive
    <3> QED
      BY <2>1, <2>2, <2>4, <3>1, CalmVm DEF Serving
  <2> QED
    BY <2>3, <2>4
<1>3. /\ S \subseteq Names
      /\ \A m \in Names : m \in S <=> op[m].kind = "source" /\ op[m].other = v
  BY DEF SourceLock
<1>4. ASSUME NEW k \in Names PROVE Claimed(k)' \in {Claimed(k), NoVm}
  <2>1. CASE k \in S
    BY <2>1, FreedOp
  <2>2. CASE k = n
    BY <2>2
  <2>3. CASE k \notin S \cup {n}
    BY <2>3 DEF Claimed
  <2> QED
    BY <2>1, <2>2, <2>3
<1>5. ASSUME NEW m \in Names PROVE OpInv(m)'
  <2>1. CASE m = n
    BY <2>1
  <2>2. CASE m \in S
    BY <2>2, FreedOp
  <2>3. CASE m \notin S \cup {n}
    <3>1. OpInv(m) /\ op'[m] = op[m] /\ disk'[m] = disk[m]
      BY <2>3 DEF FleetInv
    <3>2. /\ op[m].kind \in RowKinds \cup Creates => Vm(m) # v
          /\ op[m].kind = "fork" /\ op[m].pc \in {"wire", "clone", "alias", "load"}
               => op[m].other # v /\ row[op[m].other].name # n
      BY <2>3, OwnApart
    <3>3. op[m].kind \in RowKinds \cup Creates => host'[Vm(m)].tap = host[Vm(m)].tap
      BY <3>1, <3>2 DEF OpInv, RowOp, CreateOp
    <3>4. op[m].kind \in Creates /\ op[m].pc \in {"rehome", "commit"} =>
             \A k \in Names \ {m} : Claimed(k)' # Vm(m)
      BY <1>4, <3>1, VmRowsAssumption DEF OpInv, CreateOp
    <3>5. op[m].kind = "fork" /\ op[m].pc \in {"wire", "clone", "alias", "load"} =>
             op'[row[op[m].other].name] = op[row[op[m].other].name]
      <4> SUFFICES ASSUME op[m].kind = "fork",
                          op[m].pc \in {"wire", "clone", "alias", "load"}
                   PROVE  op'[row[op[m].other].name] = op[row[op[m].other].name]
        OBVIOUS
      <4>1. op[m].other \in Vms /\ op[row[op[m].other].name].other = Vm(m)
        BY <3>1 DEF OpInv, ForkOp
      <4>2. row[op[m].other].name \in Names \ (S \cup {n})
        BY <1>1, <1>3, <3>2, <4>1, FieldTypes DEF Creates
      <4> QED
        BY <4>2
    <3> QED
      BY <3>1, <3>3, <3>4, <3>5, CalmOp
  <2> QED
    BY <2>1, <2>2, <2>3
<1>6. NamesUnique'
  BY CalmNames DEF FleetInv
<1>7. ClaimsDistinct'
  <2> SUFFICES ASSUME NEW m \in Names, NEW k \in Names, m # k,
                      Claimed(m)' = Claimed(k)', Claimed(m)' # NoVm
               PROVE  Paired(m, k)' \/ Paired(k, m)'
    BY DEF ClaimsDistinct
  <2>1. Claimed(m)' = Claimed(m) /\ Claimed(k)' = Claimed(k)
    BY <1>4
  <2>2. Paired(m, k) \/ Paired(k, m)
    BY <2>1 DEF FleetInv, ClaimsDistinct
  <2>3. ASSUME NEW a \in Names, NEW b \in Names, Paired(a, b), Claimed(a)' # NoVm,
               Claimed(a) = Claimed(b)
        PROVE  Paired(a, b)'
    <3>1. a \notin S
      BY <2>3, FreedOp
    <3>2. a # n /\ b \notin S /\ Claimed(a) = op[a].other
      BY <1>3, <2>3 DEF Paired, Claimed, Creates
    <3>3. b # n
      <4> SUFFICES ASSUME b = n PROVE FALSE
        OBVIOUS
      <4>1. op[a].kind = "source" /\ op[a].other = v
        BY <1>1, <2>3, <3>2 DEF Paired
      <4> QED
        BY <1>3, <3>1, <4>1
    <3> QED
      BY <2>3, <3>1, <3>2, <3>3 DEF Paired
  <2> QED
    BY <2>1, <2>2, <2>3
<1>8. Down'
  BY DEF Down, Serving
<1> QED
  BY <1>2, <1>5, <1>6, <1>7, <1>8 DEF FleetInv

\* A lock is given back; no fork that is loading needs it.
LEMMA DropStep ==
    ASSUME FleetInv, Serving, NEW n \in Names, Freed(n),
           UNCHANGED <<row, mem, host, disk, daemon>>, HistTo(hist.lost),
           op[n].kind = "source" => op[n].pc = "wait"
    PROVE  FleetInv'
<1>1. FleetTypeOK' /\ hist'.lost = hist.lost
  BY DEF FleetInv, FleetTypeOK, Freed, HistTo
<1>2. \A u \in Vms : Calm(u)
  BY DEF Calm
<1>3. ASSUME NEW u \in Vms PROVE VmInv(u)'
  <2>1. VmInv(u) /\ FleetTypeOK
    BY DEF FleetInv
  <2> QED
    BY <1>1, <2>1, VmKept
<1>4. ASSUME NEW k \in Names PROVE Claimed(k)' \in {Claimed(k), NoVm}
  <2>1. CASE k = n
    BY <2>1, FreedOp DEF Freed
  <2>2. CASE k # n
    BY <2>2 DEF Freed, Claimed
  <2> QED
    BY <2>1, <2>2
<1>5. ASSUME NEW m \in Names PROVE OpInv(m)'
  <2>1. CASE m = n
    BY <2>1, FreedOp DEF Freed
  <2>2. CASE m # n
    <3>1. OpInv(m) /\ op'[m] = op[m]
      BY <2>2 DEF FleetInv, Freed
    <3>2. op[m].kind \in Creates /\ op[m].pc \in {"rehome", "commit"} =>
             \A k \in Names \ {m} : Claimed(k)' # Vm(m)
      BY <1>4, <3>1, VmRowsAssumption DEF OpInv, CreateOp
    <3>3. op[m].kind = "fork" /\ op[m].pc \in {"wire", "clone", "alias", "load"} =>
             op'[row[op[m].other].name] = op[row[op[m].other].name]
      <4> SUFFICES ASSUME op[m].kind = "fork",
                          op[m].pc \in {"wire", "clone", "alias", "load"}
                   PROVE  op'[row[op[m].other].name] = op[row[op[m].other].name]
        OBVIOUS
      <4>1. LET s == op[m].other IN
            s \in Vms /\ op[row[s].name].pc = "held" /\ op[row[s].name].kind = "source"
        BY <3>1 DEF OpInv, ForkOp, Paired
      <4>2. row[op[m].other].name \in Names \ {n}
        BY <4>1, FieldTypes DEF FleetInv
      <4> QED
        BY <4>2 DEF Freed
    <3> QED
      BY <1>1, <1>2, <3>1, <3>2, <3>3, CalmOp
  <2> QED
    BY <2>1, <2>2
<1>6. NamesUnique'
  BY <1>2, CalmNames DEF FleetInv
<1>7. ClaimsDistinct'
  <2> SUFFICES ASSUME NEW m \in Names, NEW k \in Names, m # k,
                      Claimed(m)' = Claimed(k)', Claimed(m)' # NoVm
               PROVE  Paired(m, k)' \/ Paired(k, m)'
    BY DEF ClaimsDistinct
  <2>1. m # n /\ k # n
    BY FreedOp DEF Freed
  <2>2. Paired(m, k) \/ Paired(k, m)
    BY <1>4 DEF FleetInv, ClaimsDistinct
  <2> QED
    BY <2>1, <2>2 DEF Paired, Freed
<1>8. Down'
  BY DEF Down, Serving
<1> QED
  BY <1>1, <1>3, <1>5, <1>6, <1>7, <1>8 DEF FleetInv

\* fork_vm has both locks and a source that sleeps.
LEMMA ForkLockStep ==
    ASSUME FleetInv, NEW m \in Names, ForkLock(m)
    PROVE  FleetInv'
<1>0. PICK n \in Names, w \in Vms : n = op[m].to /\ w = op[m].other
  BY DEF FleetInv, OpInv, Claims, ForkLock, At
<1>1. /\ FleetTypeOK /\ OpInv(m) /\ Serving /\ op[m].kind = "source"
      /\ op[m].pc = "wait" /\ op[n] = NoOp
      /\ UNCHANGED <<row, mem, host, disk, daemon, hist>>
  BY <1>0 DEF FleetInv, ForkLock, At, Locked
<1>2. /\ n # m /\ Claimed(m) = w /\ ~Present(w)
      /\ w \notin hist.lost /\ HistTo(hist.lost)
  BY <1>0, <1>1, NoOpFacts, VmRowsAssumption, Untouched
     DEF OpInv, Claims, Claimed, Creates
<1>3. CASE Unlock(m)
  <2>1. Freed(m)
    BY <1>1, <1>3, UnlockFacts DEF FleetTypeOK
  <2> QED
    BY <1>1, <1>2, <2>1, DropStep
<1>4. ASSUME NEW s \in Owners(m), row[s].state = "suspended", Owners(n) = {},
             op' = [op EXCEPT ![m].pc = "held", ![n] = Creation("fork", w, s)]
      PROVE  FleetInv'
  <2> DEFINE o == Creation("fork", w, s)
             h == [op[m] EXCEPT !.pc = "held"]
  <2>1. s \in Vms /\ Present(s) /\ row[s].name = m /\ Asleep(s)
    BY <1>4 DEF Owners, Present, FleetInv, VmInv, Sleeps
  <2>2. /\ o \in Operations /\ o.kind = "fork" /\ o.vm = w /\ o.other = s
        /\ o.pc = "wire"
    BY <1>2, <2>1, VmRowsAssumption, Literals DEF Creation, Holder, Operations
  <2>3. op[m] \in Operations
    BY <1>1 DEF FleetTypeOK
  <2>4. /\ h \in Operations /\ h.kind = "source" /\ h.other = w /\ h.to = n
        /\ h.pc = "held"
    BY <1>0, <1>1, <2>3, Literals DEF Operations
  <2>5. /\ op' \in [Names -> Operations] /\ op'[n] = o /\ op'[m] = h
        /\ \A k \in Names \ {m, n} : op'[k] = op[k]
    <3>1. op' = [op EXCEPT ![m] = h, ![n] = o]
      BY <1>1, <1>4 DEF FleetTypeOK
    <3> HIDE DEF o, h
    <3> QED
      BY <1>1, <1>2, <2>2, <2>4, <3>1 DEF FleetTypeOK
  <2> HIDE DEF o, h
  <2>6. /\ op'[n].kind = "fork" /\ op'[n].pc = "wire" /\ op'[n].other = s /\ Vm(n)' = w
        /\ op'[m].kind = "source" /\ op'[m].pc = "held" /\ op'[m].to = n
        /\ op'[m].other = w
    BY <2>2, <2>4, <2>5 DEF Vm
  <2>7. /\ Claimed(n)' = w /\ Claimed(m)' = w /\ Claimed(n) = NoVm
        /\ \A k \in Names \ {n} : Claimed(k)' = Claimed(k)
    BY <1>1, <1>2, <2>5, <2>6, NoOpFacts DEF Claimed, Creates, Vm
  <2>8. FleetTypeOK'
    BY <1>1, <2>5 DEF FleetTypeOK
  <2>9. \A u \in Vms : Calm(u)
    BY <1>1 DEF Calm
  <2>10. ASSUME NEW u \in Vms PROVE VmInv(u)'
    <3>1. VmInv(u)
      BY DEF FleetInv
    <3> QED
      BY <1>1, <3>1, VmKept
  <2>11. OpInv(m)'
    <3>1. Claims(m)'
      BY <1>1, <1>2, <2>6, <2>7 DEF Claims, Present
    <3> QED
      BY <2>6, <3>1 DEF OpInv, RowOp, SuspendOp, ResumeOp, DestroyOp, CreateOp, ForkOp,
                        RowKinds, Suspends, Destroys, Creates
  <2>12. OpInv(n)'
    <3>1. Claims(n)'
      BY <1>1, <1>2, <2>6, <2>7 DEF Claims, Present
    <3>2. CreateOp(n)'
      BY <1>1, <1>2, <1>4, <2>6 DEF CreateOp, Owners, Present
    <3>3. ForkOp(n)'
      BY <1>1, <1>4, <2>1, <2>6 DEF ForkOp, Paired, Asleep
    <3> QED
      BY <2>6, <3>1, <3>2, <3>3 DEF OpInv, RowOp, SuspendOp, ResumeOp, DestroyOp,
                                    RowKinds, Suspends, Destroys
  <2>13. ASSUME NEW k \in Names \ {m, n} PROVE OpInv(k)'
    <3>1. OpInv(k) /\ op'[k] = op[k]
      BY <2>5 DEF FleetInv
    <3>2. op[k].kind \in Creates /\ op[k].pc \in {"rehome", "commit"} =>
             \A j \in Names \ {k} : Claimed(j)' # Vm(k)
      BY <1>2, <2>7, <3>1 DEF OpInv, CreateOp
    <3>3. op[k].kind = "fork" /\ op[k].pc \in {"wire", "clone", "alias", "load"} =>
             op'[row[op[k].other].name] = op[row[op[k].other].name]
      <4> SUFFICES ASSUME op[k].kind = "fork",
                          op[k].pc \in {"wire", "clone", "alias", "load"}
                   PROVE  op'[row[op[k].other].name] = op[row[op[k].other].name]
        OBVIOUS
      <4>1. LET t == op[k].other IN
            t \in Vms /\ op[row[t].name].pc = "held" /\ op[row[t].name].kind = "source"
        BY <3>1 DEF OpInv, ForkOp, Paired
      <4>2. row[op[k].other].name \in Names \ {m, n}
        BY <1>1, <4>1, NoOpFacts, FieldTypes
      <4> QED
        BY <2>5, <4>2
    <3> QED
      BY <1>1, <2>9, <3>1, <3>2, <3>3, CalmOp
  <2>14. ClaimsDistinct'
    <3> SUFFICES ASSUME NEW i \in Names, NEW k \in Names, i # k,
                        Claimed(i)' = Claimed(k)', Claimed(i)' # NoVm
                 PROVE  Paired(i, k)' \/ Paired(k, i)'
      BY DEF ClaimsDistinct
    <3>1. ASSUME NEW j \in Names \ {m, n} PROVE Claimed(j) # w
      BY <1>1, <1>2, <3>1, VmRowsAssumption DEF FleetInv, ClaimsDistinct, Paired
    <3>2. CASE {i, k} = {m, n}
      BY <2>6, <3>2 DEF Paired
    <3>3. CASE i \notin {m, n} /\ k \notin {m, n}
      <4>1. Paired(i, k) \/ Paired(k, i)
        BY <2>7, <3>3 DEF FleetInv, ClaimsDistinct
      <4> QED
        BY <2>5, <3>3, <4>1 DEF Paired
    <3> QED
      BY <2>7, <3>1, <3>2, <3>3
  <2>15. NamesUnique' /\ Down'
    BY <1>1, <2>9, CalmNames DEF FleetInv, Down, Serving
  <2> QED
    BY <2>8, <2>10, <2>11, <2>12, <2>13, <2>14, <2>15 DEF FleetInv
<1> QED
  BY <1>0, <1>3, <1>4 DEF ForkLock

\* The source's disk is moved aside while the source sleeps.
LEMMA ForkAliasStep ==
    ASSUME FleetInv, NEW n \in Names, ForkAlias(n)
    PROVE  FleetInv'
<1>1. /\ Serving /\ op[n].kind = "fork" /\ op[n].pc = "alias" /\ op[n].kind \in Creates
      /\ UNCHANGED <<row, disk, daemon, hist>>
  BY DEF ForkAlias, At, Creates
<1>2. PICK v \in Vms, s \in Vms : v = Vm(n) /\ s = op[n].other
  BY <1>1, CreateContext DEF OpInv, ForkOp
<1>3. /\ ~Present(v) /\ v \notin hist.lost /\ ~host[v].bak /\ Claimed(n) = v
      /\ FleetTypeOK /\ OpInv(n) /\ VmInv(v) /\ op[n].kind \notin RowKinds
  BY <1>1, <1>2, CreateContext
<1>4. /\ row[s].state \in {"suspended", "stopped"} /\ Asleep(s)
      /\ Paired(row[s].name, n) /\ op[row[s].name].other = v /\ disk[n] = v
  BY <1>1, <1>2, <1>3 DEF OpInv, ForkOp, CreateOp
<1>5. s # v /\ row[s].name \in Names \ {n}
  BY <1>1, <1>3, <1>4, FieldTypes DEF Present, Paired
<1>6. MemTo(v, "failed") /\ OpTo(n, "load")
  BY <1>2, <1>3, InstFacts, GotoFacts, Literals DEF ForkAlias, FleetTypeOK, Insts
<1>7. /\ host' \in [Vms -> Hosts]
      /\ host'[v].procs = host[v].procs \cup {"child"} /\ ~host'[v].bak
      /\ host'[s].procs = host[s].procs /\ host'[s].slot = host[s].slot
      /\ host'[s].tap = host[s].tap /\ host'[s].ran = host[s].ran
      /\ \A u \in Vms \ {v, s} : host'[u] = host[u]
  <2> DEFINE hv == [host[v] EXCEPT !.procs = host[v].procs \cup {"child"}]
             hs == [host[s] EXCEPT !.bak = TRUE]
  <2>1. host[v] \in Hosts /\ host[s] \in Hosts /\ host \in [Vms -> Hosts]
    BY <1>3, FieldTypes
  <2>2. host[v].procs \cup {"child"} \in SUBSET {"child", "orphan"}
    BY <2>1 DEF Hosts
  <2>3. /\ hv \in Hosts /\ hv.procs = host[v].procs \cup {"child"}
        /\ hv.bak = host[v].bak
    BY <2>1, <2>2 DEF Hosts
  <2>4. /\ hs \in Hosts /\ hs.procs = host[s].procs /\ hs.slot = host[s].slot
        /\ hs.tap = host[s].tap /\ hs.ran = host[s].ran
    BY <2>1 DEF Hosts
  <2>5. host' = [host EXCEPT ![v] = hv, ![s] = hs]
    BY <1>2, <1>5, <2>1 DEF ForkAlias
  <2> HIDE DEF hv, hs
  <2> QED
    BY <1>3, <1>5, <2>1, <2>3, <2>4, <2>5
<1>8. FleetTypeOK'
  BY <1>1, <1>3, <1>6, <1>7 DEF FleetTypeOK, MemTo, OpTo
<1>9. Frame(n)
  BY <1>1, <1>2, <1>5, <1>6, <1>7 DEF Frame, Aliased, MemTo, OpTo
<1>10. VmInv(v)'
  <2>1. mem'[v].inst = "failed" /\ mem'[v].condemned = mem[v].condemned
    BY <1>6 DEF MemTo
  <2> QED
    BY <1>1, <1>3, <1>7, <2>1 DEF VmInv, Processes, Sleeps, Saved, HasDisk, Wired, Expected,
                                  Present, Alive, Serving
<1>11. /\ op'[n].kind = "fork" /\ op'[n].pc = "load" /\ op'[n].other = s
       /\ Vm(n)' = v /\ Claimed(n)' = v /\ op'[row[s].name] = op[row[s].name]
  BY <1>1, <1>2, <1>5, <1>6 DEF OpTo, Vm, Claimed, Creates
<1>12. OpInv(n)'
  <2>1. ForkOp(n)'
    BY <1>1, <1>4, <1>7, <1>11 DEF ForkOp, Paired, Asleep
  <2>2. CreateOp(n)'
    BY <1>1, <1>2, <1>3, <1>4, <1>11 DEF OpInv, CreateOp, Present
  <2>3. Claims(n)'
    BY <1>1, <1>3, <1>11 DEF Claims, Present
  <2> QED
    BY <1>11, <2>1, <2>2, <2>3 DEF OpInv, RowOp, SuspendOp, ResumeOp, DestroyOp,
                                   RowKinds, Suspends, Destroys
<1> QED
  BY <1>1, <1>2, <1>3, <1>8, <1>9, <1>10, <1>11, <1>12, LocalStep DEF Present

\* An acknowledged load lets the source go; any other keeps it.
LEMMA ForkLoadStep ==
    ASSUME FleetInv, NEW n \in Names, ForkLoad(n)
    PROVE  FleetInv'
<1>1. /\ Serving /\ op[n].kind = "fork" /\ op[n].pc = "load" /\ op[n].kind \in Creates
      /\ UNCHANGED <<row, disk, daemon>>
  BY DEF ForkLoad, At, Creates
<1>2. PICK v \in Vms, s \in Vms : v = Vm(n) /\ s = op[n].other
  BY <1>1, CreateContext DEF OpInv, ForkOp
<1>3. /\ ~Present(v) /\ Claimed(n) = v /\ v \notin hist.lost
      /\ FleetTypeOK /\ OpInv(n) /\ VmInv(v) /\ op[n].kind \notin RowKinds
  BY <1>1, <1>2, CreateContext
<1>4. s # v /\ disk[n] = v
  BY <1>1, <1>2, <1>3 DEF OpInv, ForkOp, CreateOp, Present
<1>5. CASE Goto(n, "rollback") /\ UNCHANGED <<mem, host>> /\ (Fault \/ UNCHANGED hist)
  <2>1. /\ HistTo(hist.lost) /\ OpTo(n, "rollback") /\ MemTo(v, mem[v].inst)
        /\ HostTo(v, host[v].procs, host[v].slot, host[v].tap, host[v].ran)
    BY <1>3, <1>5, FaultFacts, GotoFacts, Untouched, Literals DEF FleetTypeOK
  <2>2. DiskTo(n)
    BY <1>1, <1>3 DEF DiskTo, FleetTypeOK
  <2>3. CreateFits(n, v, "rollback", mem[v].inst, host[v].procs, host[v].tap, disk'[n])
    BY <1>1, <1>3 DEF CreateFits, VmInv, Processes, Alive, Holding
  <2> QED
    BY <1>1, <1>2, <2>1, <2>2, <2>3, CreateStep
<1>6. CASE /\ SetInst(v, "running") /\ SetHost(s, [host[s] EXCEPT !.bak = FALSE])
           /\ op' = [m \in Names |-> CASE m = n -> [op[m] EXCEPT !.pc = "rehome"]
                                       [] m \in SourceLock(n) -> NoOp
                                       [] OTHER -> op[m]]
           /\ UNCHANGED hist
  <2> DEFINE o == [op[n] EXCEPT !.pc = "rehome"]
             h == [host[s] EXCEPT !.bak = FALSE]
  <2>1. MemTo(v, "running")
    BY <1>3, <1>6, InstFacts DEF FleetTypeOK, Insts
  <2>2. host[s] \in Hosts /\ op[n] \in Operations
    BY <1>3 DEF FleetTypeOK
  <2>3. /\ h \in Hosts /\ h.procs = host[s].procs /\ h.slot = host[s].slot
        /\ h.tap = host[s].tap /\ h.ran = host[s].ran /\ h.bak = FALSE
    BY <2>2 DEF Hosts
  <2>4. SetHost(s, h)
    BY <1>6
  <2> HIDE DEF h
  <2>5. host' \in [Vms -> Hosts] /\ host'[s] = h /\ \A u \in Vms \ {s} : host'[u] = host[u]
    BY <1>3, <2>3, <2>4, HostUpdate DEF FleetTypeOK
  <2>6. /\ o \in Operations /\ o.kind = "fork" /\ o.vm = v /\ o.other = s
        /\ o.pc = "rehome"
    BY <1>1, <1>2, <2>2, Literals DEF Operations, Vm
  <2>7. n \notin SourceLock(n)
    BY <1>1 DEF SourceLock
  <2>8. /\ op'[n] = o /\ \A m \in SourceLock(n) : op'[m] = NoOp
        /\ \A m \in Names \ (SourceLock(n) \cup {n}) : op'[m] = op[m]
    BY <1>6, <2>7 DEF SourceLock
  <2>9. op' \in [Names -> Operations]
    <3>1. \A m \in Names : op'[m] \in Operations
      BY <1>3, <2>6, <2>8, NoOpFacts DEF FleetTypeOK
    <3>2. op' = [m \in Names |-> op'[m]]
      BY <1>6
    <3> QED
      BY <3>1, <3>2
  <2> HIDE DEF o
  <2>10. FleetTypeOK'
    BY <1>1, <1>3, <1>6, <2>1, <2>5, <2>9 DEF FleetTypeOK, MemTo
  <2>11. \A u \in Vms : Calm(u) /\ host'[u].tap = host[u].tap
    BY <1>1, <2>3, <2>5 DEF Calm
  <2>12. /\ op'[n].kind = "fork" /\ op'[n].pc = "rehome" /\ Vm(n)' = v
         /\ Claimed(n)' = v
    BY <2>6, <2>8 DEF Vm, Claimed, Creates
  <2>13. \A m \in Names \ {n} : Claimed(m)' # v
    <3> SUFFICES ASSUME NEW m \in Names \ {n} PROVE Claimed(m)' # v
      OBVIOUS
    <3>1. CASE m \in SourceLock(n)
      BY <2>8, <3>1, FreedOp, VmRowsAssumption
    <3>2. CASE m \notin SourceLock(n)
      <4>1. Claimed(m)' = Claimed(m)
        BY <2>8, <3>2 DEF Claimed
      <4>2. Claimed(m) = v => Paired(m, n)
        BY <1>1, <1>2, OwnApart
      <4>3. Paired(m, n) => Claimed(m) # v
        BY <1>2, <3>2 DEF Paired, Claimed, SourceLock, Creates
      <4> QED
        BY <4>1, <4>2, <4>3
    <3> QED
      BY <3>1, <3>2
  <2>14. OpInv(n)'
    <3>1. CreateOp(n)'
      BY <1>1, <1>3, <1>4, <2>12, <2>13 DEF OpInv, CreateOp, Present
    <3>2. Claims(n)'
      BY <1>1, <1>3, <1>6, <2>12 DEF Claims, Present
    <3> QED
      BY <2>12, <3>1, <3>2 DEF OpInv, RowOp, SuspendOp, ResumeOp, DestroyOp, ForkOp,
                               RowKinds, Suspends, Destroys
  <2> QED
    BY <1>1, <1>2, <1>3, <1>6, <2>1, <2>8, <2>10, <2>11, <2>12, <2>14, ReleaseStep
       DEF MemTo
<1> QED
  BY <1>2, <1>5, <1>6 DEF ForkLoad

\* A creation is rolled back, with the source of a fork, or everything is kept.
LEMMA RollbackStep ==
    ASSUME FleetInv, NEW n \in Names, RollbackCreate(n)
    PROVE  FleetInv'
<1>1. /\ Serving /\ op[n].kind \in Creates /\ op[n].kind # "source"
      /\ UNCHANGED <<row, daemon>>
  BY DEF RollbackCreate, At, Creates
<1>2. PICK v \in Vms : v = Vm(n)
  BY <1>1, CreateContext
<1>3. FleetTypeOK
  BY DEF FleetInv
<1>4. CASE Fault /\ Unlock(n) /\ UNCHANGED <<mem, host, disk>>
  <2>1. HistTo(hist.lost) /\ Freed(n)
    BY <1>3, <1>4, FaultFacts, UnlockFacts DEF FleetTypeOK
  <2> QED
    BY <1>1, <1>4, <2>1, DropStep
<1>5. CASE /\ SetInst(v, "none") /\ UnlockBoth(n) /\ UNCHANGED hist
           /\ host' = [u \in Vms |->
                 IF u = v THEN [host[u] EXCEPT !.procs = @ \ {"child"}, !.tap = FALSE]
                 ELSE IF u = op[n].other /\ SourceLock(n) # {}
                 THEN [host[u] EXCEPT !.bak = FALSE]
                 ELSE host[u]]
           /\ disk' = [disk EXCEPT ![n] = IF @ = v THEN NoVm ELSE @]
  <2>1. MemTo(v, "none")
    BY <1>3, <1>5, InstFacts DEF FleetTypeOK, Insts
  <2>2. ASSUME NEW u \in Vms
        PROVE  /\ host'[u] \in Hosts /\ Calm(u)
               /\ u # v => host'[u].tap = host[u].tap
               /\ u = v => "child" \notin host'[u].procs
    <3>1. host[u] \in Hosts
      BY <1>3 DEF FleetTypeOK
    <3>2. CASE u = v
      <4> DEFINE p == host[u].procs \ {"child"}
      <4>1. p \in SUBSET {"child", "orphan"}
        BY <3>1 DEF Hosts
      <4>2. host'[u] = [host[u] EXCEPT !.procs = p, !.tap = FALSE]
        BY <1>5, <3>2
      <4>3. p \subseteq host[u].procs /\ "child" \notin p
        OBVIOUS
      <4> HIDE DEF p
      <4>4. /\ host'[u] \in Hosts /\ host'[u].procs = p /\ host'[u].slot = host[u].slot
            /\ host'[u].ran = host[u].ran /\ host'[u].bak = host[u].bak
        BY <3>1, <4>1, <4>2 DEF Hosts
      <4> QED
        BY <1>1, <3>2, <4>3, <4>4 DEF Calm
    <3>3. CASE u # v /\ host'[u] = [host[u] EXCEPT !.bak = FALSE]
      <4>1. /\ host'[u] \in Hosts /\ host'[u].procs = host[u].procs
            /\ host'[u].slot = host[u].slot /\ host'[u].tap = host[u].tap
            /\ host'[u].ran = host[u].ran /\ host'[u].bak = FALSE
        BY <3>1, <3>3 DEF Hosts
      <4> QED
        BY <1>1, <3>3, <4>1 DEF Calm
    <3>4. CASE u # v /\ host'[u] = host[u]
      BY <1>1, <3>1, <3>4 DEF Calm
    <3> QED
      BY <1>5, <3>2, <3>3, <3>4
  <2>3. host' \in [Vms -> Hosts]
    BY <1>5, <2>2
  <2>4. /\ op'[n] = NoOp /\ \A m \in SourceLock(n) : op'[m] = NoOp
        /\ \A m \in Names \ (SourceLock(n) \cup {n}) : op'[m] = op[m]
    BY <1>5 DEF UnlockBoth, SourceLock
  <2>5. op' \in [Names -> Operations]
    BY <1>3, <1>5, NoOpFacts DEF FleetTypeOK, UnlockBoth
  <2>6. FleetTypeOK' /\ \A m \in Names \ {n} : disk'[m] = disk[m]
    <3>1. /\ disk' \in [Names -> Vms \cup {NoVm}]
          /\ \A m \in Names \ {n} : disk'[m] = disk[m]
      BY <1>3, <1>5 DEF FleetTypeOK
    <3> QED
      BY <1>1, <1>3, <1>5, <2>1, <2>3, <2>5, <3>1 DEF FleetTypeOK, MemTo
  <2>7. OpInv(n)' /\ Claimed(n)' = NoVm
    BY <2>4, FreedOp
  <2>8. /\ \A u \in Vms \ {v} : mem'[u] = mem[u] /\ host'[u].tap = host[u].tap
        /\ mem'[v].condemned = mem[v].condemned /\ hist'.lost = hist.lost
    BY <1>5, <2>1, <2>2 DEF MemTo
  <2>9. ~Alive(v)'
    BY <2>2 DEF Alive
  <2>10. PICK S : S = SourceLock(n)
    OBVIOUS
  <2>11. /\ \A m \in S : op'[m] = NoOp
         /\ \A m \in Names \ (S \cup {n}) : op'[m] = op[m]
    BY <2>4, <2>10
  <2>12. \A u \in Vms : Calm(u)
    BY <2>2
  <2> QED
    BY <1>1, <1>2, <2>6, <2>7, <2>8, <2>9, <2>10, <2>11, <2>12, ReleaseStep
<1> QED
  BY <1>2, <1>4, <1>5 DEF RollbackCreate

\* The network of an abandoned VM is released.
LEMMA ReclaimStep ==
    ASSUME FleetInv, NEW v \in Vms, ReclaimVm(v)
    PROVE  FleetInv'
<1>1. /\ Serving /\ row[v].state = "stopped" /\ op[row[v].name] = NoOp
      /\ UNCHANGED <<mem, disk, op, daemon, hist>> /\ FleetTypeOK
  BY DEF ReclaimVm, Reclaimable, Locked, FleetInv
<1>2. RowTo(v, row[v].state)
  BY <1>1, RowWrites DEF ReclaimVm, FleetTypeOK
<1>3. HostTo(v, host[v].procs, host[v].slot, FALSE, host[v].ran)
  BY <1>1, TapFacts DEF ReclaimVm, Released, FleetTypeOK
<1>4. FleetTypeOK' /\ Serving'
  BY <1>1, <1>2, <1>3 DEF FleetTypeOK, RowTo, HostTo, Serving
<1>5. ASSUME NEW u \in Vms
      PROVE  /\ Calm(u) /\ (Alive(u)' => mem'[u].inst # "none")
             /\ host'[u].tap = host[u].tap \/ u = v
  <2>1. VmInv(u)
    BY DEF FleetInv
  <2>2. CASE u = v
    BY <1>1, <1>2, <1>3, <2>1, <2>2 DEF Calm, Alive, RowTo, HostTo, VmInv, Processes
  <2>3. CASE u # v
    BY <1>1, <1>2, <1>3, <2>1, <2>3 DEF Calm, Alive, RowTo, HostTo, VmInv, Processes
  <2> QED
    BY <2>2, <2>3
<1> QED
  BY <1>1, <1>4, <1>5, CalmStep

-----------------------------------------------------------------------------
(* The daemon's own steps.                                                 *)

ProcSets == SUBSET {"child", "orphan"}

NoMemory == mem = [v \in Vms |-> NoMem]
NoLocks  == op = [n \in Names |-> NoOp]

\* A daemon that has just died, or has not served yet, knows of nothing; what its
\* steps must keep is the rows, the names and what sleeps.
LEMMA AwayStep ==
    ASSUME FleetInv, FleetTypeOK', NoMemory', NoLocks', UNCHANGED disk,
           hist'.lost = hist.lost,
           \A u \in Vms : /\ row'[u].name = row[u].name /\ (Present(u)' <=> Present(u))
                          /\ ~Alive(u)' /\ Processes(u)' /\ Sleeps(u)'
    PROVE  FleetInv'
<1>1. ASSUME NEW u \in Vms PROVE VmInv(u)'
  <2>1. HasDisk(u)'
    BY DEF FleetInv, VmInv, HasDisk
  <2>2. Wired(u)'
    BY DEF Wired
  <2>3. Expected(u)'
    BY DEF Expected, NoMemory, NoMem
  <2> QED
    BY <2>1, <2>2, <2>3 DEF VmInv
<1>2. ASSUME NEW m \in Names PROVE OpInv(m)' /\ Claimed(m)' = NoVm
  BY FreedOp DEF NoLocks
<1>3. NamesUnique' /\ ClaimsDistinct'
  BY <1>2 DEF FleetInv, NamesUnique, ClaimsDistinct
<1> QED
  BY <1>1, <1>2, <1>3 DEF FleetInv, Down, NoMemory, NoLocks

\* Nothing remembered, and no lock, is of its type.
LEMMA AwayTypes ==
    /\ [v \in Vms |-> NoMem] \in [Vms -> Memories]
    /\ [n \in Names |-> NoOp] \in [Names -> Operations]
<1>1. NoMem \in Memories
  BY VmRowsAssumption DEF NoMem, Memories
<1> QED
  BY <1>1, NoOpFacts

\* The daemon dies; its children live on.
LEMMA CrashStep ==
    ASSUME FleetInv, Crash
    PROVE  FleetInv'
<1>1. /\ NoMemory' /\ NoLocks' /\ UNCHANGED <<row, disk>> /\ daemon' = "down"
      /\ FleetTypeOK
  BY DEF Crash, Dies, NoMemory, NoLocks, FleetInv
<1>2. hist' \in [calls : 0..MaxCalls, crashes : 0..MaxCrashes,
                 faults : 0..MaxFaults, lost : SUBSET Vms]
      /\ hist'.lost = hist.lost
  BY <1>1, VmRowsAssumption DEF Crash, FleetTypeOK
<1>3. ASSUME NEW u \in Vms
      PROVE  /\ host'[u] \in Hosts /\ ~Alive(u)' /\ Processes(u)' /\ Sleeps(u)'
  <2> DEFINE p == Orphaned(host[u].procs)
  <2>1. host[u] \in Hosts /\ p \in ProcSets /\ "child" \notin p /\ p \subseteq {"orphan"}
        /\ (host[u].procs = {} => p = {})
    BY <1>1 DEF Orphaned, ProcSets, FleetTypeOK
  <2>2. host'[u] = [host[u] EXCEPT !.procs = p]
    BY DEF Crash
  <2> HIDE DEF p
  <2>3. /\ host'[u] \in Hosts /\ host'[u].procs = p /\ host'[u].slot = host[u].slot
        /\ host'[u].bak = host[u].bak /\ host'[u].ran = host[u].ran
    BY <2>1, <2>2 DEF Hosts, ProcSets
  <2>4. VmInv(u)
    BY DEF FleetInv
  <2>5. ~Alive(u)' /\ Processes(u)'
    BY <1>1, <2>1, <2>3 DEF Alive, Processes, Serving
  <2>6. Sleeps(u)'
    BY <1>1, <1>2, <2>1, <2>3, <2>4 DEF VmInv, Sleeps, Saved, Asleep
  <2> QED
    BY <2>3, <2>5, <2>6
<1>4. host' \in [Vms -> Hosts]
  BY <1>3 DEF Crash
<1>5. FleetTypeOK'
  BY <1>1, <1>2, <1>4, AwayTypes DEF FleetTypeOK, NoMemory, NoLocks
<1> QED
  BY <1>1, <1>2, <1>3, <1>5, AwayStep DEF Present

\* The daemon exits after its drain.
LEMMA ExitStep ==
    ASSUME FleetInv, DaemonExit
    PROVE  FleetInv'
<1>1. /\ NoMemory' /\ NoLocks' /\ UNCHANGED <<disk, hist>> /\ daemon' = "down"
      /\ FleetTypeOK /\ Serving
  BY DEF DaemonExit, Dies, NoMemory, NoLocks, FleetInv, Serving
<1>2. ASSUME NEW u \in Vms
      PROVE  /\ row'[u] \in Rows /\ row'[u].state = row[u].state
             /\ row'[u].name = row[u].name
             /\ host'[u] \in Hosts /\ ~Alive(u)' /\ Processes(u)' /\ Sleeps(u)'
  <2> DEFINE p == host[u].procs \ {"child"}
  <2>1. /\ host[u] \in Hosts /\ p \in ProcSets /\ VmInv(u) /\ row[u] \in Rows
    BY <1>1, FieldTypes DEF ProcSets, FleetInv
  <2>2. p = {}
    BY <1>1, <2>1 DEF VmInv, Processes
  <2>3. host'[u] = [host[u] EXCEPT !.procs = p, !.tap = FALSE]
    BY DEF DaemonExit
  <2>4. row'[u] = row[u] \/ row'[u] = Untapped(row[u])
    BY DEF DaemonExit
  <2> HIDE DEF p
  <2>5. /\ host'[u] \in Hosts /\ host'[u].procs = p /\ host'[u].slot = host[u].slot
        /\ host'[u].bak = host[u].bak /\ host'[u].ran = host[u].ran
    BY <2>1, <2>3 DEF Hosts, ProcSets
  <2>6. row'[u] \in Rows /\ row'[u].state = row[u].state /\ row'[u].name = row[u].name
    BY <2>1, <2>4, RowFacts
  <2>7. ~Alive(u)' /\ Processes(u)'
    BY <1>1, <2>2, <2>5 DEF Alive, Processes, Serving
  <2>8. Sleeps(u)'
    BY <1>1, <2>1, <2>2, <2>5, <2>6 DEF VmInv, Sleeps, Saved, Asleep
  <2> QED
    BY <2>5, <2>6, <2>7, <2>8
<1>3. host' \in [Vms -> Hosts] /\ row' \in [Vms -> Rows]
  <2>1. host' = [u \in Vms |-> host'[u]] /\ row' = [u \in Vms |-> row'[u]]
    BY DEF DaemonExit
  <2> QED
    BY <1>2, <2>1
<1>4. FleetTypeOK'
  BY <1>1, <1>3, AwayTypes DEF FleetTypeOK, NoMemory, NoLocks
<1> QED
  BY <1>1, <1>2, <1>4, AwayStep DEF Present

\* What every start-up phase starts from and leaves alone.
LEMMA PhaseFacts ==
    ASSUME FleetInv, NEW from \in Phases \cup {"down"}, NEW to \in Phases \cup {"up"},
           Phase(from, to), UNCHANGED mem
    PROVE  /\ daemon = from /\ daemon' = to /\ UNCHANGED hist /\ ~Serving
           /\ NoMemory' /\ NoLocks' /\ FleetTypeOK
           /\ row' \in [Vms -> Rows] /\ host' \in [Vms -> Hosts] /\ UNCHANGED disk
                => FleetTypeOK'
<1>1. /\ daemon = from /\ daemon' = to /\ UNCHANGED <<op, hist>> /\ ~Serving
      /\ FleetTypeOK /\ to \in {"up", "draining", "down"} \cup Phases
  BY DEF Phase, Serving, Phases, FleetInv
<1>2. NoMemory' /\ NoLocks'
  BY <1>1 DEF FleetInv, Down, NoMemory, NoLocks
<1> QED
  BY <1>1, <1>2 DEF FleetTypeOK

\* The start-up steps before the sweep.
LEMMA StartSteps ==
    ASSUME FleetInv, StartDaemon \/ ReapOrphans
    PROVE  FleetInv'
<1>1. PICK from \in {"down", "reap"}, to \in {"reap", "stale"} : Phase(from, to)
  BY DEF StartDaemon, ReapOrphans
<1>2. /\ UNCHANGED <<row, mem, disk>>
      /\ \A u \in Vms : \/ host'[u] = host[u]
                        \/ host'[u] = [host[u] EXCEPT !.procs = {}]
      /\ UNCHANGED host \/ host' = [u \in Vms |-> host'[u]]
  BY DEF StartDaemon, ReapOrphans
<1>3. /\ from \in Phases \cup {"down"} /\ to \in Phases \cup {"up"} /\ to \in {"reap", "stale"}
  BY DEF Phases
<1>4. /\ daemon = from /\ daemon' = to /\ UNCHANGED hist /\ ~Serving
      /\ NoMemory' /\ NoLocks' /\ FleetTypeOK
      /\ row' \in [Vms -> Rows] /\ host' \in [Vms -> Hosts] => FleetTypeOK'
  BY <1>1, <1>2, <1>3, PhaseFacts
<1>5. ASSUME NEW u \in Vms
      PROVE  /\ host'[u] \in Hosts /\ ~Alive(u)' /\ Processes(u)' /\ Sleeps(u)'
  <2>1. host[u] \in Hosts /\ VmInv(u) /\ {} \in ProcSets
    BY <1>4, FieldTypes DEF FleetInv, ProcSets
  <2>2. /\ host'[u] \in Hosts /\ host'[u].slot = host[u].slot
        /\ host'[u].bak = host[u].bak /\ host'[u].ran = host[u].ran
        /\ host'[u].procs \in {host[u].procs, {}}
    BY <1>2, <2>1, ZenonT(40) DEF Hosts, ProcSets
  <2>3. host[u].procs \subseteq {"orphan"}
    BY <1>4, <2>1 DEF VmInv, Processes
  <2>4. ~Alive(u)' /\ Processes(u)'
    BY <1>3, <1>4, <2>2, <2>3 DEF Alive, Processes, Serving
  <2>5. Sleeps(u)'
    BY <1>2, <1>4, <2>1, <2>2 DEF VmInv, Sleeps, Saved, Asleep
  <2> QED
    BY <2>2, <2>4, <2>5
<1>6. row' \in [Vms -> Rows] /\ host' \in [Vms -> Hosts]
  BY <1>2, <1>4, <1>5 DEF FleetTypeOK
<1> QED
  BY <1>2, <1>4, <1>5, <1>6, AwayStep DEF Present

\* A stale row keeps its name; it is suspended or stopped if it is there.
LEMMA StaleFacts ==
    ASSUME NEW r \in Rows
    PROVE  /\ StaleRow(r) \in Rows /\ StaleRow(r).name = r.name
           /\ StaleRow(r).state = IF r.state \in Live THEN "stopped" ELSE r.state
           /\ StaleRow(r).status # "running"
<1> DEFINE s == CASE r.state \in Live -> Stopped(r)
                  [] r.state \in {"stopped", "suspended"} -> [r EXCEPT !.pid = FALSE]
                  [] OTHER -> r
<1>1. /\ s \in Rows /\ s.name = r.name
      /\ s.state = IF r.state \in Live THEN "stopped" ELSE r.state
  <2>1. CASE r.state \in Live
    BY <2>1, StoppedFacts DEF Live
  <2>2. CASE r.state \in {"stopped", "suspended"}
    <3>1. LET q == [r EXCEPT !.pid = FALSE] IN
          q \in Rows /\ q.name = r.name /\ q.state = r.state
      BY DEF Rows
    <3> QED
      BY <2>2, <3>1 DEF Live
  <2>3. CASE r.state \notin Live \cup {"stopped", "suspended"}
    BY <2>3 DEF Live
  <2> QED
    BY <2>1, <2>2, <2>3
<1>2. StaleRow(r) = IF s.status = "running" \/ s.state = "stopped"
                    THEN Interrupted(s) ELSE s
  BY DEF StaleRow
<1> HIDE DEF s
<1> QED
  BY <1>1, <1>2, InterruptedFacts

\* The rows of an earlier daemon are marked.
LEMMA MarkStep ==
    ASSUME FleetInv, MarkStale
    PROVE  FleetInv'
<1>1. Phase("stale", "sweep") /\ UNCHANGED <<mem, disk>>
  BY DEF MarkStale
<1>2. /\ daemon = "stale" /\ daemon' = "sweep" /\ UNCHANGED hist /\ ~Serving
      /\ NoMemory' /\ NoLocks' /\ FleetTypeOK
      /\ row' \in [Vms -> Rows] /\ host' \in [Vms -> Hosts] => FleetTypeOK'
  BY <1>1, PhaseFacts DEF Phases
<1>3. ASSUME NEW u \in Vms
      PROVE  /\ row'[u] \in Rows /\ host'[u] \in Hosts /\ row'[u].name = row[u].name
             /\ (Present(u)' <=> Present(u))
             /\ ~Alive(u)' /\ Processes(u)' /\ Sleeps(u)'
  <2>1. host[u] \in Hosts /\ VmInv(u) /\ row[u] \in Rows
    BY <1>2, FieldTypes DEF FleetInv
  <2>2. row'[u] = StaleRow(row[u])
    BY DEF MarkStale
  <2>3. /\ row'[u] \in Rows /\ row'[u].name = row[u].name
        /\ row'[u].state = IF row[u].state \in Live THEN "stopped" ELSE row[u].state
    BY <2>1, <2>2, StaleFacts
  <2>4. host'[u] = host[u] \/ host'[u] = [host[u] EXCEPT !.tap = FALSE]
    BY DEF MarkStale
  <2>5. [host[u] EXCEPT !.tap = FALSE] \in Hosts
    BY <2>1 DEF Hosts
  <2>6. /\ host'[u] \in Hosts /\ host'[u].slot = host[u].slot
        /\ host'[u].bak = host[u].bak /\ host'[u].ran = host[u].ran
        /\ host'[u].procs = host[u].procs
    BY <2>1, <2>4, <2>5 DEF Hosts
  <2>7. ~Alive(u)' /\ Processes(u)'
    BY <1>2, <2>1, <2>6 DEF VmInv, Alive, Processes, Serving
  <2>8. Sleeps(u)' /\ (Present(u)' <=> Present(u))
    BY <1>2, <2>1, <2>3, <2>6 DEF VmInv, Sleeps, Saved, Asleep, Live, Present
  <2> QED
    BY <2>3, <2>6, <2>7, <2>8
<1>4. row' \in [Vms -> Rows] /\ host' \in [Vms -> Hosts]
  <2>1. host' = [u \in Vms |-> host'[u]] /\ row' = [u \in Vms |-> row'[u]]
    BY DEF MarkStale
  <2> QED
    BY <1>3, <2>1
<1> QED
  BY <1>1, <1>2, <1>3, <1>4, AwayStep

\* Supervision leaves no process of an earlier daemon.
LEMMA SweepStep ==
    ASSUME Supervised, FleetInv, SweepCgroups
    PROVE  FleetInv'
<1>1. Phase("sweep", "suspends") /\ UNCHANGED <<row, mem, disk>>
  BY DEF SweepCgroups
<1>2. /\ daemon = "sweep" /\ daemon' = "suspends" /\ UNCHANGED hist /\ ~Serving
      /\ NoMemory' /\ NoLocks' /\ FleetTypeOK
      /\ row' \in [Vms -> Rows] /\ host' \in [Vms -> Hosts] => FleetTypeOK'
  BY <1>1, PhaseFacts DEF Phases
<1>3. ASSUME NEW u \in Vms
      PROVE  /\ host'[u] \in Hosts /\ ~Alive(u)' /\ Processes(u)' /\ Sleeps(u)'
  <2>1. host[u] \in Hosts /\ VmInv(u) /\ {} \in ProcSets
    BY <1>2, FieldTypes DEF FleetInv, ProcSets
  <2>2. host'[u] = [host[u] EXCEPT !.procs = {}, !.tap = FALSE]
    BY DEF SweepCgroups
  <2>3. /\ host'[u] \in Hosts /\ host'[u].slot = host[u].slot
        /\ host'[u].bak = host[u].bak /\ host'[u].procs = {}
    BY <2>1, <2>2 DEF Hosts, ProcSets
  <2>4. ~Alive(u)' /\ Processes(u)'
    BY <2>3 DEF Alive, Processes
  <2>5. Sleeps(u)'
    BY <1>1, <1>2, <2>1, <2>3 DEF VmInv, Sleeps, Saved, Asleep
  <2> QED
    BY <2>3, <2>4, <2>5
<1>4. row' \in [Vms -> Rows] /\ host' \in [Vms -> Hosts]
  <2>1. host' = [u \in Vms |-> host'[u]]
    BY DEF SweepCgroups
  <2> QED
    BY <1>1, <1>2, <1>3, <2>1 DEF FleetTypeOK
<1> QED
  BY <1>1, <1>2, <1>3, <1>4, AwayStep DEF Present

\* An interrupted suspend ends one way or the other.
LEMMA ReconcileStep ==
    ASSUME FleetInv, ReconcileSuspends
    PROVE  FleetInv'
<1>1. Phase("suspends", "networks") /\ UNCHANGED <<mem, disk>>
  BY DEF ReconcileSuspends
<1>2. /\ daemon = "suspends" /\ daemon' = "networks" /\ UNCHANGED hist /\ ~Serving
      /\ NoMemory' /\ NoLocks' /\ FleetTypeOK
      /\ row' \in [Vms -> Rows] /\ host' \in [Vms -> Hosts] => FleetTypeOK'
  BY <1>1, PhaseFacts DEF Phases
<1>3. ASSUME NEW u \in Vms
      PROVE  /\ row'[u] \in Rows /\ host'[u] \in Hosts /\ row'[u].name = row[u].name
             /\ (Present(u)' <=> Present(u))
             /\ ~Alive(u)' /\ Processes(u)' /\ Sleeps(u)'
  <2>1. host[u] \in Hosts /\ VmInv(u) /\ row[u] \in Rows
    BY <1>2, FieldTypes DEF FleetInv
  <2>2. host[u].procs = {}
    BY <1>2, <2>1 DEF VmInv, Processes
  <2>3. CASE row[u].state # "suspending"
    <3>1. row'[u] = row[u] /\ host'[u] = host[u]
      BY <2>3 DEF ReconcileSuspends
    <3> QED
      BY <1>2, <2>1, <2>2, <3>1 DEF VmInv, Present, Alive, Processes, Sleeps, Saved, Asleep
  <2>4. CASE row[u].state = "suspending"
    <3> DEFINE p == IF row[u].pid THEN {} ELSE host[u].procs
               s == IF Saved(u) THEN host[u].slot ELSE "none"
    <3>1. /\ host'[u] = [host[u] EXCEPT !.procs = p, !.slot = s]
          /\ row'[u] = IF Saved(u)
                       THEN Runtime(row[u], "suspended", FALSE) ELSE Stopped(row[u])
      BY <2>4 DEF ReconcileSuspends
    <3>2. p \in ProcSets /\ s \in Slots /\ p = {}
          /\ (Saved(u) => s \in {"stale", "complete"})
      BY <2>2 DEF ProcSets, Saved, Slots
    <3> HIDE DEF p, s
    <3>3. /\ host'[u] \in Hosts /\ host'[u].slot = s /\ host'[u].procs = {}
          /\ host'[u].bak = host[u].bak /\ host'[u].ran = host[u].ran
      BY <2>1, <3>1, <3>2 DEF Hosts, ProcSets
    <3>4. /\ row'[u] \in Rows /\ row'[u].name = row[u].name
          /\ row'[u].state = IF Saved(u) THEN "suspended" ELSE "stopped"
      <4>1. CASE Saved(u)
        <5>1. LET q == Runtime(row[u], "suspended", FALSE) IN
              q \in Rows /\ q.name = row[u].name /\ q.state = "suspended"
          BY <2>1, RowFacts, Literals, ZenonT(40)
        <5> QED
          BY <3>1, <4>1, <5>1
      <4>2. CASE ~Saved(u)
        BY <2>1, <2>4, <3>1, <4>2, StoppedFacts
      <4> QED
        BY <4>1, <4>2
    <3>5. ~Alive(u)' /\ Processes(u)' /\ (Present(u)' <=> Present(u))
      BY <2>4, <3>3, <3>4 DEF Alive, Processes, Present
    <3>6. Sleeps(u)'
      BY <1>2, <2>1, <2>4, <3>2, <3>3, <3>4 DEF VmInv, Sleeps, Saved, Asleep
    <3> QED
      BY <3>3, <3>4, <3>5, <3>6
  <2> QED
    BY <2>3, <2>4
<1>4. row' \in [Vms -> Rows] /\ host' \in [Vms -> Hosts]
  <2>1. host' = [u \in Vms |-> host'[u]] /\ row' = [u \in Vms |-> row'[u]]
    BY DEF ReconcileSuspends
  <2> QED
    BY <1>3, <2>1
<1> QED
  BY <1>1, <1>2, <1>3, <1>4, AwayStep

\* The networks of suspended VMs come back, and the daemon serves.
LEMMA RestoreStep ==
    ASSUME FleetInv, RestoreNetworks
    PROVE  FleetInv'
<1>1. Phase("networks", "up") /\ UNCHANGED <<row, mem, disk>>
  BY DEF RestoreNetworks
<1>2. /\ daemon = "networks" /\ daemon' = "up" /\ UNCHANGED hist /\ ~Serving
      /\ NoMemory' /\ NoLocks' /\ FleetTypeOK
      /\ row' \in [Vms -> Rows] /\ host' \in [Vms -> Hosts] => FleetTypeOK'
  BY <1>1, PhaseFacts DEF Phases
<1>3. PICK ok : host' = [v \in Vms |-> IF v \in ok /\ row[v].tapdev
                                 THEN [host[v] EXCEPT !.tap = TRUE]
                                 ELSE host[v]]
  BY DEF RestoreNetworks
<1>4. ASSUME NEW u \in Vms
      PROVE  /\ host'[u] \in Hosts /\ ~Alive(u)' /\ Processes(u)' /\ Sleeps(u)'
  <2>1. host[u] \in Hosts /\ VmInv(u)
    BY <1>2, FieldTypes DEF FleetInv
  <2>2. host[u].procs = {}
    BY <1>2, <2>1 DEF VmInv, Processes
  <2>3. host'[u] = [host[u] EXCEPT !.tap = TRUE] \/ host'[u] = host[u]
    BY <1>3
  <2>4. [host[u] EXCEPT !.tap = TRUE] \in Hosts
    BY <2>1 DEF Hosts
  <2>5. /\ host'[u] \in Hosts /\ host'[u].slot = host[u].slot
        /\ host'[u].bak = host[u].bak /\ host'[u].procs = host[u].procs
    BY <2>1, <2>3, <2>4 DEF Hosts
  <2>6. ~Alive(u)' /\ Processes(u)'
    BY <2>2, <2>5 DEF Alive, Processes
  <2>7. Sleeps(u)'
    BY <1>1, <1>2, <2>1, <2>2, <2>5 DEF VmInv, Sleeps, Saved, Asleep
  <2> QED
    BY <2>5, <2>6, <2>7
<1>5. row' \in [Vms -> Rows] /\ host' \in [Vms -> Hosts]
  BY <1>1, <1>2, <1>3, <1>4 DEF FleetTypeOK
<1> QED
  BY <1>1, <1>2, <1>4, <1>5, AwayStep DEF Present

\* The invariant holds at the start.
LEMMA InitInv ==
    ASSUME RowsInit
    PROVE  FleetInv
<1>1. PICK s \in {"running", "suspended"}, n \in Names :
        LET up == s = "running" IN
        /\ row = [v \in Vms |->
                [state |-> IF v = First THEN s ELSE "absent",
                 pid |-> v = First /\ up, anchor |-> v = First /\ ~up,
                 name |-> n, tapdev |-> v = First, parent |-> NoVm,
                 status |-> IF v = First /\ v \in Scripted
                            THEN IF up THEN "pending" ELSE "interrupted"
                            ELSE "none"]]
        /\ mem = [v \in Vms |-> IF v = First /\ up
                                  THEN [NoMem EXCEPT !.inst = "running"]
                                  ELSE NoMem]
        /\ host = [v \in Vms |->
                [procs |-> IF v = First /\ up THEN {"child"} ELSE {},
                 slot |-> IF v = First /\ ~up THEN "complete" ELSE "none",
                 bak |-> FALSE, tap |-> v = First, ran |-> FALSE]]
        /\ disk = [m \in Names |-> IF m = n THEN First ELSE NoVm]
  BY DEF RowsInit
<1>2. NoLocks /\ Serving
      /\ hist = [calls |-> 0, crashes |-> 0, faults |-> 0, lost |-> {}]
      /\ daemon = "up"
  BY DEF RowsInit, NoLocks, Serving
<1>3. ASSUME NEW u \in Vms
      PROVE  /\ row[u] \in Rows /\ row[u].name = n
             /\ row[u].state = IF u = First THEN s ELSE "absent"
  BY <1>1 DEF Rows, States
<1>4. ASSUME NEW u \in Vms
      PROVE  /\ host[u] \in Hosts /\ ~host[u].bak
             /\ host[u].procs = IF u = First /\ s = "running" THEN {"child"} ELSE {}
             /\ host[u].slot = IF u = First /\ s # "running" THEN "complete" ELSE "none"
             /\ (u = First => host[u].tap)
  BY <1>1 DEF Hosts, Slots
<1>5. ASSUME NEW u \in Vms
      PROVE  /\ mem[u] \in Memories /\ ~mem[u].condemned
             /\ (u = First /\ s = "running" => mem[u].inst = "running")
  <2>1. NoMem \in Memories /\ NoMem.condemned = FALSE
    BY VmRowsAssumption DEF Memories, NoMem
  <2>2. CASE u = First /\ s = "running"
    <3>1. mem[u] = [NoMem EXCEPT !.inst = "running"]
      BY <1>1, <2>2
    <3> QED
      BY <2>1, <3>1 DEF Memories
  <2>3. CASE ~(u = First /\ s = "running")
    BY <1>1, <2>1, <2>3
  <2> QED
    BY <2>2, <2>3
<1>6. FleetTypeOK
  <2>1. row \in [Vms -> Rows] /\ host \in [Vms -> Hosts] /\ mem \in [Vms -> Memories]
    <3>1. /\ row = [v \in Vms |-> row[v]] /\ host = [v \in Vms |-> host[v]]
          /\ mem = [v \in Vms |-> mem[v]]
      BY <1>1
    <3> QED
      BY <1>3, <1>4, <1>5, <3>1
  <2>2. disk \in [Names -> Vms \cup {NoVm}]
    BY <1>1, VmRowsAssumption
  <2>3. hist \in [calls : 0..MaxCalls, crashes : 0..MaxCrashes,
                  faults : 0..MaxFaults, lost : SUBSET Vms]
    BY <1>2, VmRowsAssumption
  <2> QED
    BY <1>2, <2>1, <2>2, <2>3, AwayTypes DEF FleetTypeOK, NoLocks
<1>7. ASSUME NEW u \in Vms PROVE VmInv(u)
  <2>1. Processes(u)
    BY <1>2, <1>4, <1>5 DEF Processes, Alive
  <2>2. Sleeps(u)
    BY <1>2, <1>3, <1>4 DEF Sleeps, Saved, Asleep
  <2>3. HasDisk(u)
    BY <1>1, <1>3 DEF HasDisk, Present
  <2>4. Wired(u) /\ Expected(u)
    BY <1>4, <1>5 DEF Wired, Expected, Alive
  <2> QED
    BY <2>1, <2>2, <2>3, <2>4 DEF VmInv
<1>8. ASSUME NEW m \in Names PROVE OpInv(m) /\ Claimed(m) = NoVm
  <2>1. op[m].kind = "free" /\ Claimed(m) = NoVm
    BY <1>2, NoOpFacts DEF NoLocks, Claimed, Creates
  <2> QED
    BY <2>1 DEF OpInv, RowOp, SuspendOp, ResumeOp, DestroyOp, CreateOp, ForkOp,
                Claims, RowKinds, Suspends, Destroys, Creates
<1>9. NamesUnique /\ ClaimsDistinct /\ Down
  BY <1>2, <1>3, <1>8 DEF NamesUnique, ClaimsDistinct, Down, Present
<1> QED
  BY <1>6, <1>7, <1>8, <1>9 DEF FleetInv

\* A step that changes nothing keeps it.
LEMMA StutterStep ==
    ASSUME FleetInv, UNCHANGED vars
    PROVE  FleetInv'
<1>1. UNCHANGED <<row, mem, host, disk, op, daemon, hist>> /\ FleetTypeOK
  BY DEF vars, FleetInv
<1>2. ASSUME NEW u \in Vms PROVE VmInv(u)'
  <2>1. VmInv(u)
    BY DEF FleetInv
  <2> QED
    BY <1>1, <2>1, VmKept
<1>3. ASSUME NEW n \in Names PROVE OpInv(n)'
  <2>1. OpInv(n)
    BY DEF FleetInv
  <2> QED
    BY <1>1, <2>1 DEF OpInv, RowOp, SuspendOp, ResumeOp, DestroyOp, CreateOp, ForkOp,
                      Claims, Claimed, Paired, Vm, Present, Alive, Asleep
<1>4. FleetTypeOK' /\ NamesUnique' /\ ClaimsDistinct' /\ Down'
  BY <1>1 DEF FleetInv, FleetTypeOK, NamesUnique, ClaimsDistinct, Down, Present,
              Claimed, Paired, Serving
<1> QED
  BY <1>2, <1>3, <1>4 DEF FleetInv

-----------------------------------------------------------------------------
(* The invariant is inductive.                                             *)

\* Every step of an operation that holds a lock keeps the invariant.
LEMMA RunningStep ==
    ASSUME FleetInv, NEW n \in Names, Running(n)
    PROVE  FleetInv'
<1>1. CASE Suspending(n) \/ Resuming(n)
  BY <1>1, SuspendSteps, ResumeSteps
<1>2. CASE Cancel(n) \/ RecoverUserdata(n)
  BY <1>2, StopSteps DEF Stopping
<1>3. CASE Ending(n)
  BY <1>3, StopSteps, DestroySteps, DestroyCheckStep, DestroyRetireStep
     DEF Ending, Stopping, Destroying
<1>4. CASE Creating(n)
  BY <1>4, CreateSteps, CommitStep, RollbackStep, ForkLockStep, ForkAliasStep,
     ForkLoadStep DEF Creating
<1> QED
  BY <1>1, <1>2, <1>3, <1>4 DEF Running

\* So do the requests of clients, the daemon's own tasks and the guests.
LEMMA VmStep ==
    ASSUME FleetInv, NEW v \in Vms, Clients(v) \/ Background(v) \/ GuestExit(v)
    PROVE  FleetInv'
<1>1. CASE Clients(v)
  BY <1>1, RowLocks, CreateLocks, MemorySteps, RowlessSteps, ForwardSteps DEF Clients
<1>2. CASE Background(v)
  BY <1>2, RowLocks, MemorySteps, RowlessSteps, GuestSteps, ForwardSteps, ReclaimStep
     DEF Background
<1>3. CASE GuestExit(v)
  BY <1>3, GuestSteps
<1> QED
  BY <1>1, <1>2, <1>3

\* Every step keeps the invariant, if the daemon is supervised.
LEMMA NextInv ==
    ASSUME Supervised, FleetInv, [Next]_vars
    PROVE  FleetInv'
<1>1. CASE \E n \in Names : Running(n)
  BY <1>1, RunningStep
<1>2. CASE \E v \in Vms : Clients(v) \/ Background(v) \/ GuestExit(v)
  BY <1>2, VmStep
<1>3. CASE Crash \/ DrainBegin \/ DaemonExit
  BY <1>3, CrashStep, DrainStep, ExitStep
<1>4. CASE Starting
  BY <1>4, StartSteps, MarkStep, SweepStep, ReconcileStep, RestoreStep DEF Starting
<1>5. CASE UNCHANGED vars
  BY <1>5, StutterStep
<1> QED
  BY <1>1, <1>2, <1>3, <1>4, <1>5 DEF Next

-----------------------------------------------------------------------------
(* The theorems: a daemon under cgroup supervision, whose sweep at start-up *)
(* leaves no process of an earlier one.                                     *)

\* The invariant holds at every await of every operation and through every crash.
THEOREM FleetInvariant == ASSUME Supervised PROVE Spec => []FleetInv
<1>1. RowsInit => FleetInv
  BY InitInv
<1>2. FleetInv /\ [Next]_vars => FleetInv'
  BY NextInv
<1> QED
  BY <1>1, <1>2, PTL DEF Spec

\* Rows, instance table, host, locks and directories keep their types.
THEOREM FleetTypes == ASSUME Supervised PROVE Spec => []FleetTypeOK
<1>1. FleetInv => FleetTypeOK
  BY DEF FleetInv
<1> QED
  BY <1>1, FleetInvariant, PTL

\* With cgroup supervision no VM is run by two VMM processes: a serving daemon has
\* at most its own child, because the sweep has ended what an earlier one left.
\* The property says nothing of a daemon without supervision.
THEOREM OneVmmPerVm == Spec => []SoleVmm
<1>1. FleetInv => SoleVmm
  <2> SUFFICES ASSUME FleetInv, NEW v \in Vms
               PROVE  Cardinality(host[v].procs) <= 1
    BY DEF SoleVmm
  <2>1. PICK p : host[v].procs \subseteq {p}
    BY DEF FleetInv, VmInv, Processes
  <2>2. host[v].procs = {} \/ host[v].procs = {p}
    BY <2>1
  <2>3. Cardinality({}) = 0 /\ Cardinality({p}) = 1
    BY FS_EmptySet, FS_Singleton
  <2> QED
    BY <2>2, <2>3
<1>2. ASSUME Supervised PROVE Spec => []SoleVmm
  BY <1>1, <1>2, FleetInvariant, PTL
<1>3. ASSUME ~Supervised PROVE Spec => []SoleVmm
  <2>1. SoleVmm
    BY <1>3 DEF SoleVmm
  <2> QED
    BY <2>1, PTL
<1> QED
  BY <1>2, <1>3

\* A VM whose row says suspended has a complete snapshot, unless somebody asked
\* to stop or destroy it.
THEOREM SuspendedVmsResume == ASSUME Supervised PROVE Spec => []SuspendedResumable
<1>1. FleetInv => SuspendedResumable
  BY DEF FleetInv, VmInv, Sleeps, SuspendedResumable
<1> QED
  BY <1>1, FleetInvariant, PTL

\* The directory of a name holds the disk of the generation that has the name.
THEOREM RowsHaveTheirDisks == ASSUME Supervised PROVE Spec => []RowHasItsDisk
<1>1. FleetInv => RowHasItsDisk
  BY DEF FleetInv, VmInv, HasDisk, Present, RowHasItsDisk
<1> QED
  BY <1>1, FleetInvariant, PTL

\* A guest that the row says is running is on its bridge.
THEOREM GuestsAreWired == ASSUME Supervised PROVE Spec => []GuestIsWired
<1>1. FleetInv => GuestIsWired
  BY DEF FleetInv, VmInv, Wired, GuestIsWired
<1> QED
  BY <1>1, FleetInvariant, PTL

-----------------------------------------------------------------------------
(* What the steps leave alone: no script starts to run, no task ends, no    *)
(* process is spawned, unless the step says so.                             *)

ScriptsKept == \A u \in Vms : row'[u].status = row[u].status \/ row'[u].status # "running"
TasksKept   == \A u \in Vms : mem'[u].job = mem[u].job
NoneSpawned == \A u \in Vms : "child" \in host'[u].procs => "child" \in host[u].procs

\* One row is written, and its script does not start to run.
LEMMA ScriptKept ==
    ASSUME row \in [Vms -> Rows], NEW v, NEW r, SetRow(v, r),
           v \in Vms => r.status = row[v].status \/ r.status # "running"
    PROVE  ScriptsKept
  BY DEF SetRow, ScriptsKept

\* The row writes of the operations.
LEMMA ScriptFacts ==
    ASSUME FleetTypeOK, NEW v
    PROVE  /\ UNCHANGED row => ScriptsKept
           /\ \A s \in States \cup {"absent"} : SetState(v, s) => ScriptsKept
           /\ \A s \in States, p \in BOOLEAN : SetRuntime(v, s, p) => ScriptsKept
           /\ \A b \in BOOLEAN : SetRow(v, Anchored(row[v], b)) => ScriptsKept
           /\ SetRow(v, Untapped(row[v])) => ScriptsKept
           /\ SetRow(v, Stopped(row[v])) => ScriptsKept
           /\ SetRow(v, Retired(row[v])) => ScriptsKept
           /\ SetRow(v, Interrupted(row[v])) => ScriptsKept
           /\ SetRow(v, Interrupted(Stopped(row[v]))) => ScriptsKept
           /\ SetRow(v, Interrupted(Runtime(row[v], "suspended", FALSE))) => ScriptsKept
           /\ SetRow(v, Interrupted(InState(row[v], "paused"))) => ScriptsKept
<1>1. row \in [Vms -> Rows] /\ (v \in Vms => row[v] \in Rows)
  BY DEF FleetTypeOK
<1>2. ASSUME v \in Vms
      PROVE  /\ \A s \in States \cup {"absent"} :
                   /\ InState(row[v], s) \in Rows
                   /\ InState(row[v], s).status = row[v].status
             /\ \A s \in States \cup {"absent"}, p \in BOOLEAN :
                   /\ Runtime(row[v], s, p) \in Rows
                   /\ Runtime(row[v], s, p).status = row[v].status
             /\ \A b \in BOOLEAN : Anchored(row[v], b).status = row[v].status
             /\ Untapped(row[v]).status = row[v].status
  <2>1. row[v] \in Rows
    BY <1>1, <1>2
  <2> QED
    BY <2>1, RowFacts
<1>3. ASSUME v \in Vms
      PROVE  /\ Stopped(row[v]) \in Rows /\ Stopped(row[v]).status = row[v].status
             /\ Retired(row[v]).status # "running"
  <2>1. row[v] \in Rows
    BY <1>1, <1>3
  <2> QED
    BY <2>1, StoppedFacts DEF Retired
<1>4. ASSUME v \in Vms
      PROVE  /\ Interrupted(row[v]).status # "running"
             /\ Interrupted(Stopped(row[v])).status # "running"
             /\ Interrupted(Runtime(row[v], "suspended", FALSE)).status # "running"
             /\ Interrupted(InState(row[v], "paused")).status # "running"
  <2>1. row[v] \in Rows /\ Stopped(row[v]) \in Rows
    BY <1>1, <1>3, <1>4
  <2>2. Runtime(row[v], "suspended", FALSE) \in Rows /\ InState(row[v], "paused") \in Rows
    BY <1>2, <1>4, Literals
  <2> QED
    BY <2>1, <2>2, InterruptedFacts
<1>5. UNCHANGED row => ScriptsKept
  BY DEF ScriptsKept
<1>6. \A s \in States \cup {"absent"} : SetState(v, s) => ScriptsKept
  BY <1>1, <1>2, ScriptKept DEF SetState
<1>7. \A s \in States, p \in BOOLEAN : SetRuntime(v, s, p) => ScriptsKept
  BY <1>1, <1>2, ScriptKept DEF SetRuntime
<1>8. /\ \A b \in BOOLEAN : SetRow(v, Anchored(row[v], b)) => ScriptsKept
      /\ SetRow(v, Untapped(row[v])) => ScriptsKept
  BY <1>1, <1>2, ScriptKept
<1>9. /\ SetRow(v, Stopped(row[v])) => ScriptsKept
      /\ SetRow(v, Retired(row[v])) => ScriptsKept
  BY <1>1, <1>3, ScriptKept
<1>10. /\ SetRow(v, Interrupted(row[v])) => ScriptsKept
       /\ SetRow(v, Interrupted(Stopped(row[v]))) => ScriptsKept
       /\ SetRow(v, Interrupted(Runtime(row[v], "suspended", FALSE))) => ScriptsKept
       /\ SetRow(v, Interrupted(InState(row[v], "paused"))) => ScriptsKept
  BY <1>1, <1>4, ScriptKept
<1> QED
  BY <1>5, <1>6, <1>7, <1>8, <1>9, <1>10

\* One VM's memory is written, and its task stays.
LEMMA TaskKept ==
    ASSUME FleetTypeOK, NEW v, NEW m, SetMem(v, m), v \in Vms => m.job = mem[v].job
    PROVE  TasksKept
  BY DEF SetMem, TasksKept, FleetTypeOK

\* The writes of the operations.
LEMMA TaskFacts ==
    ASSUME FleetTypeOK, NEW v
    PROVE  /\ UNCHANGED mem => TasksKept
           /\ \A s : SetInst(v, s) => TasksKept
<1>1. v \in Vms => mem[v] \in Memories
  BY DEF FleetTypeOK
<1>2. ASSUME NEW s, v \in Vms PROVE [mem[v] EXCEPT !.inst = s].job = mem[v].job
  BY <1>1, <1>2 DEF Memories
<1>3. \A s : SetInst(v, s) => TasksKept
  BY <1>2, TaskKept DEF SetInst
<1>4. UNCHANGED mem => TasksKept
  BY DEF TasksKept
<1> QED
  BY <1>3, <1>4

\* One VM's host record is written, and no process is spawned.
LEMMA SpawnedNone ==
    ASSUME FleetTypeOK, NEW v, NEW h, SetHost(v, h),
           v \in Vms => ("child" \in h.procs => "child" \in host[v].procs)
    PROVE  NoneSpawned
  BY DEF SetHost, NoneSpawned, FleetTypeOK

\* The writes of the operations.
LEMMA SpawnFacts ==
    ASSUME FleetTypeOK, NEW v
    PROVE  /\ UNCHANGED host => NoneSpawned
           /\ \A s : SetSlot(v, s) => NoneSpawned
           /\ \A b : SetTap(v, b) => NoneSpawned
           /\ Captured(v) => NoneSpawned
           /\ Reaped(v) => NoneSpawned
<1>1. v \in Vms => host[v] \in Hosts
  BY DEF FleetTypeOK
<1>2. UNCHANGED host => NoneSpawned
  BY DEF NoneSpawned
<1>3. \A s : SetSlot(v, s) => NoneSpawned
  <2>1. ASSUME NEW s, v \in Vms PROVE [host[v] EXCEPT !.slot = s].procs = host[v].procs
    BY <1>1, <2>1 DEF Hosts
  <2> QED
    BY <2>1, SpawnedNone DEF SetSlot
<1>4. \A b : SetTap(v, b) => NoneSpawned
  <2>1. ASSUME NEW b, v \in Vms PROVE [host[v] EXCEPT !.tap = b].procs = host[v].procs
    BY <1>1, <2>1 DEF Hosts
  <2> QED
    BY <2>1, SpawnedNone DEF SetTap
<1>5. Captured(v) => NoneSpawned
  <2>1. ASSUME NEW l, v \in Vms
        PROVE  [host[v] EXCEPT !.slot = l, !.ran = FALSE].procs = host[v].procs
    BY <1>1, <2>1 DEF Hosts
  <2>2. Captured(v) => \E l : SetHost(v, [host[v] EXCEPT !.slot = l, !.ran = FALSE])
    BY DEF Captured
  <2> QED
    BY <2>1, <2>2, SpawnedNone
<1>6. Reaped(v) => NoneSpawned
  <2>1. ASSUME v \in Vms
        PROVE  "child" \notin [host[v] EXCEPT !.procs = @ \ {"child"}].procs
    BY <1>1, <2>1 DEF Hosts
  <2> QED
    BY <2>1, SpawnedNone DEF Reaped
<1> QED
  BY <1>2, <1>3, <1>4, <1>5, <1>6

\* The state an operation found.
LEMMA WasState ==
    ASSUME FleetTypeOK, NEW n \in Names
    PROVE  op[n].was \in States \cup {"absent"}
  BY DEF FleetTypeOK, Operations

\* What else is remembered of a VM changes without its task.
LEMMA MemoryFacts ==
    ASSUME FleetTypeOK, NEW v
    PROVE  /\ \A x : SetMem(v, [mem[v] EXCEPT !.sessions = x]) => TasksKept
           /\ \A x : SetMem(v, [mem[v] EXCEPT !.condemned = x]) => TasksKept
           /\ \A x : SetMem(v, [mem[v] EXCEPT !.conn = x]) => TasksKept
           /\ \A x : SetMem(v, [mem[v] EXCEPT !.verdict = x]) => TasksKept
           /\ \A x : SetMem(v, [mem[v] EXCEPT !.probe = x]) => TasksKept
           /\ \A x, y : SetMem(v, [mem[v] EXCEPT !.conn = x, !.sessions = y]) => TasksKept
           /\ \A x, y : SetMem(v, [mem[v] EXCEPT !.inst = x, !.probe = y]) => TasksKept
           /\ \A x, y : SetMem(v, [mem[v] EXCEPT !.inst = x, !.verdict = y]) => TasksKept
<1>1. v \in Vms => mem[v] \in Memories
  BY DEF FleetTypeOK
<1>2. ASSUME NEW x, v \in Vms
      PROVE  /\ [mem[v] EXCEPT !.sessions = x].job = mem[v].job
             /\ [mem[v] EXCEPT !.condemned = x].job = mem[v].job
             /\ [mem[v] EXCEPT !.conn = x].job = mem[v].job
             /\ [mem[v] EXCEPT !.verdict = x].job = mem[v].job
             /\ [mem[v] EXCEPT !.probe = x].job = mem[v].job
  BY <1>1, <1>2 DEF Memories
<1>3. ASSUME NEW x, NEW y, v \in Vms
      PROVE  /\ [mem[v] EXCEPT !.conn = x, !.sessions = y].job = mem[v].job
             /\ [mem[v] EXCEPT !.inst = x, !.probe = y].job = mem[v].job
             /\ [mem[v] EXCEPT !.inst = x, !.verdict = y].job = mem[v].job
  BY <1>1, <1>3 DEF Memories
<1> QED
  BY <1>2, <1>3, TaskKept

Quiet == ScriptsKept /\ TasksKept /\ UNCHANGED daemon

\* suspend_vm starts no script and no process.
LEMMA SuspendQuiet ==
    ASSUME FleetTypeOK, NEW n \in Names, Suspending(n)
    PROVE  Quiet /\ NoneSpawned
<1>1. CASE SuspendMark(n)
  BY <1>1, ScriptFacts, TaskFacts, SpawnFacts, Literals DEF SuspendMark, Quiet
<1>2. CASE SuspendPause(n)
  BY <1>2, ScriptFacts, TaskFacts, SpawnFacts DEF SuspendPause, Quiet, PauseGuest
<1>3. CASE SuspendCapture(n)
  BY <1>3, ScriptFacts, TaskFacts, SpawnFacts DEF SuspendCapture, Quiet
<1>4. CASE SuspendManifest(n)
  BY <1>4, ScriptFacts, TaskFacts, SpawnFacts DEF SuspendManifest, Quiet
<1>5. CASE SuspendUndo(n)
  BY <1>5, ScriptFacts, TaskFacts, SpawnFacts, WasState DEF SuspendUndo, Quiet
<1>6. CASE SuspendKill(n)
  BY <1>6, ScriptFacts, TaskFacts, SpawnFacts DEF SuspendKill, Quiet, DestroyGuest
<1>7. CASE SuspendCommit(n)
  BY <1>7, ScriptFacts, TaskFacts, SpawnFacts DEF SuspendCommit, Quiet
<1>8. CASE SuspendStamp(n)
  BY <1>8, ScriptFacts, TaskFacts, SpawnFacts DEF SuspendStamp, Quiet
<1>9. CASE SuspendListen(n)
  BY <1>9, ScriptFacts, TaskFacts, SpawnFacts DEF SuspendListen, Quiet
<1>10. CASE SuspendUnroute(n)
  BY <1>10, ScriptFacts, TaskFacts, SpawnFacts DEF SuspendUnroute, Quiet
<1> QED
  BY <1>1, <1>2, <1>3, <1>4, <1>5, <1>6, <1>7, <1>8, <1>9, <1>10 DEF Suspending

\* resume_vm starts no script, and one process.
LEMMA ResumeQuiet ==
    ASSUME FleetTypeOK, NEW n \in Names, Resuming(n)
    PROVE  Quiet /\ (NoneSpawned \/ ResumeRestore(n))
<1>1. CASE ResumeUnpause(n)
  BY <1>1, ScriptFacts, TaskFacts, SpawnFacts, Literals DEF ResumeUnpause, Quiet, ResumeGuest
<1>2. CASE ResumeRewire(n)
  BY <1>2, ScriptFacts, TaskFacts, SpawnFacts DEF ResumeRewire, Quiet
<1>3. CASE ResumeRestore(n)
  BY <1>3, ScriptFacts, TaskFacts, SpawnFacts DEF ResumeRestore, Quiet, Spawned, AbortGuest
<1>4. CASE ResumeCommit(n)
  BY <1>4, ScriptFacts, TaskFacts, SpawnFacts, Literals DEF ResumeCommit, Quiet
<1>5. CASE ResumeDiscard(n)
  BY <1>5, ScriptFacts, TaskFacts, SpawnFacts DEF ResumeDiscard, DropSlot, Quiet
<1>6. CASE ResumeRoute(n)
  BY <1>6, ScriptFacts, TaskFacts, SpawnFacts DEF ResumeRoute, Quiet
<1>7. CASE ResumeDrain(n)
  BY <1>7, ScriptFacts, TaskFacts, SpawnFacts DEF ResumeDrain, Quiet
<1> QED
  BY <1>1, <1>2, <1>3, <1>4, <1>5, <1>6, <1>7 DEF Resuming

\* stop_vm, pause_vm and destroy_vm, except for what cancels a script.
LEMMA EndQuiet ==
    ASSUME FleetTypeOK, NEW n \in Names, Ending(n), ~StopDiscard(n)
    PROVE  Quiet /\ NoneSpawned
<1>1. CASE ShutDownGuest(n)
  BY <1>1, ScriptFacts, TaskFacts, SpawnFacts DEF ShutDownGuest, Quiet
<1>2. CASE StopKill(n)
  BY <1>2, ScriptFacts, TaskFacts, SpawnFacts DEF StopKill, Quiet, StopGuest
<1>3. CASE StopCommit(n)
  BY <1>3, ScriptFacts, TaskFacts, SpawnFacts DEF StopCommit, Quiet
<1>4. CASE PauseCommit(n)
  BY <1>4, ScriptFacts, TaskFacts, SpawnFacts DEF PauseCommit, Quiet, PauseGuest
<1>5. CASE DestroyCheck(n)
  BY <1>5, ScriptFacts, TaskFacts, SpawnFacts DEF DestroyCheck, Quiet
<1>6. CASE DestroyKill(n)
  BY <1>6, ScriptFacts, TaskFacts, SpawnFacts DEF DestroyKill, Quiet, DestroyGuest
<1>7. CASE DestroyRmdir(n)
  BY <1>7, ScriptFacts, TaskFacts, SpawnFacts DEF DestroyRmdir, Quiet
<1>8. CASE DestroyUnwire(n)
  BY <1>8, ScriptFacts, TaskFacts, SpawnFacts DEF DestroyUnwire, Quiet, Released
<1>9. CASE DestroyRetire(n)
  BY <1>9, ScriptFacts, SpawnFacts, MemoryFacts DEF DestroyRetire, DropSlot, Quiet
<1> QED
  BY <1>1, <1>2, <1>3, <1>4, <1>5, <1>6, <1>7, <1>8, <1>9 DEF Ending

\* create_vm and fork_vm.
LEMMA CreateQuiet ==
    ASSUME FleetTypeOK, NEW n \in Names, Creating(n)
    PROVE  Quiet /\ (NoneSpawned \/ CreateSpawn(n) \/ ForkAlias(n))
<1>1. CASE CreateWire(n)
  BY <1>1, ScriptFacts, TaskFacts, SpawnFacts DEF CreateWire, Quiet
<1>2. CASE CreateDisk(n)
  BY <1>2, ScriptFacts, TaskFacts, SpawnFacts DEF CreateDisk, Quiet
<1>3. CASE CreateSpawn(n)
  BY <1>3, ScriptFacts, TaskFacts, SpawnFacts DEF CreateSpawn, Quiet, Spawned
<1>4. CASE CreateCommit(n)
  <2>1. UNCHANGED row => ScriptsKept
    BY ScriptFacts
  <2>2. ScriptsKept
    BY <1>4, <2>1, ScriptKept DEF CreateCommit, FleetTypeOK
  <2> QED
    BY <1>4, <2>2, TaskFacts, SpawnFacts DEF CreateCommit, Quiet
<1>5. CASE RollbackCreate(n)
  <2>1. Quiet /\ (UNCHANGED host => NoneSpawned)
    BY <1>5, ScriptFacts, TaskFacts, SpawnFacts DEF RollbackCreate, Quiet
  <2>2. ASSUME NEW u \in Vms, ~UNCHANGED host, "child" \in host'[u].procs
        PROVE  "child" \in host[u].procs
    <3>1. host[u] \in Hosts
      BY DEF FleetTypeOK
    <3>2. \/ host'[u] = [host[u] EXCEPT !.procs = @ \ {"child"}, !.tap = FALSE]
          \/ host'[u] = [host[u] EXCEPT !.bak = FALSE]
          \/ host'[u] = host[u]
      BY <1>5, <2>2 DEF RollbackCreate
    <3> QED
      BY <2>2, <3>1, <3>2 DEF Hosts
  <2> QED
    BY <2>1, <2>2 DEF NoneSpawned
<1>6. CASE ForkLock(n)
  BY <1>6, ScriptFacts, TaskFacts, SpawnFacts DEF ForkLock, Quiet
<1>7. CASE ForkAlias(n)
  BY <1>7, ScriptFacts, TaskFacts, SpawnFacts DEF ForkAlias, Quiet
<1>8. CASE ForkLoad(n)
  <2>1. Quiet /\ (UNCHANGED host => NoneSpawned)
    BY <1>8, ScriptFacts, TaskFacts, SpawnFacts DEF ForkLoad, Quiet
  <2>2. PICK s : s = op[n].other
    OBVIOUS
  <2>3. s \in Vms => [host[s] EXCEPT !.bak = FALSE].procs = host[s].procs
    BY DEF FleetTypeOK, Hosts
  <2>4. UNCHANGED host \/ SetHost(s, [host[s] EXCEPT !.bak = FALSE])
    BY <1>8, <2>2 DEF ForkLoad
  <2> QED
    BY <2>1, <2>3, <2>4, SpawnedNone
<1>9. CASE ForkRehome(n)
  BY <1>9, ScriptFacts, TaskFacts, SpawnFacts DEF ForkRehome, Quiet
<1> QED
  BY <1>1, <1>2, <1>3, <1>4, <1>5, <1>6, <1>7, <1>8, <1>9 DEF Creating

\* The requests of clients, except for the start of a script.
LEMMA ClientQuiet ==
    ASSUME FleetTypeOK, NEW v \in Vms, Clients(v), ~RunUserdata(v)
    PROVE  Quiet /\ NoneSpawned
<1>1. CASE SuspendVm(v) \/ StopVm(v) \/ PauseVm(v)
  BY <1>1, ScriptFacts, TaskFacts, SpawnFacts DEF SuspendVm, StopVm, PauseVm, Begin, Quiet
<1>2. CASE ResumeVm(v)
  BY <1>2, ScriptFacts, TaskFacts, SpawnFacts DEF ResumeVm, BeginResume, Begin, Quiet
<1>3. CASE DestroyVm(v)
  BY <1>3, ScriptFacts, MemoryFacts, TaskFacts, SpawnFacts DEF DestroyVm, Quiet
<1>4. CASE AgentConnect(v)
  BY <1>4, ScriptFacts, MemoryFacts, TaskFacts, SpawnFacts DEF AgentConnect, Quiet, polRest
<1>5. CASE ProbeRead(v)
  BY <1>5, ScriptFacts, MemoryFacts, TaskFacts, SpawnFacts DEF ProbeRead, Quiet, polRest
<1>6. CASE \E n \in Names : CreateVm(v, n) \/ \E m \in Names : ForkVm(m, n, v)
  BY <1>6, ScriptFacts, TaskFacts, SpawnFacts DEF CreateVm, ForkVm, Quiet
<1>7. CASE \E p \in Ports : AddForwardRule(p, v) \/ RemoveForwardRule(p, v)
  BY <1>7, ScriptFacts, TaskFacts, SpawnFacts DEF AddForwardRule, RemoveForwardRule, netRest,
      Quiet
<1>8. CASE \E p \in Ports : ListenerWake(p, v)
  BY <1>8, ScriptFacts, TaskFacts, SpawnFacts DEF ListenerWake, BeginResume, Begin, Quiet
<1> QED
  BY <1>1, <1>2, <1>3, <1>4, <1>5, <1>6, <1>7, <1>8 DEF Clients

\* The daemon's own tasks, except for those of scripts.
LEMMA BackgroundQuiet ==
    ASSUME FleetTypeOK, NEW v \in Vms, Background(v), ~SpawnUserdata(v), ~FinishUserdata(v)
    PROVE  Quiet /\ NoneSpawned
<1>1. CASE DestroyLock(v)
  BY <1>1, ScriptFacts, MemoryFacts, TaskFacts, SpawnFacts DEF DestroyLock, Quiet
<1>2. CASE IdleDecide(v)
  BY <1>2, ScriptFacts, MemoryFacts, TaskFacts, SpawnFacts DEF IdleDecide, Quiet, polRest
<1>3. CASE IdleAct(v)
  BY <1>3, ScriptFacts, MemoryFacts, TaskFacts, SpawnFacts DEF IdleAct, Quiet, polRest
<1>4. CASE ReclaimVm(v)
  BY <1>4, ScriptFacts, MemoryFacts, TaskFacts, SpawnFacts DEF ReclaimVm, Quiet, Released
<1>5. CASE ConnectWake(v)
  BY <1>5, ScriptFacts, TaskFacts, SpawnFacts DEF ConnectWake, BeginResume, Begin, Quiet
<1>6. CASE ConnectFind(v)
  BY <1>6, ScriptFacts, MemoryFacts, TaskFacts, SpawnFacts DEF ConnectFind, Quiet, polRest
<1>7. CASE ConnectDial(v)
  BY <1>7, ScriptFacts, MemoryFacts, TaskFacts, SpawnFacts DEF ConnectDial, Quiet, polRest
<1>8. CASE ConnectClose(v)
  BY <1>8, ScriptFacts, MemoryFacts, TaskFacts, SpawnFacts DEF ConnectClose, Quiet, polRest
<1>9. CASE ProbeAsk(v)
  BY <1>9, ScriptFacts, MemoryFacts, TaskFacts, SpawnFacts DEF ProbeAsk, Quiet, polRest
<1>10. CASE ProbeMark(v)
  BY <1>10, ScriptFacts, MemoryFacts, TaskFacts, SpawnFacts DEF ProbeMark, Quiet
<1>11. CASE DrainStop(v)
  BY <1>11, ScriptFacts, MemoryFacts, TaskFacts, SpawnFacts DEF DrainStop, Quiet
<1>12. CASE DrainMark(v)
  BY <1>12, ScriptFacts, MemoryFacts, TaskFacts, SpawnFacts DEF DrainMark, Quiet
<1>13. CASE \E p \in Ports : AddForwardRow(p, v) \/ RemoveForwardRow(p, v)
  BY <1>13, ScriptFacts, TaskFacts, SpawnFacts DEF AddForwardRow, RemoveForwardRow, netRest, Quiet
<1> QED
  BY <1>1, <1>2, <1>3, <1>4, <1>5, <1>6, <1>7, <1>8, <1>9, <1>10, <1>11, <1>12, <1>13 DEF
      Background


-----------------------------------------------------------------------------
(* Userdata scripts.                                                       *)

\* A serving daemon owns a task for every script that runs; once start-up has
\* marked what an earlier daemon left, no script runs until the daemon serves.
ScriptVm(v) ==
    /\ Serving /\ row[v].status = "running" => mem[v].job
    /\ daemon \in {"sweep", "suspends", "networks"} => row[v].status # "running"

ScriptInv == \A v \in Vms : ScriptVm(v)

\* A quiet step keeps it.
LEMMA QuietScripts ==
    ASSUME ScriptInv, Quiet
    PROVE  ScriptInv'
  BY DEF ScriptInv, ScriptVm, Quiet, ScriptsKept, TasksKept, Serving

\* One row and its task change together.
LEMMA OneScript ==
    ASSUME FleetTypeOK, ScriptInv, Serving, UNCHANGED daemon, NEW v, NEW r, NEW m,
           SetRow(v, r), SetMem(v, m), v \in Vms => (r.status = "running" => m.job)
    PROVE  ScriptInv'
<1> SUFFICES ASSUME NEW u \in Vms PROVE ScriptVm(u)'
  BY DEF ScriptInv
<1>1. row \in [Vms -> Rows] /\ mem \in [Vms -> Memories] /\ ScriptVm(u)
  BY DEF FleetTypeOK, ScriptInv
<1>2. CASE u = v
  BY <1>1, <1>2 DEF ScriptVm, Serving, SetRow, SetMem
<1>3. CASE u # v
  <2>1. row'[u] = row[u] /\ mem'[u] = mem[u]
    BY <1>1, <1>3 DEF SetRow, SetMem
  <2> QED
    BY <1>1, <2>1 DEF ScriptVm, Serving
<1> QED
  BY <1>2, <1>3

\* A cancelled task gives its claim back.
LEMMA CancelScript ==
    ASSUME FleetTypeOK, ScriptInv, Serving, UNCHANGED daemon, NEW n, NEW pc,
           CancelUserdata(n, pc)
    PROVE  ScriptInv'
<1>1. PICK v : v = Vm(n)
  OBVIOUS
<1> DEFINE r == IF mem[v].job /\ row[v].status = "running"
                THEN WithStatus(row[v], "pending") ELSE row[v]
<1>2. SetRow(v, r) /\ SetMem(v, [mem[v] EXCEPT !.job = FALSE])
  BY <1>1 DEF CancelUserdata, SetJob
<1>3. v \in Vms => r.status # "running"
  <2> SUFFICES ASSUME v \in Vms PROVE r.status # "running"
    OBVIOUS
  <2>1. row[v] \in Rows /\ (row[v].status = "running" => mem[v].job)
    BY DEF FleetTypeOK, ScriptInv, ScriptVm
  <2>2. WithStatus(row[v], "pending").status = "pending"
    BY <2>1, StatusFacts DEF Statuses
  <2> QED
    BY <2>1, <2>2
<1> HIDE DEF r
<1> QED
  BY <1>2, <1>3, OneScript

\* A task is started again, is left alone, or its script is over.
LEMMA RecoverScript ==
    ASSUME FleetTypeOK, ScriptInv, NEW n, RecoverUserdata(n)
    PROVE  ScriptInv'
<1>1. PICK v : v = Vm(n)
  OBVIOUS
<1>2. PICK run \in BOOLEAN : run = (row[v].state = "running" /\ Refreshed(v) = "running")
  OBVIOUS
<1>3. PICK again \in BOOLEAN : again <=> (run /\ op[n].cut /\ Claimable(v))
  OBVIOUS
<1> DEFINE r == IF again THEN WithStatus(row[v], "running")
                ELSE IF run /\ ~op[n].cut THEN row[v] ELSE Interrupted(row[v])
           j == mem[v].job \/ again
           i == Refreshed(v)
           m == [mem[v] EXCEPT !.job = j, !.inst = i]
<1>4. SetRow(v, r) /\ SetMem(v, m) /\ Serving /\ UNCHANGED daemon
  BY <1>1, <1>2, <1>3 DEF RecoverUserdata, At
<1>5. v \in Vms => (r.status = "running" => j)
  <2> SUFFICES ASSUME v \in Vms PROVE r.status = "running" => j
    OBVIOUS
  <2>1. row[v] \in Rows /\ (row[v].status = "running" => mem[v].job)
    BY <1>4 DEF FleetTypeOK, ScriptInv, ScriptVm
  <2>2. Interrupted(row[v]).status # "running"
    BY <2>1, InterruptedFacts
  <2> QED
    BY <2>1, <2>2
<1>6. v \in Vms => m.job = j
  <2> HIDE DEF i, j
  <2>1. v \in Vms => mem[v] \in Memories
    BY DEF FleetTypeOK
  <2> QED
    BY <2>1 DEF Memories
<1> HIDE DEF r, j, m
<1> QED
  BY <1>4, <1>5, <1>6, OneScript

\* A script starts with its task, and ends with it.
LEMMA StartScript ==
    ASSUME FleetTypeOK, ScriptInv, NEW v \in Vms,
           RunUserdata(v) \/ SpawnUserdata(v) \/ FinishUserdata(v)
    PROVE  ScriptInv'
<1>1. mem[v] \in Memories /\ row[v] \in Rows
  BY DEF FleetTypeOK
<1>2. CASE RunUserdata(v) \/ SpawnUserdata(v)
  <2>1. /\ SetRow(v, WithStatus(row[v], "running"))
        /\ SetMem(v, [mem[v] EXCEPT !.job = TRUE]) /\ Serving /\ UNCHANGED daemon
    BY <1>2 DEF RunUserdata, SpawnUserdata, StartUserdata, ClaimAndInsert, Claimable,
                SetJob, Serving
  <2>2. [mem[v] EXCEPT !.job = TRUE].job
    BY <1>1 DEF Memories
  <2> QED
    BY <2>1, <2>2, OneScript
<1>3. CASE FinishUserdata(v)
  <2>1. PICK s \in {"completed", "failed"} :
          SetRow(v, IF row[v].status = "running" THEN WithStatus(row[v], s) ELSE row[v])
    BY <1>3 DEF FinishUserdata
  <2>2. /\ SetMem(v, [mem[v] EXCEPT !.job = FALSE]) /\ Serving /\ UNCHANGED daemon
    BY <1>3 DEF FinishUserdata, SetJob
  <2>3. WithStatus(row[v], s).status # "running"
    BY <1>1, StatusFacts DEF Statuses
  <2> DEFINE r == IF row[v].status = "running" THEN WithStatus(row[v], s) ELSE row[v]
  <2>4. r.status # "running"
    BY <2>3
  <2> HIDE DEF r
  <2>5. SetRow(v, r)
    BY <2>1 DEF r
  <2> QED
    BY <2>2, <2>4, <2>5, OneScript
<1> QED
  BY <1>2, <1>3

\* A drain ends every script it owns, and there is no other.
LEMMA DrainScripts ==
    ASSUME FleetTypeOK, ScriptInv, DrainBegin
    PROVE  ScriptInv'
<1> SUFFICES ASSUME NEW u \in Vms PROVE ScriptVm(u)'
  BY DEF ScriptInv
<1>1. /\ row[u] \in Rows /\ Serving /\ daemon' = "draining"
      /\ (row[u].status = "running" => mem[u].job)
  BY DEF FleetTypeOK, ScriptInv, ScriptVm, DrainBegin, Loop, Serving
<1>2. row'[u] = IF mem[u].job THEN Interrupted(row[u]) ELSE row[u]
  BY DEF DrainBegin
<1>3. Interrupted(row[u]).status # "running"
  BY <1>1, InterruptedFacts
<1> QED
  BY <1>1, <1>2, <1>3 DEF ScriptVm

\* Start-up marks every script an earlier daemon left running.
LEMMA StartingScripts ==
    ASSUME FleetTypeOK, ScriptInv, Starting
    PROVE  ScriptInv'
<1> SUFFICES ASSUME NEW u \in Vms PROVE ScriptVm(u)'
  BY DEF ScriptInv
<1>1. row[u] \in Rows /\ ScriptVm(u)
  BY DEF FleetTypeOK, ScriptInv
<1>2. CASE StartDaemon \/ ReapOrphans
  BY <1>2 DEF StartDaemon, ReapOrphans, Phase, ScriptVm, Serving
<1>3. CASE MarkStale
  <2>1. row'[u] = StaleRow(row[u]) /\ daemon' = "sweep"
    BY <1>3 DEF MarkStale, Phase
  <2>2. StaleRow(row[u]).status # "running"
    BY <1>1, StaleFacts
  <2> QED
    BY <2>1, <2>2 DEF ScriptVm, Serving
<1>4. CASE SweepCgroups
  BY <1>1, <1>4 DEF SweepCgroups, Phase, ScriptVm, Serving
<1>5. CASE ReconcileSuspends
  <2>1. daemon = "suspends" /\ daemon' = "networks"
    BY <1>5 DEF ReconcileSuspends, Phase
  <2>2. \/ row'[u] = Runtime(row[u], "suspended", FALSE)
        \/ row'[u] = Stopped(row[u]) \/ row'[u] = row[u]
    BY <1>5 DEF ReconcileSuspends
  <2>3. Runtime(row[u], "suspended", FALSE).status = row[u].status
    BY <1>1, RowFacts, Literals
  <2>4. Stopped(row[u]).status = row[u].status
    BY <1>1, StoppedFacts
  <2> QED
    BY <1>1, <2>1, <2>2, <2>3, <2>4 DEF ScriptVm, Serving
<1>6. CASE RestoreNetworks
  BY <1>1, <1>6 DEF RestoreNetworks, Phase, ScriptVm
<1> QED
  BY <1>2, <1>3, <1>4, <1>5, <1>6 DEF Starting

\* Every step keeps it.
LEMMA ScriptStep ==
    ASSUME FleetTypeOK, ScriptInv, [Next]_vars
    PROVE  ScriptInv'
<1>1. ASSUME NEW n \in Names, Running(n) PROVE ScriptInv'
  <2>1. CASE Cancel(n) \/ StopDiscard(n)
    <3>1. PICK pc : CancelUserdata(n, pc)
      BY <2>1 DEF Cancel, StopDiscard
    <3>2. Serving /\ UNCHANGED daemon
      BY <2>1 DEF Cancel, StopDiscard, At
    <3> QED
      BY <3>1, <3>2, CancelScript
  <2>2. CASE RecoverUserdata(n)
    BY <2>2, RecoverScript
  <2>3. CASE Suspending(n) \/ Resuming(n) \/ (Ending(n) /\ ~StopDiscard(n)) \/ Creating(n)
    BY <2>3, SuspendQuiet, ResumeQuiet, EndQuiet, CreateQuiet, QuietScripts
  <2> QED
    BY <1>1, <2>1, <2>2, <2>3 DEF Running
<1>2. ASSUME NEW v \in Vms, Clients(v) \/ Background(v) \/ GuestExit(v) PROVE ScriptInv'
  <2>1. CASE GuestExit(v)
    <3>1. Quiet
      BY <2>1, ScriptFacts, TaskFacts DEF GuestExit, Quiet
    <3> QED
      BY <3>1, QuietScripts
  <2>2. CASE RunUserdata(v) \/ SpawnUserdata(v) \/ FinishUserdata(v)
    BY <2>2, StartScript
  <2>3. CASE Clients(v) /\ ~RunUserdata(v)
    BY <2>3, ClientQuiet, QuietScripts
  <2>4. CASE Background(v) /\ ~SpawnUserdata(v) /\ ~FinishUserdata(v)
    BY <2>4, BackgroundQuiet, QuietScripts
  <2> QED
    BY <1>2, <2>1, <2>2, <2>3, <2>4
<1>3. CASE Crash \/ DaemonExit
  BY <1>3 DEF Crash, DaemonExit, ScriptInv, ScriptVm, Serving
<1>4. CASE DrainBegin \/ Starting
  BY <1>4, DrainScripts, StartingScripts
<1>5. CASE UNCHANGED vars
  BY <1>5 DEF vars, ScriptInv, ScriptVm, Serving
<1> QED
  BY <1>1, <1>2, <1>3, <1>4, <1>5 DEF Next

\* A script is "running" only while the daemon that serves owns its task.
THEOREM RunningScriptsOwned == ASSUME Supervised PROVE Spec => []RunningScriptOwned
<1>1. RowsInit => ScriptInv
  BY DEF RowsInit, ScriptInv, ScriptVm
<1>2. FleetTypeOK /\ ScriptInv /\ [Next]_vars => ScriptInv'
  BY ScriptStep
<1>3. ScriptInv => RunningScriptOwned
  BY DEF ScriptInv, ScriptVm, RunningScriptOwned
<1> QED
  BY <1>1, <1>2, <1>3, FleetTypes, PTL DEF Spec

-----------------------------------------------------------------------------
(* The disk of a fork's source.                                            *)

\* A step that spawns a VMM does it for a VM whose disk is not aliased.
LEMMA SpawnersAreClear ==
    ASSUME FleetInv, NEW n \in Names,
           ResumeRestore(n) \/ CreateSpawn(n) \/ ForkAlias(n),
           NEW u \in Vms, host'[u].bak, "child" \in host'[u].procs
    PROVE  "child" \in host[u].procs
<1>1. FleetTypeOK /\ host[u] \in Hosts
  BY FieldTypes DEF FleetInv
<1>2. PICK v \in Vms : v = Vm(n) /\ ~host[v].bak
  <2>1. CASE ResumeRestore(n)
    <3>1. Serving /\ op[n].kind = "resume" /\ OpInv(n)
      BY <2>1 DEF ResumeRestore, At, FleetInv
    <3> QED
      BY <3>1 DEF OpInv, RowOp, RowKinds, Destroys
  <2>2. CASE CreateSpawn(n) \/ ForkAlias(n)
    <3>1. op[n].kind \in Creates
      BY <2>2 DEF CreateSpawn, ForkAlias, At, Creates
    <3> QED
      BY <3>1, CreateContext
  <2> QED
    BY <2>1, <2>2
<1>3. CASE u # v
  <2>1. CASE ResumeRestore(n) \/ CreateSpawn(n)
    <3>1. host'[u] = host[u]
      BY <1>1, <1>2, <1>3, <2>1 DEF ResumeRestore, CreateSpawn, Spawned, AbortGuest,
         Reaped, SetHost, FleetTypeOK
    <3> QED
      BY <3>1
  <2>2. CASE ForkAlias(n)
    <3>1. host'[u] = host[u] \/ host'[u] = [host[u] EXCEPT !.bak = TRUE]
      BY <1>1, <1>2, <1>3, <2>2 DEF ForkAlias, FleetTypeOK
    <3> QED
      BY <1>1, <3>1 DEF Hosts
  <2> QED
    BY <2>1, <2>2
<1>4. CASE u = v
  <2>1. CASE ResumeRestore(n) \/ CreateSpawn(n)
    <3>1. host'[v].bak = host[v].bak
      <4>1. \/ Reaped(v) \/ UNCHANGED host
            \/ Spawned(v, "running") \/ Spawned(v, "failed")
        BY <1>2, <2>1 DEF ResumeRestore, CreateSpawn, AbortGuest
      <4>2. Reaped(v) => host'[v].bak = host[v].bak
        BY <1>1, ReapedFacts DEF HostTo, FleetTypeOK
      <4>3. ASSUME NEW i \in Insts, Spawned(v, i) PROVE host'[v].bak = host[v].bak
        BY <1>1, <4>3, SpawnedFacts DEF HostTo, FleetTypeOK
      <4> QED
        BY <4>1, <4>2, <4>3 DEF Insts
    <3> QED
      BY <1>2, <1>4, <3>1
  <2>2. CASE ForkAlias(n)
    <3>1. op[n].kind = "fork" /\ op[n].pc = "alias" /\ OpInv(n) /\ ~Present(v)
      BY <1>2, <2>2, CreateContext DEF ForkAlias, At, FleetInv, Creates
    <3>2. PICK s \in Vms : s = op[n].other /\ s # v
      BY <3>1 DEF OpInv, ForkOp, Present
    <3>3. host'[v] = [host[v] EXCEPT !.procs = @ \cup {"child"}]
      BY <1>1, <1>2, <2>2, <3>2 DEF ForkAlias, FleetTypeOK
    <3>4. host'[v].bak = host[v].bak
      BY <1>1, <1>4, <3>3 DEF Hosts
    <3> QED
      BY <1>2, <1>4, <3>4
  <2> QED
    BY <2>1, <2>2
<1> QED
  BY <1>3, <1>4

\* No other step spawns one.
LEMMA SpawnStep ==
    ASSUME FleetInv, Next, NEW u \in Vms, host'[u].bak, "child" \in host'[u].procs
    PROVE  "child" \in host[u].procs
<1>1. FleetTypeOK /\ host[u] \in Hosts
  BY FieldTypes DEF FleetInv
<1>2. ASSUME NEW n \in Names, Running(n)
      PROVE  "child" \in host[u].procs
  <2>1. CASE Cancel(n) \/ StopDiscard(n) \/ RecoverUserdata(n)
    <3>1. UNCHANGED host \/ \E l : SetSlot(Vm(n), l)
      BY <2>1 DEF Cancel, StopDiscard, RecoverUserdata
    <3>2. NoneSpawned
      BY <1>1, <3>1, SpawnFacts
    <3> QED
      BY <3>2 DEF NoneSpawned
  <2>2. CASE Suspending(n) \/ Resuming(n) \/ (Ending(n) /\ ~StopDiscard(n)) \/ Creating(n)
    <3>1. NoneSpawned \/ ResumeRestore(n) \/ CreateSpawn(n) \/ ForkAlias(n)
      BY <1>1, <2>2, SuspendQuiet, ResumeQuiet, EndQuiet, CreateQuiet
    <3> QED
      BY <3>1, SpawnersAreClear DEF NoneSpawned
  <2> QED
    BY <1>2, <2>1, <2>2 DEF Running
<1>3. ASSUME NEW v \in Vms, Clients(v) \/ Background(v) \/ GuestExit(v)
      PROVE  "child" \in host[u].procs
  <2>1. CASE RunUserdata(v) \/ SpawnUserdata(v) \/ FinishUserdata(v)
    BY <2>1 DEF RunUserdata, SpawnUserdata, StartUserdata, FinishUserdata
  <2>2. CASE GuestExit(v)
    <3>1. NoneSpawned
      BY <1>1, <2>2, SpawnFacts DEF GuestExit
    <3> QED
      BY <3>1 DEF NoneSpawned
  <2>3. CASE Clients(v) /\ ~RunUserdata(v)
    BY <1>1, <2>3, ClientQuiet DEF NoneSpawned
  <2>4. CASE Background(v) /\ ~SpawnUserdata(v) /\ ~FinishUserdata(v)
    BY <1>1, <2>4, BackgroundQuiet DEF NoneSpawned
  <2> QED
    BY <1>3, <2>1, <2>2, <2>3, <2>4
<1>4. CASE DrainBegin \/ StartDaemon
  BY <1>4 DEF DrainBegin, StartDaemon
<1>5. CASE Crash \/ DaemonExit
  <2> DEFINE p == Orphaned(host[u].procs)
             q == host[u].procs \ {"child"}
  <2>1. \/ host'[u] = [host[u] EXCEPT !.procs = p]
        \/ host'[u] = [host[u] EXCEPT !.procs = q, !.tap = FALSE]
    BY <1>5 DEF Crash, DaemonExit
  <2>2. "child" \notin p /\ "child" \notin q
    BY DEF Orphaned
  <2> HIDE DEF p, q
  <2>3. host'[u].procs \in {p, q}
    BY <1>1, <2>1 DEF Hosts
  <2> QED
    BY <2>2, <2>3
<1>6. CASE ReapOrphans \/ MarkStale \/ RestoreNetworks
  <2>1. \/ host'[u] = host[u] \/ host'[u] = [host[u] EXCEPT !.procs = {}]
        \/ host'[u] = [host[u] EXCEPT !.tap = FALSE]
        \/ host'[u] = [host[u] EXCEPT !.tap = TRUE]
    BY <1>6 DEF ReapOrphans, MarkStale, RestoreNetworks
  <2> QED
    BY <1>1, <2>1 DEF Hosts
<1>7. CASE SweepCgroups
  <2> DEFINE p == IF Supervised THEN {} ELSE host[u].procs
  <2>1. host'[u] = [host[u] EXCEPT !.procs = p, !.tap = FALSE]
    BY <1>7 DEF SweepCgroups
  <2>2. p \subseteq host[u].procs
    OBVIOUS
  <2> HIDE DEF p
  <2> QED
    BY <1>1, <2>1, <2>2 DEF Hosts
<1>8. CASE ReconcileSuspends
  <2> DEFINE p == IF row[u].pid THEN {} ELSE host[u].procs
             s == IF Saved(u) THEN host[u].slot ELSE "none"
  <2>1. host'[u] = host[u] \/ host'[u] = [host[u] EXCEPT !.procs = p, !.slot = s]
    BY <1>8 DEF ReconcileSuspends
  <2>2. p \subseteq host[u].procs
    OBVIOUS
  <2> HIDE DEF p, s
  <2> QED
    BY <1>1, <2>1, <2>2 DEF Hosts
<1> QED
  BY <1>2, <1>3, <1>4, <1>5, <1>6, <1>7, <1>8 DEF Next, Starting

\* While the disk of a fork's source is aliased, no VMM is started on the source;
\* what runs there was started by a resume that could not record it.
THEOREM SourceDisksAreSafe == ASSUME Supervised PROVE Spec => SourceDiskSafe
<1> DEFINE safe == \A v \in Vms : host'[v].bak =>
                      /\ "child" \in host'[v].procs => "child" \in host[v].procs
                      /\ host'[v].procs # {} => host'[v].ran
<1>1. FleetInv /\ FleetInv' /\ [Next]_vars => [safe]_vars
  <2> SUFFICES ASSUME FleetInv, FleetInv', Next, NEW v \in Vms, host'[v].bak
               PROVE  /\ "child" \in host'[v].procs => "child" \in host[v].procs
                      /\ host'[v].procs # {} => host'[v].ran
    OBVIOUS
  <2>1. host'[v].procs # {} => host'[v].ran
    BY DEF FleetInv, VmInv, Sleeps, Saved, Asleep
  <2> QED
    BY <2>1, SpawnStep
<1>2. SourceDiskSafe <=> [][safe]_vars
  BY DEF SourceDiskSafe
<1> QED
  BY <1>1, <1>2, FleetInvariant, PTL DEF Spec
=============================================================================
