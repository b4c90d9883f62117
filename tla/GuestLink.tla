------------------------------ MODULE GuestLink ------------------------------
(***************************************************************************)
(* The guest side of the agent connection: the supervisor that boots a     *)
(* direct-kernel guest and restarts the agent (husker-agent/src/           *)
(* supervisor.rs), the connection loop (lib.rs, serve.rs, power.rs,        *)
(* restore.rs, netlink.rs) and the host that copies a file out of the      *)
(* guest in ranged reads (husker/src/guest_file.rs, husker-core/src/       *)
(* agent_client.rs).                                                       *)
(*                                                                         *)
(* One connection at a time takes over the agent for an exec, a shell, a   *)
(* tunnel or a shutdown.  The copy asks for one chunk per request; a read  *)
(* is two steps of the agent (metadata, then bytes of the opened file),    *)
(* between which a guest program may replace the file.                     *)
(***************************************************************************)
EXTENDS Integers, Sequences

CONSTANTS
    LnkMaxEdits,   \* bound: changes of the guest file
    LnkMaxBoots,   \* bound: guest boots
    LnkMaxCalls,   \* bound: connections of the host
    LnkInPlace     \* guest programs rewrite the file in place (else by rename)

VARIABLES
    gst,       \* guest: phase, address, legacy agent, dirty pages, read-only root
    lnkConn,   \* the connection: state, child, whether the host is still there
    lnkFile,   \* version -> size in chunks, for the versions so far
    lnkInode,  \* version -> version whose bytes the inode of that version holds
    lnkCopy,   \* the copy: pc, bytes so far, what the first answer said
    lnkCount   \* boots and connections so far

lnkVars == <<gst, lnkConn, lnkFile, lnkInode, lnkCopy, lnkCount>>

LnkNoConn == [st |-> "none", child |-> "none", host |-> FALSE]
LnkNoCopy == [pc |-> "idle", buf |-> <<>>, expect |-> <<>>, ver |-> 0]
GstOff    == [phase |-> "off", addr |-> "none", legacy |-> FALSE, dirty |-> FALSE, ro |-> FALSE]

LnkInit ==
    /\ gst = GstOff /\ lnkConn = LnkNoConn
    /\ lnkFile = <<2>> /\ lnkInode = <<1>>
    /\ lnkCopy = LnkNoCopy /\ lnkCount = [boots |-> 0, calls |-> 0]

LnkServing == gst.phase = "serving"
(* Whatever ends the guest or its agent ends the connection and the read   *)
(* under way; a copy between two of its requests goes on with the next.    *)
LnkCut == /\ lnkConn' = LnkNoConn
          /\ lnkCopy' = IF lnkCopy.pc = "data" THEN [lnkCopy EXCEPT !.pc = "failed"] ELSE lnkCopy

-----------------------------------------------------------------------------
(* run: a critical mount that fails reboots the guest; devices and modules *)
(* are best effort.                                                        *)
GstMount ==
    /\ gst.phase = "off" /\ lnkCount.boots < LnkMaxBoots
    /\ lnkCount' = [lnkCount EXCEPT !.boots = @ + 1]
    /\ \/ \E legacy \in BOOLEAN : gst' = [GstOff EXCEPT !.phase = "mounted", !.legacy = legacy]
       \/ UNCHANGED gst
    /\ UNCHANGED <<lnkConn, lnkFile, lnkInode, lnkCopy>>

(* The static address of the kernel command line; without one, or when the *)
(* setup fails, the guest serves with a degraded network.                  *)
GstConfigure ==
    /\ gst.phase = "mounted"
    /\ \E a \in {"static", "none"} : gst' = [gst EXCEPT !.phase = "shares", !.addr = a]
    /\ UNCHANGED <<lnkConn, lnkFile, lnkInode, lnkCopy, lnkCount>>

(* Shares and the volume are mounted, then supervise starts the agent; the *)
(* agent binds its vsock port and serves.                                  *)
GstServe ==
    /\ gst.phase \in {"shares", "agent-dead"}
    /\ gst' = [gst EXCEPT !.phase = "serving"]
    /\ UNCHANGED <<lnkConn, lnkFile, lnkInode, lnkCopy, lnkCount>>

(* The agent child exits; PID 1 reaps it and starts another one. *)
GstAgentDies ==
    /\ LnkServing
    /\ gst' = [gst EXCEPT !.phase = "agent-dead"]
    /\ LnkCut
    /\ UNCHANGED <<lnkFile, lnkInode, lnkCount>>

(* SIGTERM to PID 1 syncs and powers off. *)
GstTerminate ==
    /\ gst.phase \in {"serving", "agent-dead"}
    /\ gst' = GstOff
    /\ LnkCut
    /\ UNCHANGED <<lnkFile, lnkInode, lnkCount>>

-----------------------------------------------------------------------------
(* A peer is authorised before its first byte is read: the host's context  *)
(* id on vsock, the agent's own user on a Unix socket.                     *)
LnkAccept(authorized) ==
    /\ LnkServing /\ lnkConn.st = "none" /\ lnkCount.calls < LnkMaxCalls
    /\ lnkCount' = [lnkCount EXCEPT !.calls = @ + 1]
    /\ lnkConn' = IF authorized THEN [st |-> "loop", child |-> "none", host |-> TRUE] ELSE lnkConn
    /\ UNCHANGED <<gst, lnkFile, lnkInode, lnkCopy>>

(* A ping, guest info, a session call or a request this agent does not     *)
(* know is answered and changes nothing here; a frame that is not JSON     *)
(* closes the connection.                                                  *)
LnkCorruptFrame ==
    /\ LnkServing /\ lnkConn.st = "loop" /\ lnkConn.host
    /\ lnkConn' = LnkNoConn
    /\ UNCHANGED <<gst, lnkFile, lnkInode, lnkCopy, lnkCount>>

(* WriteFile: the bytes reach the guest's page cache before the answer. *)
LnkWriteFile ==
    /\ LnkServing /\ lnkConn.st = "loop" /\ lnkConn.host /\ ~gst.ro
    /\ gst' = [gst EXCEPT !.dirty = TRUE]
    /\ UNCHANGED <<lnkConn, lnkFile, lnkInode, lnkCopy, lnkCount>>

(* ReconfigureNetwork: the link goes down for a new hardware address, the  *)
(* old addresses are flushed, then the new one is added; a failure part of *)
(* the way leaves the guest without an address.                            *)
LnkReconfigure ==
    /\ LnkServing /\ lnkConn.st = "loop" /\ lnkConn.host
    /\ \E a \in {"rehomed", "none"} : gst' = [gst EXCEPT !.addr = a]
    /\ UNCHANGED <<lnkConn, lnkFile, lnkInode, lnkCopy, lnkCount>>

(* ExecStream, ShellStart and Tunnel own the connection from here on; when *)
(* the program or the port is not there, the answer is an error.           *)
LnkTakeOver(st) ==
    /\ LnkServing /\ lnkConn.st = "loop" /\ lnkConn.host
    /\ \/ lnkConn' = [lnkConn EXCEPT !.st = st, !.child = IF st = "tunnel" THEN "none" ELSE "runs"]
       \/ lnkConn' = LnkNoConn
    /\ UNCHANGED <<gst, lnkFile, lnkInode, lnkCopy, lnkCount>>

(* Output, while the command runs and during the drain: the write fails    *)
(* when the host is gone, which drops the connection and kills the child.  *)
LnkForward ==
    /\ LnkServing /\ lnkConn.st \in {"exec", "shell", "tunnel"}
    /\ gst' = [gst EXCEPT !.dirty = @ \/ ~gst.ro]
    /\ lnkConn' = IF lnkConn.host THEN lnkConn ELSE LnkNoConn
    /\ UNCHANGED <<lnkFile, lnkInode, lnkCopy, lnkCount>>

(* The child exits, or the exec timeout kills it. *)
LnkChildEnds ==
    /\ LnkServing /\ lnkConn.child = "runs"
    /\ lnkConn' = [lnkConn EXCEPT !.child = "ended"]
    /\ UNCHANGED <<gst, lnkFile, lnkInode, lnkCopy, lnkCount>>

(* The exit frame is the last one: after the end of both pipes, or after   *)
(* the drain grace when an orphan keeps them open.                         *)
LnkExitFrame ==
    /\ LnkServing /\ lnkConn.child = "ended"
    /\ lnkConn' = LnkNoConn
    /\ UNCHANGED <<gst, lnkFile, lnkInode, lnkCopy, lnkCount>>

(* The host goes away.  An idle loop, a tunnel and a shell read the end of *)
(* the stream; a running exec does not read and notices with its next      *)
(* write.                                                                  *)
LnkHostGone ==
    /\ LnkServing /\ lnkConn.host
    /\ lnkConn' = IF lnkConn.st \in {"exec", "ending"} THEN [lnkConn EXCEPT !.host = FALSE]
                  ELSE LnkNoConn
    /\ UNCHANGED <<gst, lnkFile, lnkInode, lnkCopy, lnkCount>>

-----------------------------------------------------------------------------
(* Shutdown: everything written is made durable before the acknowledgement; *)
(* a flush leaves the connection in its loop.                              *)
LnkShutdown(action) ==
    /\ LnkServing /\ lnkConn.st = "loop" /\ lnkConn.host
    /\ gst' = [gst EXCEPT !.dirty = FALSE]
    /\ lnkConn' = IF action = "flush" THEN lnkConn ELSE [lnkConn EXCEPT !.st = "ending"]
    /\ UNCHANGED <<lnkFile, lnkInode, lnkCopy, lnkCount>>

(* The host closed the connection, or two seconds passed: end_guest syncs, *)
(* remounts the root read-only where it can and ends the kernel; when that *)
(* fails the root is made writable again and the agent serves on.          *)
LnkEndGuest ==
    /\ LnkServing /\ lnkConn.st = "ending"
    /\ \/ gst' = GstOff /\ LnkCut
       \/ /\ \E ro \in BOOLEAN : gst' = [gst EXCEPT !.dirty = FALSE, !.ro = ro]
          /\ lnkConn' = LnkNoConn
          /\ UNCHANGED lnkCopy
    /\ UNCHANGED <<lnkFile, lnkInode, lnkCount>>

-----------------------------------------------------------------------------
LnkVersion == Len(lnkFile)

(* A guest program replaces the file, or rewrites it in place: then an     *)
(* agent that has it open reads the new bytes under the old metadata.      *)
LnkEdit(size) ==
    /\ LnkServing /\ LnkVersion <= LnkMaxEdits /\ ~gst.ro
    /\ lnkFile' = Append(lnkFile, size)
    /\ lnkInode' = IF LnkInPlace THEN [v \in 1..(LnkVersion + 1) |-> LnkVersion + 1]
                   ELSE Append(lnkInode, LnkVersion + 1)
    /\ UNCHANGED <<gst, lnkConn, lnkCopy, lnkCount>>

LnkCopyStart ==
    /\ LnkServing /\ lnkCopy.pc = "idle"
    /\ lnkCopy' = [LnkNoCopy EXCEPT !.pc = "ask"]
    /\ UNCHANGED <<gst, lnkConn, lnkFile, lnkInode, lnkCount>>

(* ReadFile, first half: open the file and take its size and time. *)
LnkReadMeta ==
    /\ LnkServing /\ lnkCopy.pc = "ask"
    /\ lnkCopy' = [lnkCopy EXCEPT !.pc = "data", !.ver = LnkVersion]
    /\ UNCHANGED <<gst, lnkConn, lnkFile, lnkInode, lnkCount>>

(* No agent answers within the time the caller allows the request. *)
LnkAskFails ==
    /\ ~LnkServing /\ lnkCopy.pc = "ask"
    /\ lnkCopy' = [lnkCopy EXCEPT !.pc = "failed"]
    /\ UNCHANGED <<gst, lnkConn, lnkFile, lnkInode, lnkCount>>

(* The bytes a read at this offset returns: a legacy agent ignores the     *)
(* range and returns the whole file without its size.                      *)
LnkBytes ==
    LET v == lnkInode[lnkCopy.ver] IN
    IF gst.legacy THEN [k \in 1..lnkFile[v] |-> <<v, k>>]
    ELSE IF Len(lnkCopy.buf) < lnkFile[v] THEN <<<<v, Len(lnkCopy.buf) + 1>>>> ELSE <<>>

LnkSameSize(seen, now) == seen = <<>> \/ lnkFile[seen[1]] = lnkFile[now]
(* Later answers must describe the file the first one described: the same  *)
(* size and the same modification time.                                    *)
LnkSame(seen, now) == seen = <<>> \/ seen[1] = now

(* ReadFile, second half, and what the host makes of the answer: whole     *)
(* file from a legacy agent at offset zero, refused at another offset; a   *)
(* changed file is refused; enough bytes end the copy; no bytes before the *)
(* end are an error.                                                       *)
LnkReadData ==
    /\ LnkServing /\ lnkCopy.pc = "data"
    /\ LET buf  == lnkCopy.buf \o LnkBytes
           size == lnkFile[lnkCopy.ver]
       IN  lnkCopy' =
             CASE gst.legacy -> IF lnkCopy.buf = <<>> THEN [lnkCopy EXCEPT !.pc = "done", !.buf = buf]
                                ELSE [lnkCopy EXCEPT !.pc = "failed"]
               [] ~gst.legacy /\ ~LnkSame(lnkCopy.expect, lnkCopy.ver) -> [lnkCopy EXCEPT !.pc = "failed"]
               [] ~gst.legacy /\ LnkSame(lnkCopy.expect, lnkCopy.ver) ->
                    [lnkCopy EXCEPT !.buf = SubSeq(buf, 1, IF Len(buf) < size THEN Len(buf) ELSE size),
                                    !.expect = <<lnkCopy.ver>>,
                                    !.pc = IF Len(buf) >= size THEN "done"
                                           ELSE IF LnkBytes = <<>> THEN "failed" ELSE "ask"]
    /\ UNCHANGED <<gst, lnkConn, lnkFile, lnkInode, lnkCount>>

LnkNext ==
    \/ GstMount \/ GstConfigure \/ GstServe \/ GstAgentDies \/ GstTerminate
    \/ \E ok \in BOOLEAN : LnkAccept(ok)
    \/ LnkCorruptFrame \/ LnkWriteFile \/ LnkReconfigure
    \/ \E st \in {"exec", "shell", "tunnel"} : LnkTakeOver(st)
    \/ LnkForward \/ LnkChildEnds \/ LnkExitFrame \/ LnkHostGone
    \/ \E a \in {"flush", "reboot", "poweroff"} : LnkShutdown(a)
    \/ LnkEndGuest
    \/ \E size \in 1..2 : LnkEdit(size)
    \/ LnkCopyStart \/ LnkReadMeta \/ LnkAskFails \/ LnkReadData

-----------------------------------------------------------------------------
(* A copy reported as complete is the whole of one version of the guest    *)
(* file, in order, however the file is replaced, the agent restarted or    *)
(* the image too old for ranged reads (read_guest_file_inner, ReadFile).   *)
LnkCopyWhole ==
    lnkCopy.pc = "done" =>
        \E v \in 1..LnkVersion : lnkCopy.buf = [k \in 1..lnkFile[v] |-> <<v, k>>]
=============================================================================
