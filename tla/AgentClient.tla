----------------------------- MODULE AgentClient -----------------------------
(***************************************************************************)
(* The host side of the agent protocol (husker-core/src/agent_client.rs,   *)
(* the framing of husker-agent-proto/src/lib.rs): typed calls over one     *)
(* stream against an agent whose protocol version the host does not choose.*)
(*                                                                         *)
(* A call opens a connection, may ask for the version first, sends one     *)
(* request and reads one answer, or a stream of them. The connection can   *)
(* break or a timeout can drop it at any step; what was written by then    *)
(* may still be carried out by the guest. Chunks of an upload are separate *)
(* calls, as the REST endpoint makes them.                                 *)
(***************************************************************************)
EXTENDS Naturals, Sequences

CONSTANTS
    AgcVersions,   \* protocol versions guest images were built with
    AgcChunks,     \* chunks of the upload, and of the output of an exec
    AgcMaxCalls    \* bound: calls

ASSUME AgcAssumption == AgcVersions \subseteq Nat /\ AgcChunks \in Nat

VARIABLES
    agcVersion,    \* the version of this guest's agent
    agcGuest,      \* what the guest did
    agcCall,       \* the call in progress
    agcWire,       \* frames under way in the two directions
    agcLate,       \* requests of dropped connections the guest may still carry out
    agcResult,     \* what the last call reported
    agcCalls       \* calls so far

agcVars == <<agcVersion, agcGuest, agcCall, agcWire, agcLate, agcResult, agcCalls>>

AgcOps == {"write", "read", "restore", "session", "replay", "exec", "shutdown"}
AgcIdle == [op |-> "none", pc |-> "idle", arg |-> 0, got |-> 0]
AgcNoWire == [up |-> <<>>, down |-> <<>>]
AgcNoResult == [op |-> "none", arg |-> 0, out |-> "none", value |-> 0]

AgcInit ==
    /\ agcVersion \in AgcVersions
    /\ agcGuest = [file |-> <<>>, restored |-> FALSE, sessions |-> 0, output |-> 0,
                   power |-> "flush"]
    /\ agcCall = AgcIdle /\ agcWire = AgcNoWire /\ agcLate = <<>>
    /\ agcResult = AgcNoResult /\ agcCalls = 0

(* The version from which an agent has the request in its vocabulary; an   *)
(* older one answers that it does not know it.                             *)
AgcVocabulary(op) == CASE op \in {"session", "restore"} -> 5 [] op = "replay" -> 7
                       [] op = "exec_stream" -> 4 [] OTHER -> 0

-----------------------------------------------------------------------------
(* The guest carries out a request and answers it. An old agent ignores    *)
(* the fields it does not know: it truncates on an append, reads from the  *)
(* start whatever the offset and only flushes on a power request.          *)

AgcAnswer(kind, value) == [kind |-> kind, value |-> value]
AgcError(coded) == [kind |-> "error", value |-> IF coded THEN "limit" ELSE "phrase"]

AgcCarryOut(req) ==
    IF agcVersion < AgcVocabulary(req.op)
    THEN <<agcGuest, AgcAnswer("error", "unknown")>>
    ELSE LET g == agcGuest IN
    CASE req.op = "info"  -> <<g, AgcAnswer("info", agcVersion)>>
      [] req.op = "write" -> <<[g EXCEPT !.file =
                IF req.arg > 1 /\ agcVersion >= 2 THEN Append(@, req.arg) ELSE <<req.arg>>],
                AgcAnswer("write", 1)>>
      [] req.op = "read"  -> <<g, [kind |-> "read", value |-> IF agcVersion >= 3 THEN req.arg ELSE 0,
                                   sized |-> agcVersion >= 3]>>
      [] req.op = "restore" -> <<[g EXCEPT !.restored = TRUE], AgcAnswer("restore", 1)>>
      [] req.op \in {"session", "replay"} ->
                <<[g EXCEPT !.sessions = @ + 1], AgcAnswer("session", 1)>>
      [] req.op \in {"exec", "exec_stream"} ->
                <<[g EXCEPT !.output = AgcChunks], AgcAnswer(req.op, AgcChunks)>>
      [] req.op = "shutdown" -> LET p == IF agcVersion >= 6 THEN "poweroff" ELSE "flush"
                                IN  <<[g EXCEPT !.power = p], AgcAnswer("shutdown", p)>>

(* A session store at its limit, or a guest kernel that reports no clone,  *)
(* refuses; agents before the code field send a phrase.                    *)
AgcRefuses(req) ==
    \/ req.op \in {"session", "replay"} /\ agcVersion >= AgcVocabulary(req.op)
    \/ req.op = "restore" /\ req.arg = 1 /\ agcVersion >= 5

\* A stream of output frames and the exit, or the one answer.
AgcFrames(answer) ==
    IF answer.kind = "exec_stream"
    THEN <<AgcAnswer("started", 0)>> \o [i \in 1..AgcChunks |-> AgcAnswer("output", i)]
            \o <<AgcAnswer("exit", 0)>>
    ELSE <<answer>>

AgcServe ==
    /\ agcWire.up # <<>>
    /\ LET req == Head(agcWire.up)  did == AgcCarryOut(req) IN
        \/ /\ agcGuest' = did[1]
           /\ agcWire' = [up |-> Tail(agcWire.up), down |-> agcWire.down \o AgcFrames(did[2])]
        \/ /\ AgcRefuses(req)
           /\ \E coded \in IF agcVersion >= 6 THEN {TRUE} ELSE BOOLEAN :
                agcWire' = [up |-> Tail(agcWire.up), down |-> Append(agcWire.down, AgcError(coded))]
           /\ UNCHANGED agcGuest
    /\ UNCHANGED <<agcVersion, agcCall, agcLate, agcResult, agcCalls>>

\* A request of a connection the host dropped is carried out, or was lost.
AgcServeLate ==
    /\ agcLate # <<>>
    /\ agcLate' = Tail(agcLate)
    /\ agcGuest' \in {agcGuest, AgcCarryOut(Head(agcLate))[1]}
    /\ UNCHANGED <<agcVersion, agcCall, agcWire, agcResult, agcCalls>>

-----------------------------------------------------------------------------
(* Calls of the host *)

AgcStill == UNCHANGED <<agcVersion, agcGuest, agcCalls>>

\* Mutant: an append is sent to whatever agent is there.
AgcAsksFirstNotAppend(op, arg) == op \in {"restore", "session", "replay", "exec"}

\* Which calls ask for the version before they send anything.
AgcAsksFirst(op, arg) ==
    op \in {"restore", "session", "replay", "exec"} \/ (op = "write" /\ arg > 1)

\* The chunks of the one upload go in order, each once; other calls repeat.
AgcMay(op, arg) ==
    CASE op = "write" -> arg \in 1..AgcChunks
                         /\ agcResult.op = (IF arg = 1 THEN "none" ELSE "write")
                         /\ (arg > 1 => agcResult.out = "ok" /\ agcResult.arg = arg - 1)
      [] op = "shutdown" -> arg = 0
      [] OTHER -> arg \in 0..1

AgcOpen(op, arg) ==
    /\ agcCall.pc = "idle" /\ agcCalls < AgcMaxCalls /\ AgcMay(op, arg)
    /\ agcCalls' = agcCalls + 1
    /\ agcCall' = [op |-> op, arg |-> arg, got |-> 0,
                   pc |-> IF AgcAsksFirst(op, arg) THEN "ask" ELSE "send"]
    /\ agcWire' = AgcNoWire
    /\ UNCHANGED <<agcVersion, agcGuest, agcLate, agcResult>>

AgcWrite(op, arg) == agcWire' = [agcWire EXCEPT !.up = Append(@, [op |-> op, arg |-> arg])]

AgcAsk ==
    /\ agcCall.pc = "ask"
    /\ AgcWrite("info", 0)
    /\ agcCall' = [agcCall EXCEPT !.pc = "version"]
    /\ UNCHANGED <<agcLate, agcResult>> /\ AgcStill

\* The call ends, its connection is dropped, and what it wrote may be late.
AgcReport(out, value) ==
    /\ agcResult' = [op |-> agcCall.op, arg |-> agcCall.arg, out |-> out, value |-> value]
    /\ agcCall' = AgcIdle /\ agcWire' = AgcNoWire
    /\ agcLate' = agcLate \o agcWire.up

\* The version each call requires: an append, a session, a replay, a
\* restore. A streamed exec has the buffered one to fall back on.
AgcRequired(op) ==
    CASE op = "write" -> 2 [] op \in {"session", "restore"} -> 5
      [] op = "replay" -> 7 [] OTHER -> 0

AgcGate ==
    /\ agcCall.pc = "version" /\ agcWire.down # <<>>
    /\ LET reported == Head(agcWire.down).value IN
        \/ /\ reported < AgcRequired(agcCall.op)
           /\ IF agcCall.op = "restore" /\ agcCall.arg = 0 THEN AgcReport("skipped", 0)
              ELSE AgcReport("unsupported", 0)
        \/ /\ reported >= AgcRequired(agcCall.op)
           /\ agcCall' = [agcCall EXCEPT !.pc = IF agcCall.op = "exec" /\ reported >= 4
                                                THEN "start" ELSE "send"]
           /\ agcWire' = [agcWire EXCEPT !.down = Tail(@)]
           /\ UNCHANGED <<agcLate, agcResult>>
    /\ AgcStill

AgcSend ==
    /\ agcCall.pc \in {"send", "start"}
    /\ AgcWrite(IF agcCall.pc = "start" THEN "exec_stream" ELSE agcCall.op, agcCall.arg)
    /\ agcCall' = [agcCall EXCEPT !.pc = IF @ = "start" THEN "started" ELSE "wait"]
    /\ UNCHANGED <<agcLate, agcResult>> /\ AgcStill

(* refusal, session_refusal: the agent's own code wins, a session call     *)
(* without one matches the phrases of the agents that predate it.          *)
AgcRefusal(frame) ==
    IF frame.value = "phrase" /\ agcCall.op \in {"session", "replay"} THEN "limit"
    ELSE frame.value

\* Mutant: an answer without the size of the file is taken for the range.
AgcRangedAlways(frame) == TRUE

\* read_file_range: at an offset, the size must come with the answer.
AgcRanged(frame) == agcCall.arg > 0 => frame.sized

AgcReceive ==
    /\ agcCall.pc = "wait" /\ agcWire.down # <<>>
    /\ LET frame == Head(agcWire.down)
           wanted == IF agcCall.op \in {"session", "replay"} THEN "session" ELSE agcCall.op
       IN CASE frame.kind = "error" -> AgcReport("refused", AgcRefusal(frame))
            [] frame.kind = wanted /\ frame.kind = "read" /\ ~AgcRanged(frame) ->
                    AgcReport("unsupported", 0)
            [] frame.kind = wanted /\ (frame.kind = "read" => AgcRanged(frame)) ->
                    AgcReport("ok", frame.value)
            [] frame.kind \notin {"error", wanted} -> AgcReport("failed", 0)
    /\ AgcStill

(* exec_stream_start and exec_stream_recv: started, output frames in their *)
(* order, the exit; anything else fails the call.                          *)
AgcStream ==
    /\ agcCall.pc \in {"started", "stream"} /\ agcWire.down # <<>>
    /\ LET frame == Head(agcWire.down) IN
        \/ /\ frame.kind = (IF agcCall.pc = "started" THEN "started" ELSE "output")
           /\ agcCall' = [agcCall EXCEPT !.pc = "stream",
                              !.got = IF frame.kind = "output" THEN @ + 1 ELSE 0]
           /\ agcWire' = [agcWire EXCEPT !.down = Tail(@)]
           /\ UNCHANGED <<agcLate, agcResult>>
        \/ /\ frame.kind = "exit" /\ agcCall.pc = "stream"
           /\ AgcReport("ok", agcCall.got)
    /\ AgcStill

(* The end of the stream before a whole frame, a frame that is not JSON or *)
(* too large, the payload timeout, the ten seconds of a session call, or   *)
(* the caller going away.                                                  *)
AgcDrop ==
    /\ agcCall.pc # "idle"
    /\ AgcReport("failed", 0)
    /\ AgcStill

AgcNext ==
    \/ \E op \in AgcOps, arg \in 0..AgcChunks : AgcOpen(op, arg)
    \/ AgcAsk \/ AgcGate \/ AgcSend \/ AgcReceive \/ AgcStream \/ AgcDrop
    \/ AgcServe \/ AgcServeLate

(***************************************************************************)
(* For every agent version a call reports what the guest did. An upload    *)
(* reported chunk by chunk is the file, in order (write_file); a read at   *)
(* an offset is from that offset (read_file_range); a fork that needs the  *)
(* restore hooks is only told they ran (restore_guest); a stream that      *)
(* ended with an exit delivered all its output (exec_stream_recv); the     *)
(* host waits for a guest to power off only when it will (shutdown); no    *)
(* request an agent does not know is sent to it; and a session limit is    *)
(* recognised whichever way the agent words it (session_refusal).          *)
(***************************************************************************)
AgcExact ==
    LET r == agcResult IN
    /\ r.op = "write" /\ r.out = "ok" => agcGuest.file = [i \in 1..r.arg |-> i]
                                         \/ agcCall.op = "write"
    /\ r.op = "read" /\ r.out = "ok" => r.value = r.arg
    /\ r.op = "restore" => /\ r.out = "ok" => agcGuest.restored
                           /\ r.out = "skipped" => r.arg = 0
    /\ r.op = "exec" /\ r.out = "ok" => r.value = AgcChunks
    /\ r.op = "shutdown" /\ r.out = "ok" => r.value = agcGuest.power
    /\ r.op \in {"session", "replay"} /\ r.out = "ok" => agcGuest.sessions > 0
    /\ \A i \in 1..Len(agcWire.up) : agcVersion >= AgcVocabulary(agcWire.up[i].op)
    /\ r.op \in {"session", "replay"} /\ r.out = "refused" => r.value = "limit"
=============================================================================
