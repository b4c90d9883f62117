----------------------------- MODULE ApiStreams -----------------------------
(***************************************************************************)
(* The long-lived transports of the API: the exec and the shell WebSocket   *)
(* (handlers.rs), the preview tunnel (sessions.rs) and the one-shot file    *)
(* read.  Frames pass guest -> daemon -> socket -> client; a send is done   *)
(* when the socket has room again, the client may leave at any moment, the  *)
(* guest may be lost, and the daemon's grace period ends an exec anywhere   *)
(* inside its run.                                                          *)
(***************************************************************************)
EXTENDS Integers, Sequences, FiniteSets, SequencesExt

CONSTANTS
  StmChunks,     \* bound on the guest's output frames
  StmSocket,     \* frames the socket holds before a send waits
  StmQueue,      \* frames between the tunnel's pumps (4 in the code)
  StmMaxRead,    \* max_file_read_bytes
  StmMaxFile     \* bound on a file's size

ASSUME StmAssumption == StmMaxRead \in Nat

VARIABLES
  stmKind,    \* "exec", "shell", "tunnel" or "read"
  stmStage,   \* where the session's task is
  stmThen,    \* where it goes once the send is done
  stmGuest,   \* "idle", "running", "exited" or "lost"
  stmMade,    \* output frames the guest produced
  stmOut,     \* frames on the agent connection
  stmPiped,   \* the tunnel's frames between its pumps
  stmSent,    \* frames in the socket
  stmGot,     \* frames the client received
  stmClient,  \* "up", "leaving" (it sent its close) or "gone"
  stmHalf,    \* part of the next guest frame is read
  stmCut,     \* "no", or why the session ended without a word: the "first" frame
              \* was a ping or a pong, or "input" could not be passed to the guest
  stmOld,     \* the guest predates streaming
  stmRead     \* answer of the last file read

stmVars == <<stmKind, stmStage, stmThen, stmGuest, stmMade, stmOut, stmPiped, stmSent, stmGot,
             stmClient, stmHalf, stmCut, stmOld, stmRead>>

StmNoRead == [asked |-> FALSE, served |-> 0, rest |-> 0]

StmInit ==
  /\ stmKind \in {"exec", "shell", "tunnel", "read"}
  /\ stmStage = "first" /\ stmThen = "none" /\ stmGuest = "idle" /\ stmMade = 0
  /\ stmOut = <<>> /\ stmPiped = <<>> /\ stmSent = <<>> /\ stmGot = <<>>
  /\ stmClient = "up" /\ stmHalf = FALSE /\ stmCut = "no" /\ stmOld = FALSE
  /\ stmRead = StmNoRead

StmWire == <<stmGot, stmClient, stmCut>>
StmGuestSide == <<stmGuest, stmMade, stmOut, stmHalf>>

StmGoes(stage) == stmStage' = stage /\ stmThen' = "none" /\ UNCHANGED stmSent

\* ws.send: the frame enters the socket; the task waits for room, then goes on.
StmSends(frame, stage) ==
  /\ stmSent' = Append(stmSent, frame) /\ stmStage' = "sending" /\ stmThen' = stage

\* A failed send ends the relay with nobody to tell; the closing sends ignore it.
StmFlushed ==
  /\ stmStage = "sending"
  /\ \/ stmClient # "gone" /\ Len(stmSent) <= StmSocket /\ stmStage' = stmThen
     \/ stmClient = "gone" /\ stmStage' = IF stmThen = "done" THEN "done" ELSE "close"
  /\ stmThen' = "none"
  /\ UNCHANGED <<stmKind, stmPiped, stmSent, stmOld, stmRead, StmWire, StmGuestSide>>

(***************************************************************************)
(* Opening.                                                                 *)
(***************************************************************************)

\* Mutant: a failure closes the socket without its frame.
StmFailsSilently == IF stmKind = "exec" THEN StmGoes("close") ELSE StmGoes("done")

\* exec: Failed, its frame, then Close.  shell: the frame, then the socket drops.
StmFails == StmSends("error", IF stmKind = "exec" THEN "failed" ELSE "done")

\* The first frame: a start, something else, a ping or pong, which ends the
\* session as if the client were gone, or the client leaves.
StmFirst(frame) ==
  /\ stmStage = "first" /\ stmKind \in {"exec", "shell"}
  /\ stmClient = "up" <=> frame # "none"
  /\ CASE frame = "start" -> StmGoes("policy")
       [] frame = "bad" -> StmFails
       [] OTHER -> StmGoes(IF stmKind = "exec" THEN "close" ELSE "done")
  /\ stmCut' = IF frame = "control" THEN "first" ELSE stmCut
  /\ UNCHANGED <<stmKind, stmPiped, stmOld, stmRead, stmGot, stmClient, StmGuestSide>>

\* resolve_exec_environment, or the shell's command policy.
StmPolicy(ok) ==
  /\ stmStage = "policy" /\ IF ok THEN StmGoes("connect") ELSE StmFails
  /\ UNCHANGED <<stmKind, stmPiped, stmOld, stmRead, StmWire, StmGuestSide>>

\* agent_connection, and for exec the guest's version.
StmConnect(ok, old) ==
  /\ stmStage = "connect" /\ IF ok THEN StmGoes("launch") ELSE StmFails
  /\ stmOld' = (ok /\ old /\ stmKind = "exec")
  /\ UNCHANGED <<stmKind, stmPiped, stmRead, StmWire, StmGuestSide>>

\* exec_stream_start or shell_start, then Started; an old guest's command
\* starts after the frame.
StmLaunch(ok) ==
  /\ stmStage = "launch"
  /\ IF ok THEN StmSends("started", "relay") ELSE StmFails
  /\ stmGuest' = IF ok THEN "running" ELSE "idle"
  /\ UNCHANGED <<stmKind, stmMade, stmOut, stmHalf, stmPiped, stmOld, stmRead, StmWire>>

\* tunnel: connected before the upgrade, a refusal is a plain HTTP answer.
StmTunnel(ok) ==
  /\ stmStage = "first" /\ stmKind = "tunnel"
  /\ StmGoes(IF ok THEN "relay" ELSE "refused")
  /\ stmGuest' = IF ok THEN "running" ELSE "idle"
  /\ UNCHANGED <<stmKind, stmMade, stmOut, stmHalf, stmPiped, stmOld, stmRead, StmWire>>

(***************************************************************************)
(* The guest.                                                               *)
(***************************************************************************)

StmGuestWrites ==
  /\ stmGuest = "running" /\ stmMade < StmChunks
  /\ stmMade' = stmMade + 1 /\ stmOut' = Append(stmOut, "data")
  /\ UNCHANGED <<stmKind, stmStage, stmThen, stmGuest, stmPiped, stmSent, stmHalf, stmOld, stmRead,
                 StmWire>>

\* An exit frame, or the end of the tunnel's stream.
StmGuestExits ==
  /\ stmGuest = "running" /\ stmGuest' = "exited" /\ stmOut' = Append(stmOut, "exit")
  /\ UNCHANGED <<stmKind, stmStage, stmThen, stmMade, stmPiped, stmSent, stmHalf, stmOld, stmRead,
                 StmWire>>

\* The connection breaks: what was in flight is lost.
StmGuestLost ==
  /\ stmGuest \in {"running", "exited"}
  /\ stmGuest' = "lost" /\ stmOut' = <<"lost">>
  /\ UNCHANGED <<stmKind, stmStage, stmThen, stmMade, stmPiped, stmSent, stmHalf, stmOld, stmRead,
                 StmWire>>

(***************************************************************************)
(* Relaying.                                                                *)
(***************************************************************************)

\* exec of a streaming guest and shell: one frame of the guest at a time.
StmRelay ==
  /\ stmStage = "relay" /\ stmKind # "tunnel" /\ ~stmOld /\ stmOut # <<>>
  /\ CASE Head(stmOut) = "data" -> StmSends("data", "relay")
       [] Head(stmOut) = "exit" -> StmSends("exit", "close")
       [] OTHER -> StmSends("error", "failed")
  /\ stmOut' = Tail(stmOut) /\ stmHalf' = FALSE
  /\ UNCHANGED <<stmKind, stmGuest, stmMade, stmPiped, stmOld, stmRead, StmWire>>

\* exec of an old guest: everything at the end.
StmRelayBuffered ==
  /\ stmStage = "relay" /\ stmOld /\ stmOut # <<>> /\ Last(stmOut) \in {"exit", "lost"}
  /\ IF Last(stmOut) = "lost" THEN StmSends("error", "failed")
     ELSE stmSent' = stmSent \o stmOut /\ stmStage' = "sending" /\ stmThen' = "close"
  /\ stmOut' = <<>>
  /\ UNCHANGED <<stmKind, stmGuest, stmMade, stmHalf, stmPiped, stmOld, stmRead, StmWire>>

\* The daemon's timer over the whole run: the future is dropped where it is,
\* even between a frame entering the socket and the end of its send.
StmTimeout ==
  /\ stmKind = "exec"
  /\ \/ stmStage \in {"launch", "relay"}
     \/ stmStage = "sending" /\ stmThen \in {"relay", "close"}
  /\ StmSends("error", "failed")
  /\ UNCHANGED <<stmKind, stmPiped, stmOld, stmRead, StmWire, StmGuestSide>>

\* shell: the select! picks the client's input or a ping while part of a guest
\* frame is read; the part is dropped with the read, the stream is out of step.
StmPart ==
  /\ stmKind = "shell" /\ stmStage = "relay" /\ stmOut # <<>> /\ Head(stmOut) # "lost" /\ ~stmHalf
  /\ stmHalf' = TRUE
  /\ UNCHANGED <<stmKind, stmStage, stmThen, stmGuest, stmMade, stmOut, stmPiped, stmSent, stmOld,
                 stmRead, StmWire>>

StmInput ==
  /\ stmKind = "shell" /\ stmStage = "relay" /\ stmClient = "up"
  /\ stmHalf /\ stmHalf' = FALSE /\ stmOut' = <<"lost">>
  /\ UNCHANGED <<stmKind, stmStage, stmThen, stmGuest, stmMade, stmPiped, stmSent, stmOld, stmRead,
                 StmWire>>

\* shell_send or shell_resize fails on a broken connection: the session closes
\* without an exit or an error, whatever the guest's side still holds unread.
StmInputFails ==
  /\ stmKind = "shell" /\ stmStage = "relay" /\ stmClient = "up" /\ stmGuest = "lost"
  /\ StmGoes("close") /\ stmCut' = "input"
  /\ UNCHANGED <<stmKind, stmPiped, stmOld, stmRead, stmGot, stmClient, StmGuestSide>>

\* shell: the client's close, or a ping it does not answer.
StmShellLeft ==
  /\ stmKind = "shell" /\ stmStage = "relay" /\ stmClient # "up"
  /\ StmGoes("close")
  /\ UNCHANGED <<stmKind, stmPiped, stmOld, stmRead, StmWire, StmGuestSide>>

\* tunnel: the response pump queues frames and, at the end, the Close.
StmPump ==
  /\ stmKind = "tunnel" /\ stmStage = "relay" /\ stmOut # <<>> /\ Len(stmPiped) < StmQueue
  /\ stmOut' = Tail(stmOut)
  /\ CASE Head(stmOut) = "data" -> stmPiped' = Append(stmPiped, "data") /\ UNCHANGED stmStage
       [] Head(stmOut) = "exit" -> stmPiped' = Append(stmPiped, "close") /\ UNCHANGED stmStage
       [] OTHER -> stmStage' = "done" /\ UNCHANGED stmPiped
  /\ UNCHANGED <<stmKind, stmThen, stmGuest, stmMade, stmHalf, stmSent, stmOld, stmRead, StmWire>>

\* tunnel: the flush pump sends them; a failed send or the Close ends the relay.
StmFlush ==
  /\ stmKind = "tunnel" /\ stmStage = "relay" /\ stmPiped # <<>> /\ Len(stmSent) < StmSocket
  /\ IF stmClient = "gone" THEN stmStage' = "done" /\ UNCHANGED <<stmPiped, stmSent>>
     ELSE /\ stmSent' = Append(stmSent, Head(stmPiped)) /\ stmPiped' = Tail(stmPiped)
          /\ stmStage' = IF Head(stmPiped) = "close" THEN "done" ELSE stmStage
  /\ UNCHANGED <<stmKind, stmThen, stmOld, stmRead, StmWire, StmGuestSide>>

\* tunnel: the input pump ends when the client closes or is gone.
StmTunnelLeft ==
  /\ stmKind = "tunnel" /\ stmStage = "relay" /\ stmClient # "up"
  /\ StmGoes("done")
  /\ UNCHANGED <<stmKind, stmPiped, stmOld, stmRead, StmWire, StmGuestSide>>

StmClose ==
  /\ stmStage \in {"close", "failed"} /\ StmSends("close", "done")
  /\ UNCHANGED <<stmKind, stmPiped, stmOld, stmRead, StmWire, StmGuestSide>>

(***************************************************************************)
(* The client.                                                              *)
(***************************************************************************)

StmReceive ==
  /\ stmClient = "up" /\ stmSent # <<>>
  /\ stmGot' = Append(stmGot, Head(stmSent)) /\ stmSent' = Tail(stmSent)
  /\ UNCHANGED <<stmKind, stmStage, stmThen, stmPiped, stmClient, stmCut, stmOld, stmRead,
                 StmGuestSide>>

StmLeave ==
  /\ \/ stmClient = "up" /\ stmClient' \in {"leaving", "gone"}
     \/ stmClient = "leaving" /\ stmClient' = "gone"
  /\ UNCHANGED <<stmKind, stmStage, stmThen, stmPiped, stmSent, stmGot, stmCut, stmOld, stmRead,
                 StmGuestSide>>

(***************************************************************************)
(* read_file_handler: the rest of the file from an offset, or len bytes.    *)
(***************************************************************************)

\* What the guest sends: len bytes at most, no more than its own ceiling;
\* a guest too old for ranges sends the rest.
StmGuestRead(rest, len, ceiling) ==
  LET least(a, b) == IF a < b THEN a ELSE b IN least(rest, least(len, ceiling))

\* One byte past the limit is asked for; len < 0 stands for none.
StmReadFile(rest, len, ceiling, sized) ==
  LET cap == StmMaxRead + 1
      asked == IF len >= 0 /\ len < cap THEN len ELSE cap
      data == StmGuestRead(rest, asked, ceiling)
      served == /\ data <= StmMaxRead
                /\ ~(len < 0 /\ sized /\ data < rest)
  IN /\ stmKind = "read" /\ stmStage = "first" /\ StmGoes("done")
     /\ stmRead' = IF served /\ len < 0 THEN [asked |-> sized, served |-> data, rest |-> rest]
                   ELSE StmNoRead
     /\ UNCHANGED <<stmKind, stmPiped, stmOld, StmWire, StmGuestSide>>

StmNext ==
  \/ StmFlushed
  \/ \E f \in {"start", "bad", "control", "none"} : StmFirst(f)
  \/ \E ok \in BOOLEAN : StmPolicy(ok)
  \/ \E ok, old \in BOOLEAN : StmConnect(ok, old)
  \/ \E ok \in BOOLEAN : StmLaunch(ok)
  \/ \E ok \in BOOLEAN : StmTunnel(ok)
  \/ StmGuestWrites \/ StmGuestExits \/ StmGuestLost
  \/ StmRelay \/ StmRelayBuffered \/ StmTimeout
  \/ StmPart \/ StmInput \/ StmInputFails \/ StmShellLeft
  \/ StmPump \/ StmFlush \/ StmTunnelLeft \/ StmClose
  \/ StmReceive \/ StmLeave
  \/ \E rest, ceiling \in 0..StmMaxFile, len \in (-1)..StmMaxFile, sized \in BOOLEAN :
       StmReadFile(rest, len, ceiling, sized)

(***************************************************************************)
(* Properties.                                                              *)
(***************************************************************************)

StmCount(seq, frame) == Cardinality({i \in DOMAIN seq : seq[i] = frame})

\* The sessions that end without a word to a client that is there: nothing was
\* started, or the shell's guest is lost.
StmUntold ==
  \/ stmCut = "first" /\ stmGuest = "idle"
  \/ stmCut = "input" /\ stmKind = "shell" /\ stmGuest = "lost"

\* What a client that stays can rely on (exec_ws_session, shell_ws_session,
\* relay): the exit comes after all the guest's output; once the session is
\* over and everything is received, an exec or a shell it opened with a text
\* or binary frame has told it how the command ended, a shell whose input
\* could not reach the lost guest excepted, and an exec always ends with the
\* close frame; a tunnel whose guest ended its stream delivered all of it
\* before the close.
StmTold ==
  /\ \A i \in DOMAIN stmGot : stmGot[i] = "exit" =>
       StmCount(SubSeq(stmGot, 1, i), "data") = stmMade
  /\ stmStage = "done" /\ stmClient = "up" /\ stmSent = <<>> =>
       /\ stmKind \in {"exec", "shell"} =>
            \/ \E f \in {"exit", "error"} : StmCount(stmGot, f) > 0
            \/ StmUntold
       /\ stmKind = "exec" => Last(stmGot) = "close"
       /\ stmKind = "tunnel" /\ stmGuest = "exited" => StmCount(stmGot, "data") = stmMade

\* A read of a whole file that is served is the whole file (read_file_handler),
\* when the guest says how long the file is.
StmReadWhole == stmRead.asked => stmRead.served = stmRead.rest

StmSound == StmTold /\ StmReadWhole
=============================================================================
