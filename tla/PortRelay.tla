----------------------------- MODULE PortRelay ------------------------------
(***************************************************************************)
(* One forwarded host port served in user space (husker-core/src/          *)
(* port_proxy.rs): the accept loop, the relay task of each connection, and *)
(* the teardown that first drains the kernel's backlog.  "guarded" is the  *)
(* Linux resume listener, whose relays pin the VM with a session each and  *)
(* may wait for its resume; "plain" is the macOS forward, whose relays are *)
(* bounded by slots.                                                       *)
(***************************************************************************)
EXTENDS Naturals

CONSTANTS
  RlySlots,       \* MAX_CONCURRENT_RELAYS of a plain forward
  RlyDrainCap,    \* DRAIN_CAP
  RlyBacklog,     \* what the kernel queues
  RlyMaxClients   \* bound on the connections explored

ASSUME RlyAssumption == RlySlots \in Nat \ {0} /\ RlyDrainCap \in Nat

VARIABLES
  rlyKind,      \* "guarded" or "plain"
  rlyForward,   \* the registered forward: its listener and its accept loop
  rlyQueued,    \* connections in the kernel's backlog
  rlyHeld,      \* a plain connection accepted and waiting for a slot
  rlyTasks,     \* relay tasks: starting, dialing, copying
  rlySessions,  \* the VM's count of active sessions
  rlySeen,      \* connections made so far
  rlyReset      \* the last teardown that reset connections: how many, how many
                \* were queued then, and whether one of its accepts failed

rlyVars == <<rlyKind, rlyForward, rlyQueued, rlyHeld, rlyTasks, rlySessions,
             rlySeen, rlyReset>>

RlyNoTasks == [starting |-> 0, dialing |-> 0, copying |-> 0]

RlyInit ==
  /\ rlyKind \in {"guarded", "plain"}
  /\ rlyForward = [listening |-> FALSE, loop |-> FALSE]
  /\ rlyQueued = 0 /\ rlyHeld = 0 /\ rlyTasks = RlyNoTasks
  /\ rlySessions = 0 /\ rlySeen = 0
  /\ rlyReset = [count |-> 0, queued |-> 0, failed |-> FALSE]

RlyMoved(from, to) == [rlyTasks EXCEPT ![from] = @ - 1, ![to] = @ + 1]
RlyRelays == rlyTasks.starting + rlyTasks.dialing + rlyTasks.copying
RlyTakesSlot == rlyKind = "plain" => RlyRelays < RlySlots

\* add_guarded, add_with_dialer: bind, spawn the loop, register the forward.
RlyAdd ==
  /\ ~rlyForward.listening
  /\ rlyForward' = [listening |-> TRUE, loop |-> TRUE]
  /\ UNCHANGED <<rlyKind, rlyQueued, rlyHeld, rlyTasks, rlySessions, rlySeen, rlyReset>>

\* A client connects; the kernel queues it for the listener.
RlyConnect ==
  /\ rlyForward.listening /\ rlyQueued < RlyBacklog /\ rlySeen < RlyMaxClients
  /\ rlyQueued' = rlyQueued + 1
  /\ rlySeen' = rlySeen + 1
  /\ UNCHANGED <<rlyKind, rlyForward, rlyHeld, rlyTasks, rlySessions, rlyReset>>

\* guarded_accept_loop hands every connection to a task of its own at once;
\* accept_loop first waits for a slot, with the connection in hand.
RlyAccept ==
  /\ rlyForward.loop /\ rlyQueued > 0 /\ rlyHeld = 0
  /\ rlyQueued' = rlyQueued - 1
  /\ IF RlyTakesSlot
     THEN rlyTasks' = [rlyTasks EXCEPT !.starting = @ + 1] /\ UNCHANGED rlyHeld
     ELSE rlyHeld' = 1 /\ UNCHANGED rlyTasks
  /\ UNCHANGED <<rlyKind, rlyForward, rlySessions, rlySeen, rlyReset>>

RlySlotFree ==
  /\ rlyForward.loop /\ rlyHeld = 1 /\ RlyTakesSlot
  /\ rlyHeld' = 0
  /\ rlyTasks' = [rlyTasks EXCEPT !.starting = @ + 1]
  /\ UNCHANGED <<rlyKind, rlyForward, rlyQueued, rlySessions, rlySeen, rlyReset>>

\* Any accept error ends the loop.  A guarded forward keeps its listener
\* bound; a plain one owned it through the loop alone.
RlyAcceptFails ==
  /\ rlyForward.loop /\ rlyHeld = 0
  /\ rlyForward' = [listening |-> rlyKind = "guarded", loop |-> FALSE]
  /\ rlyQueued' = IF rlyKind = "guarded" THEN rlyQueued ELSE 0
  /\ UNCHANGED <<rlyKind, rlyHeld, rlyTasks, rlySessions, rlySeen, rlyReset>>

\* The relay task: a guarded one counts its session first, before it dials.
RlyTaskStarts ==
  /\ rlyTasks.starting > 0
  /\ rlyTasks' = RlyMoved("starting", "dialing")
  /\ rlySessions' = IF rlyKind = "guarded" THEN rlySessions + 1 ELSE rlySessions
  /\ UNCHANGED <<rlyKind, rlyForward, rlyQueued, rlyHeld, rlySeen, rlyReset>>

\* ResumeDialer::dial: the resume hook, then the inner dial.
RlyDials ==
  /\ rlyTasks.dialing > 0
  /\ rlyTasks' = RlyMoved("dialing", "copying")
  /\ UNCHANGED <<rlyKind, rlyForward, rlyQueued, rlyHeld, rlySessions, rlySeen, rlyReset>>

\* The dial failed, or one side closed: the task and its guard are gone.
RlyTaskEnds(at) ==
  /\ rlyTasks[at] > 0
  /\ rlyTasks' = [rlyTasks EXCEPT ![at] = @ - 1]
  /\ rlySessions' = IF rlyKind = "guarded" THEN rlySessions - 1 ELSE rlySessions
  /\ UNCHANGED <<rlyKind, rlyForward, rlyQueued, rlyHeld, rlySeen, rlyReset>>

\* Mutant: the drain asks the reactor, which may not have seen the backlog.
RlyDrainedReady(queued) == {[taken |-> 0, failed |-> FALSE]}

\* What a drain may come to.  try_accept_now asks the kernel itself, up to the
\* cap; its first error (no descriptor left, a peer that is gone) stops the
\* drain with whatever is still queued.
RlyDrained(queued) ==
  LET all == IF queued < RlyDrainCap THEN queued ELSE RlyDrainCap IN
  {[taken |-> all, failed |-> FALSE]}
    \cup {[taken |-> n, failed |-> TRUE] : n \in {m \in 0..all : m < RlyDrainCap}}

\* stop and stop_all of a plain forward drain nothing.
RlyNoDrain == {[taken |-> 0, failed |-> FALSE]}

\* drain_and_close: what the drain left queued is reset with the listener.
RlyClose ==
  /\ rlyForward.listening
  /\ \E drain \in IF rlyKind = "guarded" THEN RlyDrained(rlyQueued) ELSE RlyNoDrain :
       /\ rlyTasks' = [rlyTasks EXCEPT !.starting = @ + drain.taken]
       /\ rlyReset' = IF rlyKind = "guarded" /\ rlyQueued > drain.taken
                      THEN [count |-> rlyQueued - drain.taken,
                            queued |-> rlyQueued, failed |-> drain.failed]
                      ELSE rlyReset
  /\ rlyForward' = [listening |-> FALSE, loop |-> FALSE]
  /\ rlyQueued' = 0 /\ rlyHeld' = 0
  /\ UNCHANGED <<rlyKind, rlySessions, rlySeen>>

RlyNext ==
  \/ RlyAdd \/ RlyConnect \/ RlyAccept \/ RlySlotFree \/ RlyAcceptFails
  \/ RlyTaskStarts \/ RlyDials
  \/ \E at \in {"dialing", "copying"} : RlyTaskEnds(at)
  \/ RlyClose

\* A connection the kernel took for a resume listener is reset by the teardown
\* only when more were queued than the drain takes or an accept of the drain
\* itself failed, never because the accept loop or the reactor had not come to
\* it; sessions are counted for exactly the guarded relays that have one, so
\* the idle policy neither suspends a VM under a relay nor is pinned by one
\* that ended; and a plain forward never runs more relays than it has slots.
RlyServesQueued ==
  /\ rlyReset.count > 0 => rlyReset.queued > RlyDrainCap \/ rlyReset.failed
  /\ rlySessions = IF rlyKind = "guarded" THEN rlyTasks.dialing + rlyTasks.copying
                   ELSE 0
  /\ rlyKind = "plain" => RlyRelays <= RlySlots
=============================================================================
