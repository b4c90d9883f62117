---------------------------- MODULE ApiSessions -----------------------------
(***************************************************************************)
(* Detached sessions at the API (husker-api sessions.rs): start_owned, which *)
(* the daemon finishes whether or not the client waits, and the monitor     *)
(* task it leaves behind, which holds the VM's idle guard while the guest's *)
(* command runs and gives it up while the VM is suspended.  The VM is found *)
(* by name in every step, so it may be another generation each time.        *)
(***************************************************************************)
EXTENDS Integers, FiniteSets

CONSTANTS
  MonTasks,      \* concurrent submissions
  MonMaxStarts,  \* bound on submissions
  MonMaxGens,    \* bound on generations of the VM
  MonMaxFails,   \* failed polls in a row (30 s of them) before a monitor ends
  MonMaxPauses   \* bound on suspends and pauses

VARIABLES
  monVm,       \* the VM of the name: generation (0: none) and state
  monGuest,    \* sessions of a generation: {<<gen, id, state>>}
  monTask,     \* the submission of each task
  monKeys,     \* monitors(): the registered <<gen, id>>
  monWatch,    \* the monitor tasks
  monLost,     \* sessions left without a monitor: the start's answer was lost,
               \* the monitor gave up, ended at a paused VM, or is of another generation
  monCount     \* submissions, pauses and fresh ids so far

monVars == <<monVm, monGuest, monTask, monKeys, monWatch, monLost, monCount>>

MonIdle == [stage |-> "idle", gen |-> 0, at |-> 0, id |-> 0]

MonInit ==
  /\ monVm = [gen |-> 1, state |-> "running"] /\ monGuest = {}
  /\ monTask = [t \in MonTasks |-> MonIdle]
  /\ monKeys = {} /\ monWatch = {} /\ monLost = {}
  /\ monCount = [starts |-> 0, pauses |-> 0, ids |-> 1]

MonGoes(t, task) == monTask' = [monTask EXCEPT ![t] = task]
MonIsRunning(gen, id) == <<gen, id, "running">> \in monGuest
MonKnown(gen, id) == \E s \in {"running", "finished"} : <<gen, id, s>> \in monGuest

(***************************************************************************)
(* start_owned.                                                             *)
(***************************************************************************)

\* Policy and environment are in order; the VM's id is read.  id 0 is a keyed
\* submission, whose id the key and the VM give (here: 0 itself).
MonBegin(t, keyed) ==
  /\ monTask[t].stage = "idle" /\ monCount.starts < MonMaxStarts /\ monVm.gen # 0
  /\ MonGoes(t, [stage |-> "connect", gen |-> monVm.gen, at |-> 0,
                 id |-> IF keyed THEN 0 ELSE monCount.ids])
  /\ monCount' = [monCount EXCEPT !.starts = @ + 1, !.ids = IF keyed THEN @ ELSE @ + 1]
  /\ UNCHANGED <<monVm, monGuest, monKeys, monWatch, monLost>>

\* agent_connection (resuming a suspended VM, refusing a paused or stopped
\* one), then the same id is required.
MonConnect(t, ok) ==
  LET task == monTask[t]
  IN /\ task.stage = "connect"
     /\ IF ok /\ monVm.gen # 0 /\ monVm.state \in {"running", "suspended"}
        THEN /\ monVm' = [monVm EXCEPT !.state = "running"]
             /\ MonGoes(t, IF monVm.gen = task.gen
                           THEN [task EXCEPT !.stage = "start", !.at = monVm.gen] ELSE MonIdle)
        ELSE MonGoes(t, MonIdle) /\ UNCHANGED monVm
     /\ UNCHANGED <<monGuest, monKeys, monWatch, monLost, monCount>>

\* session_start over the connection: the guest it reaches is the one it was
\* opened to.  A keyed start is answered with the session that exists.  The
\* guest may have accepted a start whose answer never arrives: the submission
\* fails, the command runs and nobody watches it until a keyed retry.
MonStart(t, answered) ==
  LET task == monTask[t]
      up == task.at = monVm.gen /\ monVm.state = "running"
      known == MonKnown(task.at, task.id)
  IN /\ task.stage = "start"
     /\ IF up /\ (task.id = 0 \/ ~known)
        THEN /\ monGuest' = IF known THEN monGuest
                            ELSE monGuest \cup {<<task.at, task.id, "running">>}
             /\ MonGoes(t, IF answered THEN [task EXCEPT !.stage = "register"] ELSE MonIdle)
             /\ monLost' = IF answered \/ known THEN monLost
                           ELSE monLost \cup {<<task.at, task.id>>}
        ELSE MonGoes(t, MonIdle) /\ UNCHANGED <<monGuest, monLost>>
     /\ UNCHANGED <<monVm, monKeys, monWatch, monCount>>

\* Mutant: a submission registers a monitor without looking for one.
MonAlreadyNever(key) == FALSE

MonAlready(key) == key \in monKeys

\* The monitor is registered once per session; the guard is taken on the VM
\* the name stands for now.
MonRegister(t) ==
  LET task == monTask[t]
      key == <<task.gen, task.id>>
  IN /\ task.stage = "register" /\ MonGoes(t, MonIdle)
     /\ IF MonAlready(key) \/ monVm.gen = 0 THEN UNCHANGED <<monKeys, monWatch, monLost>>
        ELSE /\ monKeys' = monKeys \cup {key}
             /\ monWatch' = monWatch \cup
                  {[key |-> key, gen |-> monVm.gen, guard |-> TRUE, fails |-> 0, task |-> t]}
             /\ monLost' = IF monVm.gen = task.gen THEN monLost \ {key} ELSE monLost \cup {key}
     /\ UNCHANGED <<monVm, monGuest, monCount>>

(***************************************************************************)
(* The monitor.                                                             *)
(***************************************************************************)

MonEnds(w, lost) ==
  /\ monWatch' = monWatch \ {w} /\ monKeys' = monKeys \ {w.key}
  /\ monLost' = IF lost THEN monLost \cup {w.key} ELSE monLost
MonGoesOn(w, next) ==
  /\ monWatch' = (monWatch \ {w}) \cup {next} /\ UNCHANGED <<monKeys, monLost>>

\* One turn of the loop; `heard` says whether the guest answered in time.  A
\* paused VM ends the monitor like a stopped one, though its command goes on
\* after an unpause.
MonPoll(w, heard) ==
  LET guest == <<w.gen, w.key[2]>>
  IN /\ IF monVm.gen # w.gen THEN MonEnds(w, FALSE)
        ELSE IF monVm.state = "suspended"
        THEN MonGoesOn(w, [w EXCEPT !.guard = FALSE, !.fails = 0])
        ELSE IF monVm.state # "running" THEN MonEnds(w, monVm.state = "paused")
        ELSE IF heard
        THEN IF MonIsRunning(guest[1], guest[2])
             THEN MonGoesOn(w, [w EXCEPT !.guard = TRUE, !.fails = 0]) ELSE MonEnds(w, FALSE)
        ELSE IF w.fails + 1 >= MonMaxFails THEN MonEnds(w, TRUE)
        ELSE MonGoesOn(w, [w EXCEPT !.guard = TRUE, !.fails = @ + 1])
     /\ UNCHANGED <<monVm, monGuest, monTask, monCount>>

(***************************************************************************)
(* The guest and the other operations of the daemon.                        *)
(***************************************************************************)

MonFinish(s) ==
  /\ s \in monGuest /\ s[3] = "running" /\ s[1] = monVm.gen /\ monVm.state = "running"
  /\ monGuest' = (monGuest \ {s}) \cup {<<s[1], s[2], "finished">>}
  /\ UNCHANGED <<monVm, monTask, monKeys, monWatch, monLost, monCount>>

MonSuspend ==
  /\ monVm.state \in {"running", "paused"} /\ monVm.gen # 0 /\ monCount.pauses < MonMaxPauses
  /\ monVm' = [monVm EXCEPT !.state = "suspended"]
  /\ monCount' = [monCount EXCEPT !.pauses = @ + 1]
  /\ UNCHANGED <<monGuest, monTask, monKeys, monWatch, monLost>>

MonPause ==
  /\ monVm.state = "running" /\ monCount.pauses < MonMaxPauses
  /\ monVm' = [monVm EXCEPT !.state = "paused"]
  /\ monCount' = [monCount EXCEPT !.pauses = @ + 1]
  /\ UNCHANGED <<monGuest, monTask, monKeys, monWatch, monLost>>

\* resume_vm takes a suspended and a paused VM.
MonResume ==
  /\ monVm.state \in {"suspended", "paused"} /\ monVm' = [monVm EXCEPT !.state = "running"]
  /\ UNCHANGED <<monGuest, monTask, monKeys, monWatch, monLost, monCount>>

\* A destroy and a new VM of the same name; its sessions go with it.
MonReplace ==
  /\ monVm.gen \in 1..(MonMaxGens - 1)
  /\ monVm' = [gen |-> monVm.gen + 1, state |-> "running"] /\ monGuest' = {}
  /\ UNCHANGED <<monTask, monKeys, monWatch, monLost, monCount>>

MonStop ==
  /\ monVm.state \in {"running", "paused"} /\ monVm' = [monVm EXCEPT !.state = "stopped"]
  /\ monGuest' = {}
  /\ UNCHANGED <<monTask, monKeys, monWatch, monLost, monCount>>

MonNext ==
  \/ \E t \in MonTasks, keyed \in BOOLEAN : MonBegin(t, keyed)
  \/ \E t \in MonTasks, ok \in BOOLEAN : MonConnect(t, ok)
  \/ \E t \in MonTasks, answered \in BOOLEAN : MonStart(t, answered)
  \/ \E t \in MonTasks : MonRegister(t)
  \/ \E w \in monWatch, heard \in BOOLEAN : MonPoll(w, heard)
  \/ \E s \in monGuest : MonFinish(s)
  \/ MonSuspend \/ MonPause \/ MonResume \/ MonReplace \/ MonStop

(***************************************************************************)
(* Properties.                                                              *)
(***************************************************************************)

\* A detached command is watched exactly once (start_owned, monitors()): two
\* submissions of one key never leave two monitors, each holding the VM awake;
\* and a command that runs in a guest is being registered or has its monitor,
\* unless the answer to its start was lost, the name moved to another VM while
\* it was starting, or its monitor lost the guest for its whole patience or
\* found the VM paused.  A suspend, a resume, a repeated or overtaken
\* submission never costs a command its monitor.
MonSound ==
  /\ \A v, w \in monWatch : v.key = w.key => v = w
  /\ \A s \in monGuest : s[3] = "running" =>
       \/ \E w \in monWatch : w.key = <<s[1], s[2]>>
       \/ \E t \in MonTasks : /\ monTask[t].stage = "register"
                              /\ monTask[t].at = s[1] /\ monTask[t].id = s[2]
       \/ <<s[1], s[2]>> \in monLost
=============================================================================
