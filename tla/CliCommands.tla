----------------------------- MODULE CliCommands ----------------------------
(***************************************************************************)
(* The other `husker` commands as programs of daemon requests: which        *)
(* requests a command sends, in which order, which of them it can do        *)
(* without, what it asks the operator first, and what its exit code says.   *)
(* The daemon behind the connection is the route table of ApiGate.          *)
(***************************************************************************)
EXTENDS ApiGate

CONSTANTS
  CmdLimitTries,  \* RATE_LIMIT_MAX_ATTEMPTS
  CmdMaxPolls     \* bound on the answers of a poll

\* A command that names a VM names one: there are names.
ASSUME CmdAssumption == ApNames # {}

VARIABLES
  cmdRun,      \* the command
  cmdRemote,   \* the target is another machine's daemon
  cmdConsent,  \* the operator agreed to what cannot be undone
  cmdAgreed,   \* what require_confirmation makes of it
  cmdAt,       \* the request it is at; 0 before the first
  cmdTry,      \* attempts of that request
  cmdPolls,    \* answers of the poll it is at
  cmdDid,      \* how often each request took effect
  cmdSaid,     \* the last outcome of each request
  cmdExit      \* "none", "zero" or "nonzero"

cmdVars == <<cmdRun, cmdRemote, cmdConsent, cmdAgreed, cmdAt, cmdTry, cmdPolls, cmdDid, cmdSaid,
             cmdExit>>
cmdTold == <<cmdRun, cmdRemote, cmdConsent, cmdAgreed>>

(***************************************************************************)
(* Requests.  kind: what the command makes of the answer.                   *)
(*   must    anything but success ends the command                          *)
(*   state   as must, and the state it shows has to allow what comes next   *)
(*   list    as must, but with no daemon to reach it shows an empty list    *)
(*   exec    as must, and the guest command has to exit 0                   *)
(*   probe   whatever it answers, the command goes on                       *)
(*   ask     a daemon without the route, or none at all, will do; an error  *)
(*           it answers will not                                            *)
(*   here    an answer that fails is replaced by a look at this machine     *)
(*   gate    a capability the answer denies ends the command                *)
(*   absent  only an answer that there is no such resource lets it go on    *)
(*   poll    asked until it says yes or the deadline passes                 *)
(*   follow  asked until the session has ended, which has to be with exit   *)
(*           code 0, or the operator leaves                                 *)
(*   stream  a guest command over a WebSocket                               *)
(*   instead the same command once more, only for a missing stream route    *)
(* and, without a request:                                                  *)
(*   local   work on this machine, which may fail                           *)
(*   consent require_confirmation                                           *)
(***************************************************************************)

CmdStep(kind, method, path) == [kind |-> kind, method |-> method, path |-> path]
CmdVm == CHOOSE n \in ApNames : TRUE
CmdMust(method, path) == CmdStep("must", method, path)
CmdOn(plural, verb) == <<plural, CmdVm, verb>>

\* Work on this machine; method "REPLACE" overwrites a file that exists.
CmdLocal(method) == CmdStep("local", method, <<>>)
CmdConsented == CmdStep("consent", "HERE", <<>>)

\* A command: its steps, and the gates before them.  text: not for json; here:
\* only on the daemon's own machine; tty: only from a terminal.
CmdGated(steps, text, here, tty) == [steps |-> steps, text |-> text, here |-> here, tty |-> tty]
CmdPlain(steps) == CmdGated(steps, FALSE, FALSE, FALSE)
CmdText(steps) == CmdGated(steps, TRUE, FALSE, FALSE)
CmdConfirmed(path) == CmdPlain(<<CmdConsented, CmdMust("DELETE", path)>>)

\* create, list, show and a confirmed delete of a named resource.
CmdNamed(plural) ==
  {CmdPlain(<<CmdMust("POST", <<plural>>)>>), CmdPlain(<<CmdMust("GET", <<plural>>)>>),
   CmdPlain(<<CmdMust("GET", <<plural, CmdVm>>)>>), CmdConfirmed(<<plural, CmdVm>>)}

\* plan_vm_creation: a pool is checked out; otherwise the daemon's profiles
\* are asked for and the VM is created.
CmdCheckout == <<CmdMust("POST", CmdOn("pools", "checkout"))>>
CmdCreate == <<CmdStep("ask", "GET", <<"profiles">>), CmdMust("POST", <<"vms">>)>>

\* wait_for_vm_ready
CmdReady == CmdStep("poll", "GET", CmdOn("vms", "ready"))

\* apply_dns_hosts: resolv.conf is replaced; /etc/hosts is read, a failure
\* counting as an empty file, and written back merged.
CmdHosts ==
  LET files == [act \in {"read", "write"} |-> <<"vms", CmdVm, "files", act>>]
  IN <<CmdMust("POST", files["write"]), CmdStep("probe", "POST", files["read"]),
       CmdMust("POST", files["write"])>>

CmdRuns == {CmdPlain(CmdCheckout), CmdPlain(CmdCreate),
            CmdPlain(CmdCreate \o <<CmdReady>> \o CmdHosts)}

CmdLists == {CmdPlain(<<CmdStep("list", "GET", <<"vms">>)>>)}
CmdInfos == {CmdPlain(<<CmdMust("GET", <<"vms", CmdVm>>)>>)}
CmdStates == {CmdPlain(<<CmdMust("POST", CmdOn("vms", v))>>) : v \in {"stop", "pause", "resume"}}

\* preflight_capability: only an answer that denies the capability stops the
\* command; no answer lets the daemon decide.
CmdPreflight == CmdStep("gate", "GET", <<"health">>)
CmdForks == {CmdPlain(<<CmdPreflight, CmdMust("POST", CmdOn("vms", v))>>) :
               v \in {"suspend", "fork"}}
CmdDestroys == {CmdConfirmed(<<"vms", CmdVm>>)}
CmdBalloons == {CmdPlain(<<CmdMust("PUT", CmdOn("vms", "balloon"))>>)}

\* exec: buffered for json; streamed for text, with a buffered exec in its
\* place on a daemon without the route.
CmdExecs ==
  {CmdPlain(<<CmdStep("exec", "POST", CmdOn("vms", "exec"))>>),
   CmdPlain(<<CmdStep("stream", "GET", <<"vms", CmdVm, "exec", "stream">>),
              CmdStep("instead", "POST", CmdOn("vms", "exec"))>>)}

\* cp: the file is read here, then one write, or appends after the agent's
\* version is known; or it is read there and written here.
CmdCopies ==
  LET write == CmdMust("POST", <<"vms", CmdVm, "files", "write">>)
  IN {CmdPlain(<<CmdLocal("HERE"), write>>),
      CmdPlain(<<CmdLocal("HERE"), CmdMust("GET", CmdOn("vms", "guest-info")), write, write>>),
      CmdPlain(<<CmdMust("POST", <<"vms", CmdVm, "files", "read">>), CmdLocal("HERE")>>)}

CmdLogs == {CmdPlain(<<CmdMust("GET", CmdOn("vms", "logs"))>>),
            CmdText(<<CmdMust("GET", CmdOn("vms", "logs"))>>)}
CmdWaits == {CmdPlain(<<CmdMust("GET", <<"vms", CmdVm>>), CmdReady>>), CmdPlain(<<CmdReady>>)}

\* run_shell: only from a terminal; shell_refusal looks at the VM's state
\* before the WebSocket is opened.
CmdShells == {CmdGated(<<CmdStep("state", "GET", <<"vms", CmdVm>>),
                         CmdMust("GET", CmdOn("vms", "shell"))>>, TRUE, FALSE, TRUE)}
CmdVersions == {CmdPlain(<<CmdStep("probe", "GET", <<"health">>)>>)}
CmdProfiles == {CmdPlain(<<CmdStep("ask", "GET", <<"profiles">>)>>)}
CmdDoctors == {CmdPlain(<<CmdStep("here", "GET", <<"diagnostics">>)>>)}

\* setup storage: the plan, which may be that nothing is to be done, is only
\* printed; with --out a directory is made and two files are written, after
\* asking when one of them is there.
CmdSetups ==
  LET here == CmdLocal("HERE") over == CmdLocal("REPLACE")
  IN {CmdGated(steps, TRUE, TRUE, FALSE) :
        steps \in {<<here>>, <<here, here, here, here>>, <<here, here, CmdConsented, over, over>>}}

CmdPorts == {CmdPlain(<<CmdMust("POST", CmdOn("vms", "ports"))>>),
             CmdPlain(<<CmdMust("GET", CmdOn("vms", "ports"))>>),
             CmdPlain(<<CmdMust("DELETE", <<"vms", CmdVm, "ports", "8080">>)>>)}
CmdGroups == CmdNamed("host-groups")
CmdPools == CmdNamed("pools") \cup {CmdPlain(CmdCheckout)}
CmdScales == {CmdPlain(<<CmdMust("POST", CmdOn("services", "scale"))>>)}
CmdServices == CmdNamed("services") \cup CmdScales
CmdSnapshots == CmdNamed("snapshots")
                \cup {CmdPlain(<<CmdMust("POST", CmdOn("snapshots", "restore"))>>)}
CmdImages == CmdNamed("images") \cup {CmdPlain(<<CmdMust("POST", CmdOn("images", "export"))>>)}
CmdOciImports == {CmdPlain(<<CmdPreflight, CmdMust("POST", <<"images", "import-oci">>)>>)}
\* image pull downloads into this machine's data directory.
CmdPulls == {CmdGated(<<CmdLocal("HERE")>>, FALSE, TRUE, FALSE)}
CmdVolumes == CmdNamed("volumes")
CmdSecrets == CmdNamed("secrets")
              \cup {CmdPlain(<<CmdMust("GET", CmdOn("secrets", "reveal"))>>),
                    CmdPlain(<<CmdMust("POST", CmdOn("secrets", "rotate"))>>)}

CmdSessions ==
  {CmdPlain(<<CmdMust("POST", CmdOn("vms", "sessions"))>>),
   CmdPlain(<<CmdMust("GET", CmdOn("vms", "sessions"))>>),
   CmdPlain(<<CmdMust("GET", <<"vms", CmdVm, "sessions", "id">>)>>),
   CmdPlain(<<CmdMust("POST", <<"vms", CmdVm, "sessions", "id", "cancel">>)>>),
   CmdConfirmed(<<"vms", CmdVm, "sessions", "id">>)}

\* events: one page, or pages until the session has ended.
CmdEvents == {CmdPlain(<<CmdMust("GET", <<"vms", CmdVm, "sessions", "id", "events">>)>>),
              CmdText(<<CmdStep("follow", "GET", <<"vms", CmdVm, "sessions", "id", "events">>)>>)}

\* development: dev prepare builds an image in a VM of its own, named at
\* random, and removes that VM only after the image is committed.
CmdScript == CmdStep("exec", "POST", CmdOn("vms", "exec"))
CmdDevs ==
  {CmdPlain(<<CmdStep("absent", "GET", <<"images", CmdVm>>)>> \o CmdCreate
            \o <<CmdScript, CmdScript, CmdScript, CmdScript, CmdMust("POST", CmdOn("vms", "stop")),
                 CmdMust("POST", CmdOn("vms", "commit-image")),
                 CmdMust("DELETE", <<"vms", CmdVm>>)>>),
   CmdPlain(CmdCreate \o <<CmdScript, CmdScript>>),
   CmdPlain(<<CmdScript>>)}

\* preview: a first tunnel proves the service answers before the local port is
\* bound and a URL printed.
CmdPreviews == {CmdText(<<CmdMust("GET", <<"vms", CmdVm, "tunnel", "80">>), CmdLocal("HERE")>>)}

CmdAll == UNION {CmdRuns, CmdLists, CmdInfos, CmdStates, CmdForks, CmdDestroys, CmdBalloons,
                 CmdExecs, CmdCopies, CmdLogs, CmdWaits, CmdShells, CmdVersions, CmdProfiles,
                 CmdDoctors, CmdSetups, CmdPorts, CmdGroups, CmdPools, CmdServices, CmdSnapshots,
                 CmdImages, CmdOciImports, CmdPulls, CmdVolumes, CmdSecrets, CmdSessions,
                 CmdEvents, CmdDevs, CmdPreviews}

(***************************************************************************)
(* Starting.                                                                *)
(***************************************************************************)

CmdAsks == [yes : BOOLEAN, terminal : BOOLEAN, json : BOOLEAN, remote : BOOLEAN]
CmdLen == Len(cmdRun.steps)
CmdNow == cmdRun.steps[cmdAt]

CmdInit ==
  /\ cmdRun = CmdPlain(<<>>) /\ cmdRemote = FALSE
  /\ cmdConsent = FALSE /\ cmdAgreed = FALSE /\ cmdAt = 0 /\ cmdTry = 1 /\ cmdPolls = 0
  /\ cmdDid = <<>> /\ cmdSaid = <<>> /\ cmdExit = "none"

\* json_output_refusal, host_local_refusal and run_shell's look at stdin: before
\* anything is done.
CmdRefused(c, a) == (c.text /\ a.json) \/ (c.here /\ a.remote) \/ (c.tty /\ ~a.terminal)

\* Mutant: without a terminal to ask on, the command goes ahead.
CmdAgreesUnasked(a, answer) == a.yes \/ ~a.terminal \/ answer

\* require_confirmation: --yes, or a yes typed at the prompt of a terminal.
CmdAgrees(a, answer) == a.yes \/ (a.terminal /\ answer)

\* SshTunnel::establish: a remote target may be out of reach before the
\* first request.
CmdConnects(a, up) == a.remote => up

CmdStart(c, a, answer, up) ==
  /\ cmdAt = 0 /\ cmdExit = "none"
  /\ cmdRun' = c /\ cmdRemote' = a.remote
  /\ cmdConsent' = (a.yes \/ (a.terminal /\ answer)) /\ cmdAgreed' = CmdAgrees(a, answer)
  /\ cmdDid' = [i \in 1..Len(c.steps) |-> 0] /\ cmdSaid' = [i \in 1..Len(c.steps) |-> "none"]
  /\ IF CmdRefused(c, a) \/ ~CmdConnects(a, up) THEN cmdExit' = "nonzero" /\ cmdAt' = 0
     ELSE cmdExit' = "none" /\ cmdAt' = 1
  /\ UNCHANGED <<cmdTry, cmdPolls>>

(***************************************************************************)
(* One request and its outcome.                                             *)
(***************************************************************************)

CmdEffect(o) == o \in {"ok", "denied", "unanswered", "ended badly"}

\* What the command does with the outcome: stop, go on, ask again, or leave
\* out the request that would only have replaced this one.
CmdVerdict(kind, o) ==
  CASE kind \in {"must", "exec", "instead", "state", "local", "consent"} ->
         IF o = "ok" THEN "next" ELSE "fail"
    [] kind = "list" -> IF o \in {"ok", "lost"} THEN "next" ELSE "fail"
    [] kind = "probe" -> "next"
    [] kind = "ask" -> IF o = "refused" THEN "fail" ELSE "next"
    [] kind = "here" -> IF o = "ended badly" \/ (o # "ok" /\ cmdRemote) THEN "fail" ELSE "next"
    [] kind = "gate" -> IF o = "denied" THEN "fail" ELSE "next"
    [] kind = "absent" -> IF o = "missing" THEN "next" ELSE "fail"
    [] kind \in {"poll", "follow"} -> IF o = "ok" THEN "next"
                                      ELSE IF o = "denied" THEN "again" ELSE "fail"
    [] kind = "stream" -> IF o = "ok" THEN "skip" ELSE IF o = "missing" THEN "next" ELSE "fail"

CmdAnswers == {"ok", "refused", "denied", "lost", "unanswered", "missing", "ended badly"}

\* The outcomes a step of that kind can have.  lost: there is no daemon to
\* reach; unanswered: the request may have taken effect.
CmdOutcomes(kind) ==
  IF kind = "consent" THEN (IF cmdAgreed THEN {"ok"} ELSE {"refused"})
  ELSE IF kind = "local" THEN {"ok", "refused"}
  ELSE {"ok", "refused", "lost", "unanswered"}
       \cup (IF kind \in {"gate", "poll", "follow", "state"} THEN {"denied"} ELSE {})
       \cup (IF kind \in {"exec", "stream", "instead", "here", "follow"} THEN {"ended badly"} ELSE {})
       \cup (IF kind \in {"ask", "stream", "absent"} THEN {"missing"} ELSE {})

CmdAdvance(by) ==
  /\ cmdAt' = cmdAt + by /\ cmdTry' = 1 /\ cmdPolls' = 0
  /\ cmdExit' = IF cmdAt + by > CmdLen THEN "zero" ELSE cmdExit

CmdAnswer(o) ==
  LET verdict == CmdVerdict(CmdNow.kind, o)
  IN /\ cmdAt \in 1..CmdLen /\ cmdExit = "none"
     /\ o \in CmdOutcomes(CmdNow.kind)
     /\ cmdDid' = [cmdDid EXCEPT ![cmdAt] = IF CmdEffect(o) THEN @ + 1 ELSE @]
     /\ cmdSaid' = [cmdSaid EXCEPT ![cmdAt] = o]
     /\ CASE verdict = "next" -> CmdAdvance(1)
          [] verdict = "skip" -> CmdAdvance(2)
          [] verdict = "again" -> /\ cmdPolls < CmdMaxPolls /\ cmdPolls' = cmdPolls + 1
                                  /\ UNCHANGED <<cmdAt, cmdTry, cmdExit>>
          [] verdict = "fail" -> cmdExit' = "nonzero" /\ UNCHANGED <<cmdAt, cmdTry, cmdPolls>>
     /\ UNCHANGED cmdTold

\* The deadline of a poll.
CmdDeadline ==
  /\ cmdAt \in 1..CmdLen /\ cmdExit = "none" /\ CmdNow.kind = "poll"
  /\ cmdExit' = "nonzero"
  /\ UNCHANGED <<cmdTold, cmdAt, cmdTry, cmdPolls, cmdDid, cmdSaid>>

\* Ctrl-C while following is the operator's way to leave.
CmdLeave ==
  /\ cmdAt \in 1..CmdLen /\ cmdExit = "none" /\ CmdNow.kind = "follow" /\ cmdPolls > 0
  /\ cmdExit' = "zero"
  /\ UNCHANGED <<cmdTold, cmdAt, cmdTry, cmdPolls, cmdDid, cmdSaid>>

\* DaemonClient::send: a 429 is sent again up to the limit, then reported; a
\* WebSocket handshake and a try_send are not repeated.
CmdLimited ==
  /\ cmdAt \in 1..CmdLen /\ cmdExit = "none" /\ ApKind(CmdNow) # "none"
  /\ CmdNow.method = "POST" /\ cmdTry < CmdLimitTries
  /\ cmdTry' = cmdTry + 1
  /\ UNCHANGED <<cmdTold, cmdAt, cmdPolls, cmdDid, cmdSaid, cmdExit>>

CmdNext ==
  \/ \E c \in CmdAll, a \in CmdAsks, answer, up \in BOOLEAN : CmdStart(c, a, answer, up)
  \/ \E o \in CmdAnswers : CmdAnswer(o)
  \/ CmdDeadline \/ CmdLeave \/ CmdLimited

(***************************************************************************)
(* The property.                                                            *)
(***************************************************************************)

CmdRouted == {<<r.method, r.path>> : r \in ApRoutes}
CmdReads(s) == s.method = "GET" /\ s.kind # "stream"
CmdDestroying(s) == s.method \in {"DELETE", "REPLACE"}

\* A command keeps to what it was told and says what it did: whatever is lost
\* or left unanswered, no request that changes something takes effect twice and
\* a guest command runs at most once.  Exit code 0 means that every step the
\* command cannot do without succeeded, one of the two forms of an exec among
\* them; that a followed session ended with code 0 or was left while it ran;
\* that an image to be built was said not to exist; and that a list was
\* answered, except that with no daemon to reach an empty one is shown.  A
\* delete that took effect, and a file setup overwrote, was agreed to,
\* except a forwarded port and the VM the same command created; a command of
\* this machine never runs for a remote daemon; and every request is one the
\* daemon's router has.
CmdFaithful ==
  LET steps == cmdRun.steps
      idx == DOMAIN cmdDid
  IN /\ \A i \in idx : cmdDid[i] > 1 => CmdReads(steps[i])
     /\ \A i \in idx : steps[i].kind = "stream" => cmdDid[i] + cmdDid[i + 1] <= 1
     /\ cmdExit = "zero" =>
          \A i \in idx :
            /\ steps[i].kind \in {"must", "state", "exec", "poll", "local"} => cmdSaid[i] = "ok"
            /\ steps[i].kind = "stream" => cmdSaid[i] = "ok" \/ cmdSaid[i + 1] = "ok"
            /\ steps[i].kind = "follow" => cmdSaid[i] \in {"ok", "denied"}
            /\ steps[i].kind = "absent" => cmdSaid[i] = "missing"
            /\ steps[i].kind = "list" => cmdSaid[i] \in {"ok", "lost"}
     /\ \A i \in idx : CmdDestroying(steps[i]) /\ cmdDid[i] > 0 =>
          \/ cmdConsent \/ (Len(steps[i].path) = 4 /\ steps[i].path[3] = "ports")
          \/ \E j \in 1..(i - 1) : steps[j].path = <<"vms">> /\ cmdDid[j] = 1
     /\ cmdRun.here /\ cmdRemote => cmdExit # "zero" /\ \A i \in idx : cmdDid[i] = 0
     /\ \A i \in idx : steps[i].kind \notin {"local", "consent"} =>
          <<steps[i].method, steps[i].path>> \in CmdRouted
=============================================================================
