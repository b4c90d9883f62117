-------------------------------- MODULE CliJob ------------------------------
(***************************************************************************)
(* `husker job`: create a VM, wait for its agent, send the working tree,    *)
(* run one command, bring its outputs back and destroy the VM, over a       *)
(* daemon connection that may refuse, lose or leave unanswered any request. *)
(* VMs are addressed by name, so after ours is gone another client's VM may *)
(* carry the same name.                                                     *)
(***************************************************************************)
EXTENDS Integers, FiniteSets

CONSTANTS
  JbOptions,      \* the command lines tried
  JbChunks,       \* chunks of the sync archive; more than one needs append
  JbLimitTries,   \* RATE_LIMIT_MAX_ATTEMPTS
  JbCleanupTries, \* CLEANUP_MAX_ATTEMPTS
  JbMaxRivals     \* bound on what other clients do with the name

\* A command line names finitely many paths, and so does the working tree.
ASSUME JbAssumption == \A o \in JbOptions : IsFiniteSet(o.out) /\ IsFiniteSet(o.back)

VARIABLES
  jbOpt,     \* the command line
  jbStage,   \* what the client does next
  jbTry,     \* attempts of the current request
  jbPart,    \* chunks of the archive written
  jbMade,    \* the creation was answered
  jbVm,      \* the VM of that name: "none", "ours" or "other"
  jbRuns,    \* times the command was started
  jbExit,    \* the exit code the client holds, -1 for none
  jbMissed,  \* patterns the guest's manifest calls unmatched
  jbLines,   \* how many lines say so: the guest may repeat one
  jbPacked,  \* the guest's archive: "none", "whole", "torn" or "over limit"
  jbHost,    \* what reached the working tree: "untouched", "some" or "whole"
  jbFault,   \* a retrieval failure
  jbEnd,     \* the termination: "none", "success", "exit", "failure", "unclean" (a failure
             \* that says the VM stays) or "undelivered" (nobody reads the result)
  jbTold,    \* the user was told that the VM stays
  jbRivals   \* what others did

jbVars == <<jbOpt, jbStage, jbTry, jbPart, jbMade, jbVm, jbRuns, jbExit, jbMissed, jbLines,
            jbPacked, jbHost, jbFault, jbEnd, jbTold, jbRivals>>

jbGuest == <<jbRuns, jbMissed, jbLines, jbPacked>>
jbResult == <<jbExit, jbHost, jbFault>>

(***************************************************************************)
(* What is asked for.                                                       *)
(***************************************************************************)

\* retrieve_paths: the synced paths of --write-back and the --out patterns,
\* asked for only with --sync-cwd.
JbAsked(o) == IF o.sync THEN o.out \cup o.back ELSE {}

\* validate_request: --sync-cwd needs a command.
JbValid(o) == o.sync => o.command

JbInit ==
  /\ jbOpt \in JbOptions /\ jbStage = "validate" /\ jbTry = 1 /\ jbPart = 0 /\ jbMade = FALSE
  /\ jbVm \in {"none", "other"} /\ jbRuns = 0 /\ jbExit = -1
  /\ jbMissed = {} /\ jbLines = 0 /\ jbPacked = "none" /\ jbHost = "untouched" /\ jbFault = FALSE
  /\ jbEnd = "none" /\ jbTold = FALSE /\ jbRivals = 0

(***************************************************************************)
(* One request.  refused: an answer that is no success; lost: no effect and *)
(* no answer; unanswered: an effect and no answer.                          *)
(***************************************************************************)

\* What may come of a request that needs a VM of that name.
JbOutcomes == IF jbVm = "none" THEN {"refused", "lost"}
              ELSE {"ok", "refused", "lost", "unanswered"}
JbEffect(o) == o \in {"ok", "unanswered"}

JbGo(stage) == jbStage' = stage /\ jbTry' = 1

\* execute_created_job failed, or the user interrupted it: a VM that is kept
\* is named to the user, any other is destroyed.
JbAbandon(end) ==
  /\ jbEnd' = end
  /\ JbGo(IF jbOpt.keep THEN "done" ELSE "abandon")
  /\ jbTold' = jbOpt.keep

\* DaemonClient::send: only a 429, refused before any handler ran, is sent
\* again, up to the attempt limit.
JbLimited ==
  /\ jbStage \in {"hosts", "upload", "exec", "manifest", "outputs"}
  /\ jbTry < JbLimitTries /\ jbTry' = jbTry + 1
  /\ UNCHANGED <<jbOpt, jbMade, jbStage, jbPart, jbVm, jbGuest, jbResult, jbEnd, jbTold, jbRivals>>

(***************************************************************************)
(* Creation.                                                                *)
(***************************************************************************)

JbValidate ==
  /\ jbStage = "validate"
  /\ IF JbValid(jbOpt) THEN JbGo("create") /\ UNCHANGED jbEnd
     ELSE JbGo("done") /\ jbEnd' = "failure"
  /\ UNCHANGED <<jbOpt, jbMade, jbPart, jbVm, jbGuest, jbResult, jbTold, jbRivals>>

\* create_job_vm: a name in use is refused; the client only knows of a VM
\* whose creation it was answered.
JbCreate(o) ==
  /\ jbStage = "create"
  /\ o \in IF jbVm = "none" THEN {"ok", "refused", "lost", "unanswered"} ELSE {"refused", "lost"}
  /\ jbMade' = (o = "ok")
  /\ jbVm' = IF JbEffect(o) THEN "ours" ELSE jbVm
  /\ IF o = "ok" THEN JbGo("health") /\ UNCHANGED jbEnd ELSE JbGo("done") /\ jbEnd' = "failure"
  /\ UNCHANGED <<jbOpt, jbPart, jbGuest, jbResult, jbTold, jbRivals>>

\* The interrupt wins while the creation is not answered: nothing is destroyed.
JbInterruptCreate(made) ==
  /\ jbStage = "create"
  /\ made => jbVm = "none"
  /\ jbVm' = IF made THEN "ours" ELSE jbVm
  /\ JbGo("done") /\ jbEnd' = "exit"
  /\ UNCHANGED <<jbOpt, jbMade, jbPart, jbGuest, jbResult, jbTold, jbRivals>>

(***************************************************************************)
(* Readiness, host entries and the working tree.                            *)
(***************************************************************************)

JbRunning == {"health", "look up", "ready", "hosts", "archive", "info", "upload", "stream",
              "exec", "manifest", "outputs", "extract"}

\* The interrupt while execute_created_job runs; a request in flight may
\* still reach the guest.
JbInterrupt ==
  /\ jbStage \in JbRunning
  /\ JbAbandon("exit")
  /\ jbRuns' \in IF jbStage \in {"stream", "exec"} /\ jbVm # "none" THEN {jbRuns, jbRuns + 1}
                 ELSE {jbRuns}
  /\ UNCHANGED <<jbOpt, jbMade, jbPart, jbVm, jbMissed, jbLines, jbPacked, jbResult, jbRivals>>

\* The version probe of a long --timeout: whatever it answers, the job goes on.
JbHealth ==
  /\ jbStage = "health" /\ JbGo("look up")
  /\ UNCHANGED <<jbOpt, jbMade, jbPart, jbVm, jbGuest, jbResult, jbEnd, jbTold, jbRivals>>

\* A read the job cannot do without: any answer but success ends it.
JbNeeds(stage, next, o) ==
  /\ jbStage = stage /\ o \in JbOutcomes
  /\ IF o = "ok" THEN JbGo(next) /\ UNCHANGED <<jbEnd, jbTold>> ELSE JbAbandon("failure")
  /\ UNCHANGED <<jbOpt, jbMade, jbPart, jbVm, jbGuest, jbResult, jbRivals>>

JbLookUp(o) == JbNeeds("look up", "ready", o)

\* wait_for_vm_ready: polls until ready; past the deadline boot_diagnosis
\* reads the console and the job fails.
JbReady(o) == JbNeeds("ready", "hosts", o)

JbReadyTimeout ==
  /\ jbStage = "ready" /\ JbAbandon("failure")
  /\ UNCHANGED <<jbOpt, jbMade, jbPart, jbVm, jbGuest, jbResult, jbRivals>>

\* apply_dns_hosts: resolv.conf written, /etc/hosts read (absent is empty) and
\* written.
JbHosts(o) == JbNeeds("hosts", IF jbOpt.sync THEN "archive"
                               ELSE IF jbOpt.text THEN "stream" ELSE "exec", o)

\* build_sync_archive reads the working tree, which may fail.
JbArchive(ok) ==
  /\ jbStage = "archive"
  /\ IF ok THEN JbGo(IF JbChunks = 1 THEN "upload" ELSE "info") /\ UNCHANGED <<jbEnd, jbTold>>
     ELSE JbAbandon("failure")
  /\ UNCHANGED <<jbOpt, jbMade, jbPart, jbVm, jbGuest, jbResult, jbRivals>>

\* More than one chunk is only sent to an agent that appends.
JbInfo(o) == JbNeeds("info", "upload", o)

\* write_file_bytes: chunk by chunk, the first one replaces the file.
JbUpload(o) ==
  /\ jbStage = "upload" /\ o \in JbOutcomes
  /\ IF o # "ok" THEN JbAbandon("failure") /\ UNCHANGED jbPart
     ELSE /\ jbPart' = jbPart + 1
          /\ IF jbPart' < JbChunks THEN JbGo("upload")
             ELSE JbGo(IF jbOpt.text THEN "stream" ELSE "exec")
          /\ UNCHANGED <<jbEnd, jbTold>>
  /\ UNCHANGED <<jbOpt, jbMade, jbVm, jbGuest, jbResult, jbRivals>>

(***************************************************************************)
(* The command.                                                             *)
(***************************************************************************)

\* The wrapper wrap_sync_command builds: after the command it lists the
\* patterns that matched nothing and packs the rest, best effort; a guest that
\* ends early leaves neither, and one that meddles with the list may repeat a
\* line of it.
JbWrapped ==
  \/ UNCHANGED <<jbMissed, jbLines, jbPacked>>
  \/ /\ JbAsked(jbOpt) # {}
     /\ jbMissed' \in SUBSET JbAsked(jbOpt)
     /\ jbLines' \in IF jbMissed' = {} THEN {0}
                     ELSE Cardinality(jbMissed')..(Cardinality(JbAsked(jbOpt)) + 1)
     /\ jbPacked' \in IF jbMissed' = JbAsked(jbOpt) THEN {"none"}
                      ELSE {"none", "whole", "torn", "over limit"}

JbAfterExec == IF JbAsked(jbOpt) = {} THEN "decide" ELSE "manifest"

\* The command ran and the client holds its exit code; or it may have run and
\* the answer never came.
JbRan(o, exit) ==
  /\ jbRuns' = jbRuns + 1 /\ JbWrapped
  /\ IF o = "ok" THEN jbExit' = exit /\ JbGo(JbAfterExec) /\ UNCHANGED <<jbEnd, jbTold>>
     ELSE JbAbandon("failure") /\ UNCHANGED jbExit

JbNotRun == JbAbandon("failure") /\ UNCHANGED <<jbExit, jbGuest>>

\* Mutant: a stream that broke is taken for a daemon without the route.
JbAfterStreamAlways(o) == IF o \in {"missing", "unanswered"} THEN "exec" ELSE "fail"

\* exec_stream returned no exit code: only a missing route, refused at the
\* handshake, may be tried as a buffered exec.
JbAfterStream(o) == IF o = "missing" THEN "exec" ELSE "fail"

\* exec_stream: after the upgrade every error ends the job.
JbStream(o, exit) ==
  /\ jbStage = "stream" /\ o \in JbOutcomes \cup {"missing"}
  /\ IF JbAfterStream(o) = "exec"
     THEN /\ JbGo("exec") /\ UNCHANGED <<jbExit, jbMissed, jbLines, jbPacked, jbEnd, jbTold>>
          /\ jbRuns' = IF JbEffect(o) THEN jbRuns + 1 ELSE jbRuns
     ELSE IF JbEffect(o) THEN JbRan(o, exit) ELSE JbNotRun
  /\ UNCHANGED <<jbOpt, jbMade, jbPart, jbVm, jbHost, jbFault, jbRivals>>

JbExec(o, exit) ==
  /\ jbStage = "exec" /\ o \in JbOutcomes
  /\ IF JbEffect(o) THEN JbRan(o, exit) ELSE JbNotRun
  /\ UNCHANGED <<jbOpt, jbMade, jbPart, jbVm, jbHost, jbFault, jbRivals>>

(***************************************************************************)
(* retrieve_outputs.                                                        *)
(***************************************************************************)

\* A transport error ends the job; a refusal is the retrieval's error.
JbReadFailed(o) ==
  IF o = "refused" THEN JbGo("decide") /\ jbFault' = TRUE /\ UNCHANGED <<jbEnd, jbTold>>
  ELSE JbAbandon("failure") /\ UNCHANGED jbFault

\* The manifest first: with as many lines as patterns there is no archive to
\* read.  A repeated line counts again.
JbManifest(o) ==
  /\ jbStage = "manifest" /\ o \in JbOutcomes
  /\ IF o = "ok" THEN /\ JbGo(IF jbLines = Cardinality(JbAsked(jbOpt)) THEN "decide" ELSE "outputs")
                      /\ UNCHANGED <<jbFault, jbEnd, jbTold>>
     ELSE JbReadFailed(o)
  /\ UNCHANGED <<jbOpt, jbMade, jbPart, jbVm, jbGuest, jbExit, jbHost, jbRivals>>

\* read_guest_file_limited of the archive: absent, or longer than the limit,
\* is a refusal.
JbOutputs(o) ==
  /\ jbStage = "outputs" /\ o \in JbOutcomes
  /\ o = "ok" => jbPacked \in {"whole", "torn"}
  /\ IF o = "ok" THEN JbGo("extract") /\ UNCHANGED <<jbFault, jbEnd, jbTold>> ELSE JbReadFailed(o)
  /\ UNCHANGED <<jbOpt, jbMade, jbPart, jbVm, jbGuest, jbExit, jbHost, jbRivals>>

\* extract_outputs_local: the whole archive is decoded before a byte is written.
JbValidated == jbPacked = "whole"

\* extract_archive_over: a valid archive is written, and writing may fail half
\* way.
JbExtract(ok) ==
  /\ jbStage = "extract" /\ JbGo("decide")
  /\ jbHost' = IF ~JbValidated THEN "untouched"
               ELSE IF ok /\ jbPacked = "whole" THEN "whole" ELSE "some"
  /\ jbFault' = (~JbValidated \/ ~ok)
  /\ UNCHANGED <<jbOpt, jbMade, jbPart, jbVm, jbGuest, jbExit, jbEnd, jbTold, jbRivals>>

(***************************************************************************)
(* finish_job and cleanup_vm.                                               *)
(***************************************************************************)

\* Retrieval::failure: an error, or an --out that matched nothing.
JbRetrievalFails == jbFault \/ (JbAsked(jbOpt) # {} /\ jbMissed \cap jbOpt.out # {})

JbDecide ==
  /\ jbStage = "decide"
  /\ jbEnd' = IF jbExit # 0 THEN "exit" ELSE IF JbRetrievalFails THEN "failure" ELSE "success"
  /\ JbGo(IF jbOpt.keep THEN "render" ELSE "cleanup")
  /\ UNCHANGED <<jbOpt, jbMade, jbPart, jbVm, jbGuest, jbResult, jbTold, jbRivals>>

\* Only a success or a 404 says that the VM is gone.
JbCleaned(o) == o \in {"ok", "gone"}

\* A job that had succeeded fails with its clean-up, and says so when it ends;
\* a failed one warns at once (report_secondary_cleanup_failure).
JbCleanupFailed ==
  /\ jbEnd' = IF jbEnd = "success" THEN "unclean" ELSE jbEnd
  /\ jbTold' = (jbEnd # "success")

JbAfterCleanup == IF jbStage = "cleanup" THEN "render" ELSE "done"

\* cleanup_vm: DELETE by name; only a request without an answer is repeated.
JbCleanup(o) ==
  /\ jbStage \in {"cleanup", "abandon"}
  /\ o \in IF jbVm = "none" THEN {"gone", "lost"} ELSE {"ok", "refused", "lost", "unanswered"}
  /\ jbVm' = IF JbEffect(o) THEN "none" ELSE jbVm
  /\ IF JbCleaned(o) THEN JbGo(JbAfterCleanup) /\ UNCHANGED <<jbEnd, jbTold>>
     ELSE IF o # "refused" /\ jbTry < JbCleanupTries
     THEN jbTry' = jbTry + 1 /\ UNCHANGED <<jbStage, jbEnd, jbTold>>
     ELSE JbGo(JbAfterCleanup) /\ JbCleanupFailed
  /\ UNCHANGED <<jbOpt, jbMade, jbPart, jbGuest, jbResult, jbRivals>>

\* render_outcome; a result nobody could be given is a failure, which takes the
\* place of the one before.  A VM that is kept is named on stderr in text, and
\* in the result in json.
JbRender(ok) ==
  /\ jbStage = "render" /\ JbGo("done")
  /\ jbEnd' = IF ok THEN jbEnd ELSE "undelivered"
  /\ jbTold' = (jbTold \/ (jbOpt.keep /\ (jbOpt.text \/ ok)) \/ (jbEnd = "unclean" /\ ok))
  /\ UNCHANGED <<jbOpt, jbMade, jbPart, jbVm, jbGuest, jbResult, jbRivals>>

(***************************************************************************)
(* The other clients.                                                       *)
(***************************************************************************)

JbRival ==
  /\ jbRivals < JbMaxRivals /\ jbRivals' = jbRivals + 1
  /\ jbVm' = IF jbVm = "none" THEN "other" ELSE "none"
  /\ UNCHANGED <<jbOpt, jbMade, jbStage, jbTry, jbPart, jbGuest, jbResult, jbEnd, jbTold>>

JbAnswers == {"ok", "refused", "lost", "unanswered", "missing", "gone"}

JbNext ==
  \/ JbValidate \/ JbHealth \/ JbReadyTimeout \/ JbDecide \/ JbLimited \/ JbInterrupt \/ JbRival
  \/ \E o \in JbAnswers : \/ JbCreate(o) \/ JbLookUp(o) \/ JbReady(o) \/ JbHosts(o) \/ JbInfo(o)
                          \/ JbUpload(o) \/ JbManifest(o) \/ JbOutputs(o) \/ JbCleanup(o)
  \/ \E o \in JbAnswers, exit \in {0, 1} : JbStream(o, exit) \/ JbExec(o, exit)
  \/ \E ok \in BOOLEAN : JbInterruptCreate(ok) \/ JbArchive(ok) \/ JbExtract(ok) \/ JbRender(ok)

(***************************************************************************)
(* The property.                                                            *)
(***************************************************************************)

\* What `husker job` reports is what happened: the command is started at most
\* once, whatever is lost on the way; a success means that it exited 0, that
\* no --out pattern is on the guest's list of unmatched ones, that the packed
\* outputs are whole in the working tree unless that list, each pattern once,
\* names them all or the guest repeated a line of it, and that the VM it made is
\* gone unless it is kept; the tree is never touched by an archive that does not
\* decode; and once the creation was answered, a VM the job leaves behind is one
\* the user was told of, except when the job ends because its result could not
\* be written.
JbHonest ==
  /\ jbRuns <= 1
  /\ jbHost # "untouched" => jbPacked = "whole"
  /\ jbStage = "done" /\ jbEnd = "success" =>
       /\ jbExit = 0 /\ jbRuns = 1
       /\ JbAsked(jbOpt) # {} =>
            /\ jbMissed \cap jbOpt.out = {}
            /\ jbLines = Cardinality(jbMissed) /\ jbMissed # JbAsked(jbOpt) => jbHost = "whole"
       /\ jbVm = "ours" => jbOpt.keep
  /\ jbStage = "done" /\ jbMade /\ jbVm = "ours" => jbTold \/ jbEnd = "undelivered"
=============================================================================
