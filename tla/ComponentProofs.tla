-------------------------- MODULE ComponentProofs --------------------------
(***************************************************************************)
(* Proofs about the properties that join several components                *)
(* (MCComponents): the agent connection seen from its two ends, what the   *)
(* daemon stores and orchestrates, the host network of a guest, and the    *)
(* HTTP API, the command line and the images.  A behaviour is about one    *)
(* component, so the invariant of the whole says of each what holds while  *)
(* that component moves.                                                   *)
(***************************************************************************)
EXTENDS MCComponents, EndpointProofs, DaemonProofs, HostProofs

-----------------------------------------------------------------------------
\* A step of the whole is a step of the component the behaviour is about.
LEMMA FocusedStep ==
  ASSUME [Next]_vars
  PROVE  /\ focus' = focus
         /\ focus = "link" => [LnkNext]_lnkVars
         /\ focus = "client" => [AgcNext]_agcVars
         /\ focus = "relay" => [RlyNext]_rlyVars
         /\ focus = "firewall" => [FwNext]_fwVars
         /\ focus = "addresses" => [HaNext]_haVars
         /\ focus = "images" => [ImgNext]_imgVars
         /\ focus = "oci" => [OciNext]_ociVars
         /\ focus = "macos" => [MacNext]_macVars
         /\ focus = "services" => [SvcNext]_svcVars
         /\ focus = "stores" => [StoNext]_stoVars
         /\ focus = "schema" => [SchNext]_schVars
         /\ focus = "api" => [ApNext]_apVars
         /\ focus = "streams" => [StmNext]_stmVars
         /\ focus = "monitors" => [MonNext]_monVars
         /\ focus = "commands" => [CmdNext]_cmdVars
         /\ focus = "job" => [JbNext]_jbVars
         /\ focus = "bundles" => [FrzNext]_frzVars
<1>1. CASE Next
  BY <1>1 DEF Next, Only, SesMoves, JobMoves, LnkMoves, AgcMoves, WkrMoves, QmMoves, SerMoves,
     RlyMoves, FwMoves, HaMoves, ImgMoves, OciMoves, MacMoves, SvcMoves, StoMoves, SchMoves,
     ApMoves, StmMoves, MonMoves, CmdMoves, JbMoves, FrzMoves
<1>2. CASE UNCHANGED vars
  BY <1>2 DEF vars
<1> QED BY <1>1, <1>2

(***************************************************************************)
(* The agent connection, its two ends together.                            *)
(***************************************************************************)
AgentLinkInv ==
  /\ focus = "link" => LnkInv
  /\ focus = "client" => AgcInv

(***************************************************************************)
(* Where guest programs replace files by rename, a copy out of the guest   *)
(* is one whole version of the file (guest_file.rs), for every length and  *)
(* every number of edits, boots and calls; and every typed call reports    *)
(* what the guest did (agent_client.rs), for every set of agent versions,  *)
(* every number of chunks and wherever the connection breaks.              *)
(***************************************************************************)
THEOREM AgentLinkIsExact == ASSUME ~LnkInPlace PROVE Spec => []AgentLinkExact
<1>1. Init => AgentLinkInv
  <2> SUFFICES ASSUME Init PROVE AgentLinkInv  OBVIOUS
  <2>1. LnkInit /\ AgcInit  BY DEF Init
  <2> QED BY <2>1, LnkInitInv, AgcInitInv DEF AgentLinkInv
<1>2. AgentLinkInv /\ [Next]_vars => AgentLinkInv'
  <2> SUFFICES ASSUME AgentLinkInv, [Next]_vars PROVE AgentLinkInv'  OBVIOUS
  <2>1. focus' = focus  BY FocusedStep
  <2>2. CASE focus = "link"
    <3>1. LnkInv'  BY <2>2, FocusedStep, LnkStep DEF AgentLinkInv
    <3> QED BY <2>1, <2>2, <3>1 DEF AgentLinkInv
  <2>3. CASE focus = "client"
    <3>1. AgcInv'  BY <2>3, FocusedStep, AgcStep DEF AgentLinkInv
    <3> QED BY <2>1, <2>3, <3>1 DEF AgentLinkInv
  <2>4. CASE focus \notin {"link", "client"}
    BY <2>1, <2>4 DEF AgentLinkInv
  <2> QED BY <2>2, <2>3, <2>4
<1>3. AgentLinkInv => AgentLinkExact
  BY AgcInvExact DEF AgentLinkInv, AgentLinkExact, LnkInv, Of
<1> QED BY <1>1, <1>2, <1>3, PTL DEF Spec

(***************************************************************************)
(* What the daemon stores and orchestrates.                                *)
(***************************************************************************)
OrchestrationInv ==
  /\ focus = "services" => SvcInv
  /\ focus = "stores" => StoInv
  /\ focus = "schema" => SchInv

(***************************************************************************)
(* A reconcile touches only its own service's instances and leaves one     *)
(* running for each ordinal (services.rs); a named volume, snapshot, pool  *)
(* or secret is what its row says, whatever crash or caller comes between  *)
(* (volumes.rs, snapshots.rs, pools.rs); and a store that is used has the  *)
(* whole schema of its version (husker-state migrations): for every number *)
(* of callers, instances, operations, crashes and migrations.              *)
(***************************************************************************)
THEOREM OrchestrationIsSound == Spec => []OrchestrationSound
<1>1. Init => OrchestrationInv
  <2> SUFFICES ASSUME Init PROVE OrchestrationInv  OBVIOUS
  <2>1. SvcInit /\ StoInit /\ SchInit  BY DEF Init
  <2> QED BY <2>1, SvcInitInv, StoInitInv, SchInitInv DEF OrchestrationInv
<1>2. OrchestrationInv /\ [Next]_vars => OrchestrationInv'
  <2> SUFFICES ASSUME OrchestrationInv, [Next]_vars PROVE OrchestrationInv'  OBVIOUS
  <2>1. focus' = focus  BY FocusedStep
  <2>2. ASSUME focus = "services" PROVE SvcInv'
    BY <2>2, FocusedStep, SvcStep DEF OrchestrationInv
  <2>3. ASSUME focus = "stores" PROVE StoInv'
    BY <2>3, FocusedStep, StoStep DEF OrchestrationInv
  <2>4. ASSUME focus = "schema" PROVE SchInv'
    BY <2>4, FocusedStep, SchStep DEF OrchestrationInv
  <2> QED BY <2>1, <2>2, <2>3, <2>4 DEF OrchestrationInv
<1>3. OrchestrationInv => OrchestrationSound
  BY SvcInvSound, StoInvSound, SchInvSound DEF OrchestrationInv, OrchestrationSound, Of
<1> QED BY <1>1, <1>2, <1>3, PTL DEF Spec

(***************************************************************************)
(* The host network of a guest.                                            *)
(***************************************************************************)
NetInv ==
  /\ focus = "firewall" => FwInv
  /\ focus = "addresses" => HaInv
  /\ focus = "relay" => RlyInv

(***************************************************************************)
(* What gets out of a guest is what its network mode promises, over every  *)
(* crash, restart, reboot, failed removal and reuse of a TAP (husker-net); *)
(* an address has one owner (network.rs, vm_lifecycle.rs); and a           *)
(* connection queued on a forwarded port is served before the port is      *)
(* handed over (port_proxy.rs): for every number of TAPs, VMs, addresses,  *)
(* connections, slots and crashes.                                         *)
(***************************************************************************)
THEOREM NetIsGuarded == Spec => []NetGuarded
<1>1. Init => NetInv
  <2> SUFFICES ASSUME Init PROVE NetInv  OBVIOUS
  <2>1. FwInit /\ HaInit /\ RlyInit  BY DEF Init
  <2> QED BY <2>1, FwInitInv, HaInitInv, RlyInitInv, HaAssumption DEF NetInv
<1>2. NetInv /\ [Next]_vars => NetInv'
  <2> SUFFICES ASSUME NetInv, [Next]_vars PROVE NetInv'  OBVIOUS
  <2>1. focus' = focus  BY FocusedStep
  <2>2. ASSUME focus = "firewall" PROVE FwInv'
    BY <2>2, FocusedStep, FwStep DEF NetInv
  <2>3. ASSUME focus = "addresses" PROVE HaInv'
    <3>1. HaInv /\ [HaNext]_haVars  BY <2>3, FocusedStep DEF NetInv
    <3> QED BY <3>1, HaStep, HaAssumption
  <2>4. ASSUME focus = "relay" PROVE RlyInv'
    BY <2>4, FocusedStep, RlyStep DEF NetInv
  <2> QED BY <2>1, <2>2, <2>3, <2>4 DEF NetInv
<1>3. NetInv => NetGuarded
  BY FwInvIs, HaInvIs DEF NetInv, NetGuarded, RlyInv, Of
<1> QED BY <1>1, <1>2, <1>3, PTL DEF Spec

(***************************************************************************)
(* The HTTP API.                                                           *)
(***************************************************************************)
ApiInv ==
  /\ focus = "api" => ApInv
  /\ focus = "streams" => StmInv
  /\ focus = "monitors" => MonInv

(***************************************************************************)
(* No key is admitted more often in a window than its limit and a refused  *)
(* one is told a moment at which it is not refused, and nothing is done    *)
(* for a caller without the token where the daemon has one (husker-api     *)
(* lib.rs); a client that stays until the end of an exec, a shell or a     *)
(* tunnel has all of the guest's output before the exit, and knows how it  *)
(* ended (handlers.rs, sessions.rs); and a detached command that runs is   *)
(* watched by exactly one monitor, or is about to be, or was lost where    *)
(* the code may lose it (sessions.rs): for every limit, window, number of  *)
(* clients, submissions and frames.                                        *)
(***************************************************************************)
THEOREM ApiIsSound == Spec => []ApiSound
<1>1. Init => ApiInv
  <2> SUFFICES ASSUME Init PROVE ApiInv  OBVIOUS
  <2>1. ApInit /\ StmInit /\ MonInit  BY DEF Init
  <2> QED BY <2>1, ApInitInv, StmInitInv, MonInitInv DEF ApiInv
<1>2. ApiInv /\ [Next]_vars => ApiInv'
  <2> SUFFICES ASSUME ApiInv, [Next]_vars PROVE ApiInv'  OBVIOUS
  <2>1. focus' = focus  BY FocusedStep
  <2>2. ASSUME focus = "api" PROVE ApInv'
    BY <2>2, FocusedStep, ApNextInv DEF ApiInv
  <2>3. ASSUME focus = "streams" PROVE StmInv'
    BY <2>3, FocusedStep, StmNextInv DEF ApiInv
  <2>4. ASSUME focus = "monitors" PROVE MonInv'
    BY <2>4, FocusedStep, MonNextInv DEF ApiInv
  <2> QED BY <2>1, <2>2, <2>3, <2>4 DEF ApiInv
<1>3. ApiInv => ApiSound
  BY ApInvSound, StmInvSound, MonInvSound DEF ApiInv, ApiSound, Of
<1> QED BY <1>1, <1>2, <1>3, PTL DEF Spec

(***************************************************************************)
(* The command line.                                                       *)
(***************************************************************************)
CliInv ==
  /\ focus = "commands" => CmdInv
  /\ focus = "job" => JbInv
  /\ focus = "bundles" => FrzInv

(***************************************************************************)
(* What a command says on exit is what it did: a `husker job` that ends    *)
(* with 0 ran the command once and brought its outputs home (job.rs); a    *)
(* command's requests are routes of the daemon, change nothing twice, and  *)
(* delete only what the operator agreed to (daemon_client.rs, main.rs); a  *)
(* frozen bundle is the tree as it stood at one moment, however it is      *)
(* written meanwhile (frozen_bundle_fs.rs): for every set of names and     *)
(* files, budget, number of edits, polls and retries.                      *)
(***************************************************************************)
THEOREM CliIsSound == Spec => []CliSound
<1>1. Init => CliInv
  <2> SUFFICES ASSUME Init PROVE CliInv  OBVIOUS
  <2>1. CmdInit /\ JbInit /\ FrzInit  BY DEF Init
  <2> QED BY <2>1, CmdInitInv, JbInitInv, FrzInitInv DEF CliInv
<1>2. CliInv /\ [Next]_vars => CliInv'
  <2> SUFFICES ASSUME CliInv, [Next]_vars PROVE CliInv'  OBVIOUS
  <2>1. focus' = focus  BY FocusedStep
  <2>2. ASSUME focus = "commands" PROVE CmdInv'
    BY <2>2, FocusedStep, CmdStepInv DEF CliInv
  <2>3. ASSUME focus = "job" PROVE JbInv'
    BY <2>3, FocusedStep, JbStepInv DEF CliInv
  <2>4. ASSUME focus = "bundles" PROVE FrzInv'
    BY <2>4, FocusedStep, FrzStepInv DEF CliInv
  <2> QED BY <2>1, <2>2, <2>3, <2>4 DEF CliInv
<1>3. CliInv => CliSound
  BY CmdInvFaithful, JbInvHonest, FrzInvSnapshot DEF CliInv, CliSound, Of
<1> QED BY <1>1, <1>2, <1>3, PTL DEF Spec

\* The components that make the images VMs are created from.
ImagesInv ==
  /\ focus = "images" => ImgInv
  /\ focus = "oci" => OciInv
  /\ focus = "macos" => MacInv

(***************************************************************************)
(* What a VM boots from is what its image's name stands for: a catalog     *)
(* file that a row names holds the row's bytes, complete, and a VM's disk  *)
(* is a complete copy of the image it resolved (images.rs); the tree of an *)
(* OCI import is what its layers leave visible, however deep the paths     *)
(* (flatten.rs); a macOS bundle under an image's name is a finished        *)
(* install, and one marked ready, like every clone of it, has a whole and  *)
(* detached disk, wherever installs, provisions and creations are killed   *)
(* (macos.rs): for every set of names, sources, layers and processes and   *)
(* every number of commands.                                               *)
(***************************************************************************)
THEOREM ImagesAreSound == Spec => []ImagesSound
<1>1. Init => ImagesInv
  <2> SUFFICES ASSUME Init PROVE ImagesInv  OBVIOUS
  <2>1. ImgInit /\ OciInit /\ MacInit  BY DEF Init
  <2> QED BY <2>1, ImgInitInv, OciInitInv, MacInitInv DEF ImagesInv
<1>2. ImagesInv /\ [Next]_vars => ImagesInv'
  <2> SUFFICES ASSUME ImagesInv, [Next]_vars PROVE ImagesInv'  OBVIOUS
  <2>1. focus' = focus  BY FocusedStep
  <2>2. ASSUME focus = "images" PROVE ImgInv'
    BY <2>2, FocusedStep, ImgStepInv DEF ImagesInv
  <2>3. ASSUME focus = "oci" PROVE OciInv'
    BY <2>3, FocusedStep, OciStepInv DEF ImagesInv
  <2>4. ASSUME focus = "macos" PROVE MacInv'
    BY <2>4, FocusedStep, MacStepInv DEF ImagesInv
  <2> QED BY <2>1, <2>2, <2>3, <2>4 DEF ImagesInv
<1>3. ImagesInv => ImagesSound
  BY ImgInvTrue, OciInvFaithful, MacInvSound DEF ImagesInv, ImagesSound, Of
<1> QED BY <1>1, <1>2, <1>3, PTL DEF Spec
=============================================================================
