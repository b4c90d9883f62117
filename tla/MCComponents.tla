---------------------------- MODULE MCComponents ----------------------------
(***************************************************************************)
(* One instance of every component that stands on its own.  A behaviour    *)
(* chooses the component it is about and only that one moves: the state    *)
(* space is the disjoint union of theirs, and every invariant is checked   *)
(* over all of it.                                                         *)
(***************************************************************************)
EXTENDS AgentSessions, GuestJob, GuestLink, AgentClient,
        VzWorker, QemuHost, SerialLog,
        PortRelay, HostFirewall, HostAddresses,
        ImageCatalog, OciImport, MacImages,
        Services, NamedStores, StateSchema,
        CliCommands, ApiStreams, ApiSessions,
        CliJob, FrozenBundles

VARIABLE focus   \* the component this behaviour is about

vars == <<focus, sesVars, jobVars, lnkVars, agcVars, wkrVars, qmVars,
          serVars, rlyVars, fwVars, haVars, imgVars, ociVars,
          macVars, svcVars, stoVars, schVars, apVars, stmVars,
          monVars, cmdVars, jbVars, frzVars>>

-----------------------------------------------------------------------------
(* Values of the constants *)

MCConfigs == {[offline |-> o, volume |-> v, seed |-> FALSE, shares |-> s, balloon |-> v] :
                o, v, s \in BOOLEAN}

MCRequests == [requested : {"none", "qemu", "firecracker"},
               boot : {"direct", "uefi", "efi", "macos"},
               shares : BOOLEAN, offline : BOOLEAN, tap : BOOLEAN]

MCSources == {ImgBytes("s1", 0, FALSE, "imported"), ImgBytes("s2", 0, TRUE, "imported"),
              ImgBytes("s3", 0, FALSE, "none")}

MCEntry(k, p, c) == [kind |-> k, path |-> p, content |-> c]
MCLayers ==
    {<<MCEntry("file", <<"d", "f">>, "1"), MCEntry("file", <<"g">>, "1")>>,
     <<MCEntry("whiteout", <<"d">>, ""), MCEntry("file", <<"g">>, "2")>>,
     <<MCEntry("opaque", <<"d">>, ""), MCEntry("file", <<"d", "h">>, "3")>>,
     <<MCEntry("file", <<"d", "e", "h">>, "4"), MCEntry("whiteout", <<"d", "f">>, "")>>,
     <<MCEntry("file", <<"d">>, "5")>>,
     <<MCEntry("unsafe", <<"x">>, "")>>}

MCQuietJob == [keep |-> FALSE, sync |-> TRUE, out |-> {"o"}, back |-> {"w"},
               text |-> FALSE, command |-> TRUE]
MCJobs == {MCQuietJob, [MCQuietJob EXCEPT !.keep = TRUE],
           [MCQuietJob EXCEPT !.sync = FALSE, !.back = {}, !.text = TRUE],
           [MCQuietJob EXCEPT !.out = {}, !.command = FALSE]}

-----------------------------------------------------------------------------

Components ==
    {"sessions", "guestjob", "link", "client", "vz", "qemu", "serial",
     "relay", "firewall", "addresses", "images", "oci", "macos", "services",
     "stores", "schema", "api", "streams", "monitors", "commands", "job",
     "bundles"}

(* A component with several initial states has one of them, always the     *)
(* same, in the behaviours of the others.                                  *)
Rests(c, quiet) == focus # c => quiet

Init ==
    /\ focus \in Components
    /\ SesInit
    /\ JobInit
    /\ LnkInit
    /\ AgcInit /\ Rests("client", agcVersion = 7)
    /\ WkrInit /\ Rests("vz", wkrMode = "direct" /\ wkrDir = "absent")
    /\ QmInit
    /\ SerInit
    /\ RlyInit /\ Rests("relay", rlyKind = "plain")
    /\ FwInit /\ Rests("firewall", ~fwIsolated)
    /\ HaInit
    /\ ImgInit
    /\ OciInit
    /\ MacInit
    /\ SvcInit /\ Rests("services", svcVm[SvcLegacy].ordinal = 0 /\ svcVm[SvcName(0)].state = "running")
    /\ StoInit
    /\ SchInit /\ Rests("schema", schDb = SchReleased(SchTop))
    /\ ApInit /\ Rests("api", apToken)
    /\ StmInit /\ Rests("streams", stmKind = "read")
    /\ MonInit
    /\ CmdInit
    /\ JbInit /\ Rests("job", jbOpt = MCQuietJob /\ jbVm = "none")
    /\ FrzInit

Still(c, mine, theirs) == IF c = mine THEN TRUE ELSE UNCHANGED theirs

(* The component c moves and no other does. *)
Only(c) ==
    /\ UNCHANGED focus
    /\ Still(c, "sessions", sesVars)
    /\ Still(c, "guestjob", jobVars)
    /\ Still(c, "link", lnkVars)
    /\ Still(c, "client", agcVars)
    /\ Still(c, "vz", wkrVars)
    /\ Still(c, "qemu", qmVars)
    /\ Still(c, "serial", serVars)
    /\ Still(c, "relay", rlyVars)
    /\ Still(c, "firewall", fwVars)
    /\ Still(c, "addresses", haVars)
    /\ Still(c, "images", imgVars)
    /\ Still(c, "oci", ociVars)
    /\ Still(c, "macos", macVars)
    /\ Still(c, "services", svcVars)
    /\ Still(c, "stores", stoVars)
    /\ Still(c, "schema", schVars)
    /\ Still(c, "api", apVars)
    /\ Still(c, "streams", stmVars)
    /\ Still(c, "monitors", monVars)
    /\ Still(c, "commands", cmdVars)
    /\ Still(c, "job", jbVars)
    /\ Still(c, "bundles", frzVars)

SesMoves == focus = "sessions" /\ SesNext /\ Only("sessions")
JobMoves == focus = "guestjob" /\ JobNext /\ Only("guestjob")
LnkMoves == focus = "link" /\ LnkNext /\ Only("link")
AgcMoves == focus = "client" /\ AgcNext /\ Only("client")
WkrMoves == focus = "vz" /\ WkrNext /\ Only("vz")
QmMoves == focus = "qemu" /\ QmNext /\ Only("qemu")
SerMoves == focus = "serial" /\ SerNext /\ Only("serial")
RlyMoves == focus = "relay" /\ RlyNext /\ Only("relay")
FwMoves == focus = "firewall" /\ FwNext /\ Only("firewall")
HaMoves == focus = "addresses" /\ HaNext /\ Only("addresses")
ImgMoves == focus = "images" /\ ImgNext /\ Only("images")
OciMoves == focus = "oci" /\ OciNext /\ Only("oci")
MacMoves == focus = "macos" /\ MacNext /\ Only("macos")
SvcMoves == focus = "services" /\ SvcNext /\ Only("services")
StoMoves == focus = "stores" /\ StoNext /\ Only("stores")
SchMoves == focus = "schema" /\ SchNext /\ Only("schema")
ApMoves == focus = "api" /\ ApNext /\ Only("api")
StmMoves == focus = "streams" /\ StmNext /\ Only("streams")
MonMoves == focus = "monitors" /\ MonNext /\ Only("monitors")
CmdMoves == focus = "commands" /\ CmdNext /\ Only("commands")
JbMoves == focus = "job" /\ JbNext /\ Only("job")
FrzMoves == focus = "bundles" /\ FrzNext /\ Only("bundles")

Next ==
    \/ SesMoves \/ JobMoves \/ LnkMoves \/ AgcMoves \/ WkrMoves \/ QmMoves
    \/ SerMoves \/ RlyMoves \/ FwMoves \/ HaMoves \/ ImgMoves \/ OciMoves
    \/ MacMoves \/ SvcMoves \/ StoMoves \/ SchMoves \/ ApMoves \/ StmMoves
    \/ MonMoves \/ CmdMoves \/ JbMoves \/ FrzMoves

Spec == Init /\ [][Next]_vars

-----------------------------------------------------------------------------
(* Properties.  The ones below join what the parts of one subsystem        *)
(* promise; each conjunct is stated, and explained, in its own module, and *)
(* evaluated where its component moves: elsewhere it rests as it began.    *)
Of(c, P) == focus = c => P

(* The agent connection, seen from both ends: a copy out of the guest is   *)
(* one whole version of the file (guest_file.rs), and every typed call     *)
(* reports what the guest did, whatever its protocol (agent_client.rs).    *)
AgentLinkExact ==
    /\ Of("link", LnkCopyWhole)
    /\ Of("client", AgcExact)

(* The host network of a guest: what gets out is what its mode promises    *)
(* (husker-net), an address has one owner over every crash (network.rs,    *)
(* vm_lifecycle.rs), and a connection queued on a forwarded port is served *)
(* before the port is handed over (port_proxy.rs).                         *)
NetGuarded ==
    /\ Of("firewall", FwContained)
    /\ Of("addresses", HaOwnedOnce)
    /\ Of("relay", RlyServesQueued)

(* Images are what the catalog says: after a crash in any import, delete   *)
(* or agent refresh (husker-storage), when flattened from OCI layers       *)
(* (husker-oci), and when installed and provisioned as a macOS bundle that *)
(* several commands and VMs share (macos.rs).                              *)
ImagesSound ==
    /\ Of("images", ImgCatalogTrue)
    /\ Of("oci", OciFaithful)
    /\ Of("macos", MacSound)

(* What other tasks change under an orchestration: a service touches only  *)
(* its own instances (services.rs), a named volume, snapshot, pool or      *)
(* secret is what its row says (volumes.rs, snapshots.rs, pools.rs), and   *)
(* the schema under all of them is complete (husker-state migrations).     *)
OrchestrationSound ==
    /\ Of("services", SvcSound)
    /\ Of("stores", StoSound)
    /\ Of("schema", SchSound)

(* The HTTP surface: the rate window and the authorization of every route  *)
(* (router.rs, lib.rs), streams that end with the outcome they carried     *)
(* (handlers.rs, sessions.rs), and one monitor per session (sessions.rs).  *)
ApiSound ==
    /\ Of("api", ApSound)
    /\ Of("streams", StmSound)
    /\ Of("monitors", MonSound)

(* The command line tells the truth: `husker job` about its outputs and    *)
(* its VM (job.rs), the other commands about what the daemon did           *)
(* (daemon_client.rs, main.rs), and a frozen bundle about the tree it was  *)
(* taken from (frozen_bundle_fs.rs).                                       *)
CliSound ==
    /\ Of("job", JbHonest)
    /\ Of("commands", CmdFaithful)
    /\ Of("bundles", FrzSnapshot)
=============================================================================
