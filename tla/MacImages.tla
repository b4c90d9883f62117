----------------------------- MODULE MacImages -----------------------------
(***************************************************************************)
(* macOS images: `husker macos install` builds a bundle from a restore     *)
(* image, `sudo husker macos provision` writes the guest agent onto its    *)
(* disk, and the daemon clones a provisioned bundle for every macOS VM.    *)
(* The three run in separate processes that share only a directory tree,   *)
(* advisory file locks that die with their holder, and the host's disk     *)
(* attachments, which do not.                                              *)
(*                                                                         *)
(* A restore image is abstracted to how many of its MacSize pieces are on  *)
(* disk, a bundle to the artifacts it holds, its manifest and what matters *)
(* of its disk: the system installed, the agent files, and whether the     *)
(* file system was left consistent.                                        *)
(***************************************************************************)
EXTENDS Integers, Sequences, FiniteSets

CONSTANTS
    MacProcs,    \* concurrently running husker processes
    MacNames,    \* image names
    MacSize,     \* pieces of the latest restore image
    MacMaxOps,   \* bound: commands run
    MacMaxKills, \* bound: processes killed
    MacMaxVms    \* bound: macOS VMs created

ASSUME MacAssumption == MacSize \in Nat

VARIABLES
    macDir,      \* image name -> published bundle or MacNoBundle
    macStage,    \* image name -> `.name.installing` bundle or MacNoBundle
    macPart,     \* pieces in the `.ipsw.part` file, or MacNoFile
    macIpsw,     \* pieces in the cached `.ipsw`, or MacNoFile
    macMount,    \* image name -> "off", "attached" or "mounted" disk
    macVms,      \* the disks of the VMs created
    macOp,       \* process -> the command it runs
    macOps,      \* commands run so far
    macKills     \* processes killed so far

macVars == <<macDir, macStage, macPart, macIpsw, macMount, macVms, macOp, macOps, macKills>>

MacNoBundle == [absent |-> TRUE]
MacNoFile == -1
MacIdle == [kind |-> "idle"]

\* Files install_into writes before the installer runs, and the files
\* install_agent_files writes, each in this order.
MacArtifacts == <<"hardware_model", "machine_identifier", "aux", "disk">>
MacAgentFiles == <<"binary", "launch_daemon", "setup_done">>

MacBlankDisk == [os |-> FALSE, agent |-> {}, clean |-> TRUE]
MacEmptyBundle == [parts |-> {}, manifest |-> "none", disk |-> MacBlankDisk]

MacTotal(s) == {s[i] : i \in 1..Len(s)}

MacInit ==
    /\ macDir = [n \in MacNames |-> MacNoBundle]
    /\ macStage = [n \in MacNames |-> MacNoBundle]
    /\ macPart = MacNoFile
    /\ macIpsw = MacNoFile
    /\ macMount = [n \in MacNames |-> "off"]
    /\ macVms = {}
    /\ macOp = [p \in MacProcs |-> MacIdle]
    /\ macOps = 0
    /\ macKills = 0

-----------------------------------------------------------------------------
(* Locks. They are flocks, so who holds one follows from which command is  *)
(* running: an installer holds its name to the end, a downloader the build. *)

MacNameFree(n) == \A p \in MacProcs : ~(macOp[p].kind = "install" /\ macOp[p].name = n)

MacBuildFree ==
    \A p \in MacProcs : ~(macOp[p].kind = "install" /\ macOp[p].build)

\* try_lock(exclusive): refused while any conflicting holder is alive.
MacTryLock(n, exclusive) ==
    \A p \in MacProcs :
        (macOp[p].kind \in {"provision", "create"} /\ macOp[p].name = n)
            => (macOp[p].lock = "none" \/ (~exclusive /\ macOp[p].lock = "shared"))

MacBegin(p) ==
    /\ macOp[p].kind = "idle"
    /\ macOps < MacMaxOps
    /\ macOps' = macOps + 1
    /\ UNCHANGED macKills

MacAt(p, kind, at) == macOp[p].kind = kind /\ macOp[p].at = at
MacGo(p, at) == macOp' = [macOp EXCEPT ![p].at = at]
MacEnd(p) == macOp' = [macOp EXCEPT ![p] = MacIdle]
MacCounts == UNCHANGED <<macOps, macKills>>
MacBundlesAlone == UNCHANGED <<macDir, macMount, macVms>>

-----------------------------------------------------------------------------
(* husker macos install *)

MacInstall(p, n, download, keep) ==
    /\ MacBegin(p)
    /\ MacNameFree(n)
    /\ macDir[n] = MacNoBundle
    /\ macStage' = [macStage EXCEPT ![n] = MacNoBundle]
    /\ macOp' = [macOp EXCEPT ![p] =
            [kind |-> "install", name |-> n, at |-> IF download THEN "fetch" ELSE "load",
             download |-> download, keep |-> keep, build |-> FALSE, own |-> FALSE]]
    /\ UNCHANGED <<macPart, macIpsw>> /\ MacBundlesAlone

\* The catalogue lookup, the shape check and the download lock: on any
\* failure the command ends. A restore image already cached is reused, and
\* then is not this install's to delete.
MacFetch(p) ==
    /\ MacAt(p, "install", "fetch")
    /\ \/ MacEnd(p)
       \/ /\ MacBuildFree
          /\ macOp' = [macOp EXCEPT ![p].build = TRUE,
                 ![p].own = (macIpsw = MacNoFile /\ ~macOp[p].keep),
                 ![p].at = IF macIpsw = MacNoFile THEN "get" ELSE "load"]
    /\ UNCHANGED <<macStage, macPart, macIpsw>> /\ MacBundlesAlone /\ MacCounts

\* GET: an error status, no announced length, or a disk too small ends it;
\* the leftover of an earlier download goes before the space is measured.
MacDownloadOpens(p) ==
    /\ MacAt(p, "install", "get")
    /\ \/ MacEnd(p) /\ macPart' \in {macPart, MacNoFile}
       \/ MacGo(p, "body") /\ macPart' = 0
    /\ UNCHANGED <<macStage, macIpsw>> /\ MacBundlesAlone /\ MacCounts

MacChunk(p) ==
    /\ MacAt(p, "install", "body")
    /\ macPart < MacSize
    /\ macPart' = macPart + 1
    /\ UNCHANGED <<macStage, macIpsw, macOp>> /\ MacBundlesAlone /\ MacCounts

\* The whole body arrived: only a complete part file takes the cached name.
MacWholeDownload == macPart = MacSize

\* The body ended, on an error or because the connection closed: a short
\* one is refused and its part file removed.
MacDownloadEnds(p) ==
    /\ MacAt(p, "install", "body")
    /\ \/ MacEnd(p) /\ macPart' = MacNoFile /\ UNCHANGED macIpsw
       \/ /\ MacWholeDownload
          /\ MacGo(p, "load")
          /\ macIpsw' = macPart /\ macPart' = MacNoFile
    /\ UNCHANGED macStage /\ MacBundlesAlone /\ MacCounts

MacSourceThere(p) == macOp[p].download => macIpsw # MacNoFile

\* apple_vz_macos::install: the restore image is loaded, then the bundle
\* directory created.
MacLoad(p) ==
    /\ MacAt(p, "install", "load")
    /\ \/ MacEnd(p) /\ UNCHANGED macStage
       \/ /\ MacSourceThere(p) /\ macStage[macOp[p].name] = MacNoBundle
          /\ MacGo(p, "write")
          /\ macStage' = [macStage EXCEPT ![macOp[p].name] = MacEmptyBundle]
    /\ UNCHANGED <<macPart, macIpsw>> /\ MacBundlesAlone /\ MacCounts

\* A step of install_into that fails takes the whole staging bundle with it.
MacInstallFails(p) ==
    MacEnd(p) /\ macStage' = [macStage EXCEPT ![macOp[p].name] = MacNoBundle]

MacWriteArtifact(p) ==
    LET n == macOp[p].name
        written == Cardinality(macStage[n].parts)
        parts == macStage[n].parts \union {MacArtifacts[written + 1]} IN
    /\ MacAt(p, "install", "write")
    /\ macStage[n] # MacNoBundle
    /\ \/ MacInstallFails(p)
       \/ /\ macStage' = [macStage EXCEPT ![n].parts = parts]
          /\ MacGo(p, IF written + 1 = Len(MacArtifacts) THEN "run" ELSE "write")
    /\ UNCHANGED <<macPart, macIpsw>> /\ MacBundlesAlone /\ MacCounts

\* VZMacOSInstaller runs to its completion handler, reading the restore
\* image all the while.
MacRunInstaller(p) ==
    LET n == macOp[p].name IN
    /\ MacAt(p, "install", "run")
    /\ \/ MacInstallFails(p)
       \/ /\ MacSourceThere(p)
          /\ macStage' = [macStage EXCEPT ![n].disk.os = TRUE]
          /\ MacGo(p, "manifest")
    /\ UNCHANGED <<macPart, macIpsw>> /\ MacBundlesAlone /\ MacCounts

MacInstallManifest(p) ==
    LET n == macOp[p].name IN
    /\ MacAt(p, "install", "manifest")
    /\ \/ MacInstallFails(p)
       \/ /\ macStage' = [macStage EXCEPT ![n].manifest = "bare"]
          /\ MacGo(p, "publish")
    /\ UNCHANGED <<macPart, macIpsw>> /\ MacBundlesAlone /\ MacCounts

\* The rename onto the image's name; a failure leaves the staging directory.
MacPublish(p) ==
    LET n == macOp[p].name IN
    /\ MacAt(p, "install", "publish")
    /\ \/ MacEnd(p) /\ UNCHANGED <<macDir, macStage>>
       \/ /\ macDir' = [macDir EXCEPT ![n] = macStage[n]]
          /\ macStage' = [macStage EXCEPT ![n] = MacNoBundle]
          /\ MacGo(p, "tidy")
    /\ UNCHANGED <<macPart, macIpsw, macMount, macVms>> /\ MacCounts

\* Only this run's own download is deleted, and failing to is not an error.
MacTidy(p) ==
    /\ MacAt(p, "install", "tidy")
    /\ MacEnd(p)
    /\ macIpsw' \in IF macOp[p].own THEN {macIpsw, MacNoFile} ELSE {macIpsw}
    /\ UNCHANGED <<macStage, macPart>> /\ MacBundlesAlone /\ MacCounts

-----------------------------------------------------------------------------
(* husker macos provision *)

\* MacOsBundle::validate: the manifest reads and every artifact is a file.
MacValid(b) ==
    /\ b # MacNoBundle
    /\ b.manifest # "none"
    /\ {"disk", "aux", "hardware_model"} \subseteq b.parts

MacProvision(p, n) ==
    /\ MacBegin(p)
    /\ macDir[n] # MacNoBundle
    /\ MacTryLock(n, TRUE)
    /\ macOp' = [macOp EXCEPT ![p] =
            [kind |-> "provision", name |-> n, at |-> "unseal", lock |-> "exclusive",
             wrote |-> 0, signalled |-> FALSE]]
    /\ UNCHANGED <<macStage, macPart, macIpsw>> /\ MacBundlesAlone

\* Mutant: a re-provision leaves the image marked ready while it writes.
MacUnsealedNever(b) == b

\* The manifest while the disk is being written.
MacUnsealed(b) == [b EXCEPT !.manifest = "bare"]

\* Validated under the lock; an image that looks ready is marked
\* unprovisioned before its disk is touched.
MacUnseal(p) ==
    LET n == macOp[p].name IN
    /\ MacAt(p, "provision", "unseal")
    /\ \/ MacEnd(p) /\ UNCHANGED macDir
       \/ /\ MacValid(macDir[n])
          /\ macDir' = [macDir EXCEPT ![n] = MacUnsealed(macDir[n])]
          /\ MacGo(p, "attach")
    /\ UNCHANGED <<macStage, macPart, macIpsw, macMount, macVms>> /\ MacCounts

\* hdiutil attach; an image a killed provision left attached is attached
\* once more to the same device.
MacAttach(p) ==
    LET n == macOp[p].name IN
    /\ MacAt(p, "provision", "attach")
    /\ \/ MacEnd(p) /\ UNCHANGED macMount
       \/ /\ macMount' = [macMount EXCEPT ![n] = IF @ = "off" THEN "attached" ELSE @]
          /\ MacGo(p, "mount")
    /\ UNCHANGED <<macStage, macPart, macIpsw, macDir, macVms>> /\ MacCounts

\* The Data volume is mounted read-write, which makes the image on disk
\* inconsistent until it is detached; a recorded signal stops here.
MacMountData(p) ==
    LET n == macOp[p].name IN
    /\ MacAt(p, "provision", "mount")
    /\ \/ MacGo(p, "drop") /\ UNCHANGED <<macMount, macDir>>
       \/ /\ macMount[n] = "attached"
          /\ macMount' = [macMount EXCEPT ![n] = "mounted"]
          /\ macDir' = [macDir EXCEPT ![n].disk.clean = FALSE]
          /\ MacGo(p, IF macOp[p].signalled THEN "drop" ELSE "write")
    /\ UNCHANGED <<macStage, macPart, macIpsw, macVms>> /\ MacCounts

\* write_confined puts one file in place by a rename, whatever stood there.
MacWriteAgent(p) ==
    LET n == macOp[p].name
        i == macOp[p].wrote + 1 IN
    /\ MacAt(p, "provision", "write")
    /\ \/ MacGo(p, "drop") /\ UNCHANGED macDir
       \/ /\ macDir' = [macDir EXCEPT ![n].disk.agent = @ \union {MacAgentFiles[i]}]
          /\ macOp' = [macOp EXCEPT ![p].wrote = i,
                 ![p].at = IF i = Len(MacAgentFiles) THEN "detach" ELSE "write"]
    /\ UNCHANGED <<macStage, macPart, macIpsw, macMount, macVms>> /\ MacCounts

\* A clean detach flushes the volume; when it fails the drop retries with
\* force and the provision has failed.
MacDetach(p) ==
    LET n == macOp[p].name IN
    /\ MacAt(p, "provision", "detach")
    /\ \/ MacGo(p, "drop") /\ UNCHANGED <<macMount, macDir>>
       \/ /\ macMount' = [macMount EXCEPT ![n] = "off"]
          /\ macDir' = [macDir EXCEPT ![n].disk.clean = TRUE]
          /\ MacGo(p, "seal")
    /\ UNCHANGED <<macStage, macPart, macIpsw, macVms>> /\ MacCounts

\* A forced detach may lose what was not flushed, and may itself fail.
MacDrop(p) ==
    LET n == macOp[p].name IN
    /\ MacAt(p, "provision", "drop")
    /\ MacEnd(p)
    /\ macMount' \in {macMount, [macMount EXCEPT ![n] = "off"]}
    /\ UNCHANGED <<macStage, macPart, macIpsw, macDir, macVms>> /\ MacCounts

\* Only an uninterrupted provision whose disk is detached marks the image
\* ready; a signal, or a manifest that cannot be written, leaves it bare.
MacSeal(p) ==
    LET n == macOp[p].name IN
    /\ MacAt(p, "provision", "seal")
    /\ MacEnd(p)
    /\ \/ UNCHANGED macDir
       \/ /\ ~macOp[p].signalled
          /\ macDir' = [macDir EXCEPT ![n].manifest = "agent"]
    /\ UNCHANGED <<macStage, macPart, macIpsw, macMount, macVms>> /\ MacCounts

\* record_signal: the first is only noted.
MacSignal(p) ==
    /\ macOp[p].kind = "provision"
    /\ ~macOp[p].signalled
    /\ macOp' = [macOp EXCEPT ![p].signalled = TRUE]
    /\ UNCHANGED <<macStage, macPart, macIpsw>> /\ MacBundlesAlone /\ MacCounts

-----------------------------------------------------------------------------
(* A VM created from a bundle *)

MacBootable(b) == MacValid(b) /\ b.manifest = "agent"

MacCreate(p, n) ==
    /\ MacBegin(p)
    /\ Cardinality(macVms) < MacMaxVms
    /\ MacTryLock(n, FALSE)
    /\ MacBootable(macDir[n])
    /\ macOp' = [macOp EXCEPT ![p] =
            [kind |-> "create", name |-> n, at |-> "disk", lock |-> "shared",
             disk |-> MacBlankDisk]]
    /\ UNCHANGED <<macStage, macPart, macIpsw>> /\ MacBundlesAlone

MacCloneDisk(p) ==
    /\ MacAt(p, "create", "disk")
    /\ \/ MacEnd(p)
       \/ macOp' = [macOp EXCEPT ![p].at = "aux", ![p].disk = macDir[macOp[p].name].disk]
    /\ UNCHANGED <<macStage, macPart, macIpsw>> /\ MacBundlesAlone /\ MacCounts

\* The second clone ends the shared lock.
MacCloneAux(p) ==
    /\ MacAt(p, "create", "aux")
    /\ \/ MacEnd(p)
       \/ macOp' = [macOp EXCEPT ![p].at = "boot", ![p].lock = "none"]
    /\ UNCHANGED <<macStage, macPart, macIpsw>> /\ MacBundlesAlone /\ MacCounts

\* A machine identifier of its own, the leased VMM and the row; a failure
\* rolls the directory back.
MacBoot(p) ==
    /\ MacAt(p, "create", "boot")
    /\ MacEnd(p)
    /\ macVms' \in {macVms, macVms \union {macOp[p].disk}}
    /\ UNCHANGED <<macStage, macPart, macIpsw, macDir, macMount>> /\ MacCounts

-----------------------------------------------------------------------------
\* SIGKILL, a second signal, an interrupted install or a lost daemon: the
\* locks go with the process, files and attachments stay.
MacKill(p) ==
    /\ macKills < MacMaxKills
    /\ macOp[p].kind # "idle"
    /\ MacEnd(p)
    /\ macKills' = macKills + 1
    /\ UNCHANGED <<macOps, macStage, macPart, macIpsw>> /\ MacBundlesAlone

MacInstallSteps(p) ==
    \/ \E n \in MacNames, download, keep \in BOOLEAN : MacInstall(p, n, download, keep)
    \/ MacFetch(p) \/ MacDownloadOpens(p) \/ MacChunk(p) \/ MacDownloadEnds(p)
    \/ MacLoad(p) \/ MacWriteArtifact(p) \/ MacRunInstaller(p)
    \/ MacInstallManifest(p) \/ MacPublish(p) \/ MacTidy(p)

MacProvisionSteps(p) ==
    \/ \E n \in MacNames : MacProvision(p, n)
    \/ MacUnseal(p) \/ MacAttach(p) \/ MacMountData(p)
    \/ MacWriteAgent(p) \/ MacDetach(p) \/ MacDrop(p) \/ MacSeal(p) \/ MacSignal(p)

MacCreateSteps(p) ==
    \/ \E n \in MacNames : MacCreate(p, n)
    \/ MacCloneDisk(p) \/ MacCloneAux(p) \/ MacBoot(p)

MacNext ==
    \E p \in MacProcs :
        MacInstallSteps(p) \/ MacProvisionSteps(p) \/ MacCreateSteps(p) \/ MacKill(p)

-----------------------------------------------------------------------------
\* A disk a VM can be reached on: the system, every agent file, consistent.
MacWholeDisk(d) == d.os /\ d.agent = MacTotal(MacAgentFiles) /\ d.clean

(***************************************************************************)
(* Whatever process is killed where, and however installs, provisions and  *)
(* creations overlap: a bundle under an image's name is a finished install *)
(* (macos.rs install publishes by a rename); one marked provisioned has    *)
(* every agent file on a consistent, detached disk, and so does every VM's *)
(* clone (provision, create_macos_vm); the cached restore image is never a *)
(* truncated one, and neither it nor the staging bundle disappears under   *)
(* an install that is using it.                                            *)
(***************************************************************************)
MacSound ==
    /\ \A n \in MacNames : macDir[n] # MacNoBundle =>
        /\ MacValid(macDir[n])
        /\ macDir[n].parts = MacTotal(MacArtifacts) /\ macDir[n].disk.os
        /\ macDir[n].manifest = "agent" => MacWholeDisk(macDir[n].disk) /\ macMount[n] = "off"
    /\ \A d \in macVms : MacWholeDisk(d)
    /\ macIpsw \in {MacNoFile, MacSize}
    /\ \A p \in MacProcs :
        (macOp[p].kind = "install" /\ macOp[p].at \in {"write", "run", "manifest", "publish"})
            => MacSourceThere(p) /\ macStage[macOp[p].name] # MacNoBundle
=============================================================================
