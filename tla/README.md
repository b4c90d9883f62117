# TLA+ verification of husker

husker is a daemon that runs microVMs (Firecracker, QEMU, Apple Virtualization)
with their networks, images, volumes and guest agents, and *factory jobs*: a
client submits a frozen command once, the daemon gives it a private VM, runs it
at most once, journals its result and destroys the VM. This directory models the
control of the whole system: what each operation does step by step, where it can
be interrupted, what other tasks, processes and machines may do in between, and
what must still be true then.

## 1. Inventory of the system

| Component (source) | State | Operations | What is hard, what makes it correct |
|---|---|---|---|
| Creation leases, CID allocator (`husker-state` `lib.rs`, `boot_epoch.rs`) | `host_resource_leases`, `vms`, `freed_cids`, boot epochs | begin, enter backend, record destruction, confirm reboot, commit, release, retire, raise base | sequences over six methods and two machines; a CID has one owner, a reboot receipt is true |
| Job journal (`husker-state` `jobs.rs`) | `execution_jobs` rows and tombstones | accept, claim, bind, run, stage, finish, receipts, confirm, delete, purge | first decision wins; late binds; tombstone boundary; no release without a receipt |
| Factory workers (`husker-core` `job_*.rs`) | worker registry, lifecycle and name locks, retained proofs | submit, allocate, launch, observe, collect, cancel, clean up, reconcile, recover | all of the above between two transactions; a command starts once; every job is decided and released |
| State schema (`husker-state` `lib.rs`, `connection.rs`, `durable.rs`) | schema stamp, effects of migrations, durable commits | open, repair, migrate, write a receipt | two processes, a crash between repair and stamp, power loss after an answer |
| VM lifecycle, suspend, resume, fork (`vm_lifecycle.rs`, `suspend.rs`, `fork.rs`, `reclaim.rs`) | VM rows, suspend slots, directories, name locks | create, replace, stop, pause, resume, suspend, fork, destroy, release | a crash at every step; a stale row behind a lock; two locks; aliased disks |
| Idle policy, userdata, liveness (`idle.rs`, `agent_ops.rs`, `network.rs`) | activity clocks, sessions, owned script tasks | evaluate, wake up, claim, cancel, refresh | they act on a VM without its lock |
| Forwards, addresses, firewall (`network.rs`, `port_proxy.rs`, `husker-net`) | forward rows, nftables rules, listeners, allocator, TAPs | forward, hand over, drain, allocate, return, filter, isolate | order of rule and row; order of address and lease; what gets out between two commands |
| VMM backends (`husker-vmm`) | processes, in-memory registry, routes, recovery receipts | create, abort, destroy, stop, recover | a crash between spawn and receipt; a cancelled destroy; absence is not death |
| Apple VZ (`apple_vz.rs`, `vz_worker*.rs`) | serial queue, child process, stop receipt | create, stop, switch, destroy, prove | an observed call that ends later; a lost reply; a dead child |
| Serial log (`serial_capture.rs`, `serial_log.rs`) | capped file with marker, follower's place | drain, compact, reboot, poll | compaction between two polls; a reused inode |
| Guest agent (`husker-agent`) | sessions, receipts, job runner, supervisor | start, replay, remove, run, read | replay after a lost answer; escaped processes; power loss |
| Agent protocol (`agent_client.rs`, `husker-agent-proto`) | one stream, peer's version | typed calls, uploads, copies | older agents; a connection that breaks anywhere |
| Images, OCI, macOS (`husker-storage`, `husker-oci`, `images.rs`, `macos.rs`) | catalog rows and files, clones, bundles | import, commit, clone, refresh, flatten, install, provision | file and row change apart; pending journals; killed processes that leave mounts |
| Services, pools, volumes, snapshots, secrets (`services.rs`, `pools.rs`, `volumes.rs`, ...) | rows, files, key file, templates | reconcile, scale, check out, attach, rotate | a reconcile works from old rows; check and insert without a lock |
| HTTP API (`husker-api`) | limiter, open requests, monitors | every route, streams, detached sessions, shutdown | window edges; order of layers; frames behind a full socket; duplicate monitors |
| Command line (`husker` `job.rs`, `main.rs`, `daemon_client.rs`) | a program of requests | every command, `husker job` | retries and lost answers; names that change owner |
| Frozen bundles (`frozen_bundle*.rs`) | a captured tree | freeze, publish, decode | the tree changes while it is walked |
| Daemon (`daemon.rs`) | the process itself | start-up order, serve, drain | start-up meets processes of an earlier daemon |
| Cloud-init, image download, rendering, Python SDK | documents and requests | convert, copy | pure conversion or I/O; not modelled |

Inside one daemon the components call each other directly; they share one
SQLite database (each method is one transaction), tokio mutexes per VM name, per
job, per volume and per service, memory, and files under the state directory.
Messages go to the guest agent (vsock), to the VZ child (pipes) and between
client and daemon (HTTP, WebSocket). `PROJECT.json` lists the components with
their status, the hazards with their lines, and the source lines of every
definition.

## 2. Modules

```
HostLeases --- JobJournal --- FactoryJobs          VmRows --- Userdata --\
   |              |  \ implements JobPromise          \------ VmNet -- VmOps -- VmPolicy -- VmFleet
JobJournalProofs (leases, journal) --- FactoryJobsProofs      VmFleet --- VmFleetInvariant --- VmFleetProofs

AgentSessions  GuestJob  GuestLink  AgentClient    QemuHost  AppleVz -- VzWorker  SerialLog
HostFirewall  HostAddresses  PortRelay             ImageCatalog  OciImport  MacImages
Services  NamedStores  StateSchema                 ApiGate -- CliCommands  ApiStreams  ApiSessions
CliJob  FrozenBundles                              (all of these: MCComponents)

EndpointProofs: AgentSessions, GuestJob, GuestLink, AgentClient, CliJob, CliCommands, FrozenBundles
DaemonProofs:   StateSchema, NamedStores, Services, ApiGate, ApiSessions, ApiStreams
HostProofs:     QemuHost, VzWorker, SerialLog, PortRelay, HostAddresses, HostFirewall,
                ImageCatalog, OciImport, MacImages
ComponentProofs: MCComponents, from the three modules above
```

### Factory jobs

**HostLeases** is the lease side of the state store. A generation (a planned VM
UUID) is in `leases`, then in `vms` or nowhere. Each store method is an action
with the method's guard; a refused call changes nothing and is not an action.
Machines, their boots and the place where the database is opened are part of the
state, because `boot_epoch.rs` reasons about them; reading the boot identity may
fail at any call (`Readings`). `used`, `entered_at` and `cid_base` are history
variables. **JobJournal** adds the table `execution_jobs`; SQL `CHECK`s and
triggers are conjuncts of the action that would hit them. It is checked *without*
the callers' discipline: its actions are called in any order their guards admit.
**JobPromise** is the abstract contract (taken once, decided once, resources given
back only after the decision, forgotten only when nothing is owned) that JobJournal
implements. **FactoryJobs** is the daemon around the journal: workers, the two
locks, a cleanup that waits with the record it read before, processes, registry,
receipts and directories. One step commits at most one transaction or makes one
backend call; `Fault` marks a failing call. A crash loses memory and any subset of
the child processes; a reboot ends all of them. Captures of output are atomic
under the name lock, start-up recovery runs alone, and a start-up that fails on a
journal error is a `Crash`.

### Ordinary VMs

**VmRows** holds what the operations share: rows, the daemon's memory of a VM, its
processes and files, forwards, and per name the operation that holds its lock,
whose `pc` names the await it has reached. **VmOps** has the operations under the
lock as chains of actions with their error paths; **Userdata**, **VmNet** and
**VmPolicy** what happens without it: script tasks, forwards, the idle policy,
agent connections, resume listeners and the liveness refresh. **VmFleet** adds
crash, shutdown and the start-up order of `daemon.rs` (reap by pid, mark stale,
sweep cgroups, reconcile suspends, restore networks, serve). `menu` restricts a
behaviour to a workload, chosen in the initial state, so that several calls of one
kind meet without the product of all of them. Timeouts of the idle policy are
choices: a VM may be idle long enough whenever no session pins it. Where the code
ignores that a slot's directory cannot be removed (`suspend.rs:125`, 141, 431), the slot
may stay. One consequence the model shows: such a leftover slot, followed by a crash
after the next suspend has marked its row, is what start-up takes for the slot of the
interrupted suspension; `SuspendedResumable` counts it as a complete snapshot.

### Components that stand on their own

Every variable and action carries its component's prefix.

| Module (prefix) | Models | Property and what it says |
|---|---|---|
| AgentSessions (`Ses`) | session store with its creation mutex, split at every await; agent death and power loss | `SesReplayOnce`: a replayed start never runs the command twice |
| GuestJob (`Job`) | the runner in the guest, its cgroups and its result | `JobEvidenceSound`: the published evidence is of the commands that ran and of a tree nothing changes any more; a manifest is refused for its size alone |
| GuestLink (`Lnk`) | supervisor, connection loop, ranged copy | `LnkCopyWhole`: a copy is one version of the file, although each chunk is a request of its own and an agent may restart between two |
| AgentClient (`Agc`) | typed calls against agents of every protocol version | `AgcExact`: a call that reports success did what it says |
| AppleVz, VzWorker (`Vz`, `Wkr`) | the framework's queue, the child, its owner | `VzOwnedUntilStopped`: released only after the machine stopped; offline machines have no network |
| QemuHost (`Qm`) | dispatcher, QEMU, helpers, QMP, cgroup | `QmProcessesReachable`: no process that no destroy can reach |
| SerialLog (`Ser`) | capped log and follower | `SerFollowsStream`: no unannounced loss, repeat or splice |
| HostFirewall (`Fw`) | the chains of every TAP, and TAPs, by the packets that pass | `FwContained`: a live guest gets out exactly what its mode promises |
| HostAddresses (`Ha`) | allocator, leases, rows | `HaOwnedOnce`: one owner per address over crashes |
| PortRelay (`Rly`) | one forwarded port in user space | `RlyServesQueued`: the teardown resets a queued connection only beyond its cap or after one of its accepts failed |
| ImageCatalog (`Img`) | catalog, clones, journal replay, agent refresh | `ImgCatalogTrue`: a row's file has the row's bytes; a clone of an image that was not replaced meanwhile is that image |
| OciImport (`Oci`) | registry, budgeted download, overlay of paths of any depth, entries tar refuses | `OciFaithful`: the tree is the reference overlay of verified layers, paths and contents, within the limits, to which the config blob is charged |
| MacImages (`Mac`) | install, provision, clone by separate processes | `MacSound`: what VMs clone is complete, provisioned and unmounted |
| Services (`Svc`) | reconcile against users and dying guests | `SvcSound`: only own instances are destroyed; a clean reconcile leaves exactly the desired ones |
| NamedStores (`Sto`) | volume, snapshot, secret key, pool | `StoSound`: a row has its file, a secret its key, a pool its template |
| StateSchema (`Sch`) | opening and migrating the database | `SchSound`: only forward, never stuck, receipts survive power loss |
| ApiGate (`Ap`) | routes, layers, limiter, shutdown | `ApSound`: the window and the promised retry hold; nothing happens for a refused caller |
| ApiStreams (`Stm`) | exec, shell, tunnel, file read | `StmSound`: the exit comes after all output, and always comes to a client that opened with a data frame, but for a shell whose input could not reach the lost guest |
| ApiSessions (`Mon`) | detached sessions and monitors | `MonSound`: a command is watched exactly once, unless it is in `monLost` |
| CliJob (`Jb`) | `husker job` over a faulty connection | `JbHonest`: what it reports is what happened |
| CliCommands (`Cmd`) | the other commands as programs of requests | `CmdFaithful`: nothing takes effect twice, exit 0 means done (a list may be empty because no daemon was reached), deletes were agreed to |
| FrozenBundles (`Frz`) | two walks over a changing tree | `FrzSnapshot`: a bundle is the tree at one moment |

Several of these properties name their exceptions in a history variable
(`haTorn`, `svcOvertaken`, `stoTorn`, `monLost`, `stmCut`, `rlyReset`, `fwBared`, and
`net.clashed` of VmFleet): each marks a window the code leaves open, and the property
says that nothing else goes wrong. `monLost` has the detached commands whose start was
answered to nobody (`sessions.rs:249`), whose name moved to another VM, and whose monitor
gave up or found the VM paused (`sessions.rs:294`, the `_ => break`); `stmCut` a session
that began with a control frame or whose `shell_send` or `shell_resize` failed
(`handlers.rs:2126`); `rlyReset` what a drain left behind when an accept failed
(`port_proxy.rs:260`).

Not under `src/`, modelled from their use and marked external: the clock, the
kernel, nftables evaluation, the Virtualization framework, registries, guests and
the programs in them.

## 3. Runs

| Run | Distinct states (about) | Question |
|---|---|---|
| HostLeases | 320 000 | Do CIDs keep one owner, and are reboot receipts true, over two machines, three generations and raised bases? |
| JobJournal | 1 070 000 | Do the guards alone give at-most-once acceptance within the budget, final decisions, receipts for releases, and the promise, while jobs compete for capacity and tombstones are purged? |
| FactoryJobs | 405 000 | Do ownership and receipts survive every interleaving of one job with two faults, two daemon exits and a reboot? |
| FactoryLive | 71 000 | Is every job decided and released under fairness? |
| FactoryPair | 2 290 000 | Are two jobs with a worker slot each kept apart while both VMs exist, and when one reuses the CID the other released? |
| VmFleet | 632 000 | Do snapshots, disks, processes, ports and scripts of ordinary VMs survive every interleaving of three calls, a fault and a crash, in eight workloads? |
| Components | 464 000 | Does each stand-alone component keep its property under the faults of its own code? |
| HostLeasesBase, HostLeasesReceipt, VmProbe, VmForkPair, VmPorts | violation | Findings 1 to 5. |

`MCComponents` composes the stand-alone modules as a disjoint union: `focus` chooses
one component in the initial state and only that one moves, so its state graph is
explored completely and beside the others' initial states. Its joined properties
(`NetGuarded`, `ImagesSound`, `OrchestrationSound`, `ApiSound`, `CliSound`,
`AgentLinkExact`) are conjunctions of the component properties above.

**Bounds.** Every bound is a named constant: the sets of the cfg files and the
`Max...` constants, which only stop the exploration; a limit of the code
(`ApLimit`, `SesMaxSessions`, `SerLimit`, `OciDownload`, `RlyDrainCap`, ...) is a
constant too, and set so low that it is reached. Three generations and two names let
a CID be freed, purged and reused while another is held. Two deadlines and a clock
that passes both reach the tombstone boundary. Two faults and two exits let a failed
rollback be followed by an interrupted recovery. In FactoryJobs and FactoryLive the only
slot can be taken by a worker of another job (`OtherWorkers`), so that a submission
without a slot, and its immediate seal, happens too; in FactoryPair both jobs have a slot,
and the horizon is 0 because deadlines are the business of the one-job runs. In VmFleet three calls suffice for
suspend, resume and a third operation in between on one name, and two VMs for a fork
beside its source and a successor under an old name; a crash can fall on any step. In
Components the clock passes the window of the limiter, a log is compacted and
rebooted, a service meets a duplicate, a missing ordinal and a stopped instance, a
second daemon process meets the first one's half-done migration, and an upload has
two chunks, so that an append happens. Each property has a mutated definition, kept
beside the one it mutates, that violates it under exactly these bounds; conjuncts of
joined properties have mutants of their own beside the definition they mutate.

**Deadlock.** HostLeases never stops. The other runs say `CHECK_DEADLOCK FALSE`:
their instances come to rest when calls, faults and clock are used up. That factory
jobs do not stop earlier is what FactoryLive checks; that two opposite forks do is
finding 4.

**Fairness.** `FairFactorySpec`: tasks are polled by tokio and its mutexes queue in
FIFO order, so a worker or teardown step that is enabled again and again is taken
(strong fairness: a lock is taken by others in between). Cleanup ticks are periodic
timers over a rotating cursor, deadlines are polled every 100 ms, a supervisor
restarts the daemon, and the clock runs. Clients, the guest and faults have no
fairness. Both progress properties name their exceptions: a job without a slot whose
immediate seal failed waits for a restart, and a generation whose process was lost
before its recovery receipt existed can only be proved dead by a reboot. `FairSpec`
of VmFleet: the holder of a name lock runs on and start-up goes on (weak fairness).

## 4. Findings

1. `LeasedAboveBase`: `ensure_cid_base` promises that the allocator never hands out a
   CID below the base, but it purges the free list only at start-up. A generation that
   still holds a lower CID returns it later, and it is the first to be reused.
2. `EveryRebootReceiptSound`: "another host ... never authorize resource release", but an
   entry without a readable identity has its baseline deleted, and opening the database
   on another machine writes that machine's boot as evidence. Its next reboot confirms
   the lease. `RebootReceiptSound` shows that this is the only way to a false receipt.
3. `StoppedOwnsNothing`: "a stopped VM has no VMM process and no resumable suspend
   slot", but `refresh_vm_liveness` marks a VM stopped from a row it read before it
   asked the backend, without the name lock; a suspend in between is overwritten.
4. `ForkFinishes`: "The fork finishes (or rolls back)", but a fork locks source name,
   then fork name, so a fork of a as b and one of b as a can wait for each other for
   ever, and with them every later call on either name.
5. `PortStaysForwarded`: "Port already forwarded" is the documented conflict of a second
   forward of a host port, but its rollback deletes rules by TAP and host port. When the
   VM already forwards the port, to another guest port, the first forward's rule goes: its
   row stays and the port answers nobody until the next start-up (`network.rs:275`). A
   removal that overtakes an addition between its rule and its row leaves the same. Both
   are actions of VmNet and calls of VmFleet's workloads; `NoDeafPort` shows that ports
   outside `net.clashed` are never deaf.

Hazards seen while modelling that no property states, because the code makes no
promise there or the model abstracts the data: the VM cap is checked before the
creation and not with it (`handlers.rs:1215`); a pool row is inserted outside any
lock (`pools.rs:77`, the exception `"template"` of `StoSound`;
its rollback, like every destroy, removes the template's files before its row); a cleanup repeated by
name after an unanswered DELETE can meet another client's VM (`job.rs`, `JbRival`);
a file rewritten in place between the metadata and the bytes of one read
(`LnkInPlace` set to TRUE shows the torn copy); a whiteout after the layer's own
file (`OciMarkersFirst` is the assumption of `OciFaithful`); `cleanup_nat` runs before
the bridge is deleted at shutdown (`fwBared`); two `husker images pull` of one image
share a partial file; `contexts.toml` is not replaced atomically; a resume whose
last row write fails leaves a running guest under a row that still says suspended
(`suspend.rs:428`), and a fork of it reads a slot whose disk the guest has moved on
from (`fork.rs:64`; the model marks such a guest with `ran`); and stopping a suspended
VM leaves its resume listeners bound (`vm_lifecycle.rs:1668` closes them in a destroy
only), so after its network is reclaimed another VM that takes the port over finds it
taken when it is suspended.

## 5. Proofs

TLAPS proves the following for every value of the constants that the named
assumptions allow. Bounds such as `MaxCalls` or `MaxFaults` are arbitrary in the
proofs. Most assumptions give types and keep null values apart
(`HostLeasesAssumption`, `JobJournalAssumption`, `BudgetAssumption`,
`FactoryAssumption`, `VmRowsAssumption`, `QmShareAssumption`, `VzConfigAssumption`,
`SesSpecAssumption`, `AgcAssumption`, `ApAssumption`, `StmAssumption`,
`FrzAssumption`, `OciAssumption`, `MacAssumption`). The others say more:

* `JobAssumption`: a frozen job has at least one command (`job_spec.rs:232` refuses an
  empty list).
* `SerAssumption`: four anchors fit in the serial cap (see SerialLog below).
* `HaAssumption`, `RlyAssumption`, `SvcAssumption`, `CmdAssumption`: there is at least
  one address, relay slot, ordinal and VM name.
* `SchAssumption`: the baseline comes before the boot-evidence migration, and that one
  before the newest.
* `ImgAssumption`: an import source is complete (a short one fails before it is a
  source).

Each component has one inductive invariant, a conjunction of named parts; the property
is a consequence of it and not inductive by itself. The proof that a step keeps it has
one lemma per action.

### Factory jobs

**JobJournalProofs.** *Leases*: `LeaseInv == LeaseTypeOK /\ CidOwnedOnce /\
BootEvidence /\ RebootReceiptSound`. The receipt is not inductive alone: confirming
needs to know that no recorded boot lies in the future, and that evidence of the
entering machine is not older than the entry (`BootEvidence`). *Journal*:
`JournalInv == LeaseInv /\ JobTypeOK /\ SubmissionInv /\ OwnershipInv`. `NoRerun` needs
`PurgedPast` (a purged tombstone's deadline has passed, so its submission cannot be in
time again) and `ReleaseHasReceipt` needs `LiveHolds` (an undecided claim is still
pending). Actions that only touch a job's own row share the lemma `RowInv`; actions of
the lease store are carried over by `LeaseSideInv`. `DecisionsAreFinal` is an action
property from the same invariant, and `JournalKeepsPromise` the refinement:
`PromiseStarts` for the initial states, `PromiseSteps` for one journal step, which is
one step of `JobPromise` or a stutter. *Capacity*: `WithinBudget` is about a sum over
the set of jobs that hold capacity, which the model takes from the community modules
(`MapThenSumSet`). Its recursive definition chooses an element at every step; the
lemmas show that the sum does not depend on the choice, by a least counterexample over
the cardinality of the set instead of the library's induction rule. With that a sum
grows by what a job is charged and shrinks by what it gives back, and `BudgetInv` (the
set is finite, whoever is in it has a submission) makes the property inductive.

**FactoryJobsProofs.** `FactoryInv == JournalInv /\ CoreTypeOK /\ Named /\ \A j :
JobInv(j)`. `JobInv(j)` says for one job, at every await: who holds its two locks and
that nobody holds one he left (`Locks`); what an allocating worker knows of its
generation, which before the backend entry is a planned lease and nothing else
(`Allocates`); that an executing worker's job is bound, entered and not torn down
(`Executes`); how far a teardown has come and what it has already removed
(`TearsDown`); and how process, backend owner, retained proof, row and lease of the
generation stand to each other (`Owns`). None of the six invariants is inductive
without it: `ProcessIsOwned` at a crash depends on what the worker had recorded before
it spawned, and `ReceiptSound` on the order in which a teardown removes things. A step
for one job leaves `JobInv` of the others alone because their generations differ
(`Named` and the journal's own uniqueness), which is also `JobsStayApart`. Every step of
the daemon commits at most one journal transaction or none (`DaemonTransaction`), so
`DecisionIsFinal`, `WithinBudget` and `KeepsPromise` carry over from the journal.

### Ordinary VMs

**VmFleetInvariant, VmFleetProofs.** `FleetInv` says per VM (`VmInv`) that what runs is
known to the daemon, that a suspended VM sleeps beside a complete slot, that the
directory holds its disk and that a guest has its TAP; per name (`OpInv`) what the
operation that holds the lock may rely on at each await: a suspend has a complete slot
before it kills, a resume has rewired before it restores, a destroy has given the
generation up before it removes anything, the source of a fork stays asleep and locked
until the load ends; and between names that rows and claimed generations are distinct.
A daemon that does not serve holds no lock (`Down`). The lemmas of VmFleetInvariant
state once what each update leaves alone; VmFleetProofs has one lemma per action.
All theorems assume `Supervised`: only the cgroup sweep ends processes of an
earlier daemon whose pid was never recorded. That is the daemon with `resource_limits`,
which `config.rs:457` leaves off by default, so `SoleVmm` itself is stated under
`Supervised`: without it a VM can have two processes, and the code does not say otherwise.
`RunningScriptOwned` needs the script tasks besides (`ScriptInv`). `SourceDiskSafe` is
an action property: only three actions start a VMM, and `ForkOp` says of each that
its VM is not the source of a fork that aliases the disk.

### What the host keeps (HostProofs)

*QemuHost* (`QmInv`): an instance is registered only under its route, a creation
excludes a destruction, and every process is either the instance's or of the creation in
progress. *VzWorker* (`VzInv`, `WkrOwned`): the argument goes through the framework's
queue. Once the machine is released its queue is quiet and nothing can start it
(`VzQuiet`, `VzGone`, `VzCut`, `VzUnmade`); the child, its owner and the ender agree on
who may still speak for it (`WkrSingle`, `WkrAlone`, `WkrBefore`, `WkrFenced`,
`WkrEnded`), and a receipt is true when written (`WkrReceiptTrue`). *SerialLog*
(`SerInv`): the log is a run of consecutive bytes of one boot, the drain's counts are
those of the file, and what the follower remembers is a run of one boot that ends at its
place. The last part is not obvious: after the one seam the code cannot see, the anchor
would mix two boots and a later poll would announce a restart that never was. TLC finds
that with an anchor of more than a quarter of the cap (cap 8, anchor 4). It cannot happen
in the program: a compacted log keeps more than half of the cap, so the bytes after such
a seam fill the whole anchor whenever four anchors fit in the cap, and
`SerialCapture::new` refuses caps of two markers (140 bytes) or less while an anchor has
32.

*HostAddresses* (`HaInv`): an address is claimed by a row, a lease or a creation that
holds it, a creation that is rolled back included. `HaOwnedOnce` speaks of rows and
leases only and is not inductive, since an address is handed out before either is
written: `HaExclusive` says that two claims differ, `HaWithheld` that the allocator
does not offer a claimed one, `HaVmOK` what each creation has at its await. The lowest
free address exists because naturals are well-founded (`WFMin`). *HostFirewall*
(`FwInv`): the rules of every TAP are those of its policy or none, a TAP without a guest
has none, isolation stands while a TAP is attached and the table was not bared, and
nothing is attached while the bridge is remade. What passes is then computed rule by
rule, the first that hits deciding. *PortRelay* (`RlyInv`): what is in the backlog is
taken by the drain as long as it is within the cap and no accept fails.

*ImageCatalog* (`ImgInv`): file and row of a name are seen together with the operation
that holds the name's lock, which says who may have changed one and not the other; a
VM's disk is seen with the row it was resolved from, whose stamp tells a replaced image
from the one cloned. *OciImport* (`OciInv`): at entry k of layer i the tree has exactly
the paths that some entry before it shows and no later one veils. The property compares
whole layers, so a second step shows that entries in order and layers in order say the
same where markers come first. The lemmas on prefixes (of prefixes, and of a path under
a removed one) carry this for paths of any depth. *MacImages* (`MacInv`): what each
command knows at its place (`MacInstallOK`, `MacProvisionOK`, `MacCreateOK`) and which
commands can be beside each other (`MacApart`). A provision changes a published bundle
only beside clones already taken and installs that have published; a download is
deleted only by the install that holds the build lock, and no other install that uses
it can be without that lock.

### What the daemon keeps and answers (DaemonProofs)

*StateSchema* (`SchInv`), *NamedStores* (`StoInv`): what a crash between two writes
leaves is one of the states the next start repairs. *Services* (`SvcInv`): the survivors
a reconcile listed are rows of its own service unless somebody overtook it, and the
ordinals it has still to create are not among them. *ApiGate* (`ApInv`): the queue of a
key is the end of its past, and what was dropped from it is out of every later window,
so counting the queue counts the window. *ApiSessions* (`MonInv`): a running detached
command is covered by a monitor, by a submission about to register one, or the code has
lost it (`monLost`), and a key is registered for one monitor. *ApiStreams* (`StmInv`):
what the client saw and what is on the way to it are, put together, the whole output;
every output frame is in front of the exit; `StmAt` says where the task is heading.
Frames are counted by the cardinality of their places, so no induction over a sequence
is needed.

### The two ends of a connection (EndpointProofs)

*AgentSessions* (`SesInv`): a receipt is kept from before its command starts until after
its session is gone (`SesKept`, `SesStarting`, `SesRemoving`), so a replay meets one or
the other. *GuestJob* (`JobInv`): one runner exists, every command it started is
accounted for in order, and the tree is frozen before the evidence of it is published
(`JobSingle`, `JobAccounted`, `JobConsistent`, `JobEvident`, `JobFrozen`). *GuestLink*
(`LnkInv`): a version's inode holds that version's bytes, and a copy that goes on has
the first chunks of the version it was told of; an answer of another version ends it.
*AgentClient* (`AgcInv`): a connection holds the one request of the call in progress or
its answer and nothing else (`AgcWireShape`, `AgcFits`), a request is sent after the
version was found high enough (`AgcGated`), what a dropped connection left cannot undo
what was reported (`AgcCarryOutKeeps`), and nothing of an upload is late as long as it
may go on (`AgcUpload`): that is why a failed chunk ends it.

*CliJob* (`JbInv`): what the client has been told at each stage of `husker job`.
*CliCommands* (`CmdInv`): the shape of every program is static (`CmdShape`: confirmed
deletes only, no request twice that changes something), and of every request behind the
place of the program it is known what came of it (`CmdHist`). *FrozenBundles* (`FrzInv`):
no piece of the second walk is older than the same piece of the first, and a rewrite
changes what the first has read, so two walks that agree are the tree as it stood between
them.

### Joined properties (ComponentProofs)

A step of MCComponents is a step of the component in focus (`FocusedStep`), so each
joined property follows from the invariants of its components: `AgentLinkIsExact`,
`OrchestrationIsSound`, `NetIsGuarded`, `ApiIsSound`, `CliIsSound`, `ImagesAreSound`.
`AgentLinkIsExact` assumes `~LnkInPlace`: an agent that has open a file rewritten in
place reads new bytes under old metadata (section 4). The theorems of HostProofs and
EndpointProofs that are listed by themselves are about the component's own initial
states and steps (`SerInit /\ [][SerNext]_serVars => ...`); MCComponents lets exactly
those happen while the component has the focus.

**Only model-checked**: the progress properties (liveness and `ENABLED`), and
`NoDeafPort`, which holds for ports outside `net.clashed` (finding 5). No module
uses `RECURSIVE`.

## 6. Not modelled

* *Conversion and I/O*: cloud-init documents, GPT and ext4 parsing, QEMU and
  Firecracker command lines and device lists, nft scripts, table and JSON output,
  OpenAPI and metrics text, configuration and argument parsing. They keep no state
  that two actors share; what they decide appears in the models as a choice.
* The download of `husker images pull` (a step of this machine in CliCommands) and the
  self-update helpers: sequential transfers.
* The Python SDK: an HTTP client without state.
* The terminal of an interactive shell, below the frames of ApiStreams.
* A wall clock that steps backwards and damaged receipt files: the code has no
  behaviour for them to check.
* Cooperation of several stand-alone components in one behaviour: VmFleet and
  FactoryJobs have the processes, ports, disks and leases that matter to them in
  their own state, at the detail their properties need.

## 7. Plan

Done: factory jobs with journal and leases, the ordinary VMs, the stand-alone
components and their runs; the proofs of section 5, which state every safety invariant
a run checks but `NoDeafPort`. Left: a theorem for `NoDeafPort`; components in one behaviour that now stand alone (a VM of VmFleet with the
firewall and the addresses of its network); the parts of section 6 that would gain state
if the code did.
