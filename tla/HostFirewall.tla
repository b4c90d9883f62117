---------------------------- MODULE HostFirewall ----------------------------
(***************************************************************************)
(* What a guest's packets meet on a Linux host (husker-net/src/lib.rs): the *)
(* bridge and its TAPs, the per-TAP egress rules of the bridge table, the   *)
(* daemon-wide isolation rules of the ip table, and the order in which the  *)
(* lifecycle (create, fork, suspend, resume, destroy), a crash, a restart   *)
(* and a shutdown install and remove them.                                  *)
(***************************************************************************)
EXTENDS Naturals, Sequences, FiniteSets, SequencesExt

CONSTANTS
  FwTaps,       \* TAP names; a name is reused once its owner is gone
  FwMaxSteps    \* bound on the lifecycle operations started

VARIABLES
  fwPhase,    \* the daemon: "down", "reconcile", "bridge", "restore", "up", "closing"
  fwIsolated, \* guest isolation is configured
  fwBridge,   \* the managed bridge exists
  fwIp,       \* the ip table's forward and input chains; <<>> rules when absent
  fwEgress,   \* the bridge table's input and forward chains, rules by TAP
  fwTap,      \* per TAP: "absent", "loose" (no master) or "attached"
  fwGuest,    \* per TAP: its VM's state
  fwFiltered, \* the VM asked for network "filtered": its policy is pinned
  fwSteps,    \* lifecycle operations started
  fwBared     \* shutdown removed the tables and the bridge still stands

fwVars == <<fwPhase, fwIsolated, fwBridge, fwIp, fwEgress, fwTap, fwGuest,
            fwFiltered, fwSteps, fwBared>>
fwHost == <<fwPhase, fwIsolated, fwBridge, fwIp, fwBared>>

FwChains == {"input", "forward"}
FwPackets == {"arp", "resolver", "listed", "lan", "internet", "host", "peer", "reply"}

\* A packet for another guest is bridged; every other one is delivered to the
\* host side of the bridge, and then routed unless it is for the host itself.
FwHook(p) == IF p = "peer" THEN "forward" ELSE "input"
FwRouted == {"resolver", "listed", "lan", "internet", "reply"}

FwNoChains == [c \in FwChains |-> <<>>]

\* Every rule of the bridge table names the TAP a packet enters by, so a chain
\* is kept as the rules of each TAP, in the order in which they stand in it.
FwNoEgress == [c \in FwChains |-> [t \in FwTaps |-> <<>>]]

FwInit ==
  /\ fwPhase = "down" /\ fwIsolated \in BOOLEAN /\ fwBridge = FALSE
  /\ fwIp = FwNoChains /\ fwEgress = FwNoEgress
  /\ fwTap = [t \in FwTaps |-> "absent"]
  /\ fwGuest = [t \in FwTaps |-> "none"]
  /\ fwFiltered = [t \in FwTaps |-> FALSE]
  /\ fwSteps = 0 /\ fwBared = FALSE

(***************************************************************************)
(* Rules.                                                                   *)
(***************************************************************************)

FwRule(match, verdict, mark) == [match |-> match, verdict |-> verdict, mark |-> mark]

\* egress_rules_for_chain: gateway ARP, DNS to the resolvers, the pinned
\* destinations (which mark the packet), and the TAP's default deny.
FwAllows == << FwRule({"arp"}, "accept", FALSE),
               FwRule({"resolver"}, "accept", FALSE),
               FwRule({"listed"}, "accept", TRUE) >>
FwDeny == FwRule(FwPackets, "drop", FALSE)

FwWithout(chain, t) == [chain EXCEPT ![t] = <<>>]

\* apply_egress_policy: one transaction deletes the TAP's old rules, appends
\* the deny and inserts each allow at the head of the chain.
FwPinned(chain, t) == [chain EXCEPT ![t] = Append(Reverse(FwAllows), FwDeny)]

FwPrivate == {"resolver", "listed", "lan", "reply"}

\* isolation_forward_rules before the broad accepts; isolation_input_rules.
\* The mark carve-out matches on the packet's mark, not on its destination.
FwForwardRules(isolated) ==
  IF isolated
  THEN << FwRule({"reply"}, "accept", FALSE),
          FwRule({}, "accept", TRUE),
          FwRule({"resolver"}, "accept", FALSE),
          FwRule(FwPrivate, "drop", FALSE),
          FwRule(FwPackets, "accept", FALSE) >>
  ELSE << FwRule(FwPackets, "accept", FALSE) >>

FwInputRules(isolated) ==
  IF isolated
  THEN << FwRule({}, "accept", TRUE),
          FwRule({"resolver"}, "accept", FALSE),
          FwRule(FwPackets, "drop", FALSE) >>
  ELSE <<>>

FwIpRules(isolated) ==
  [c \in FwChains |-> IF c = "forward" THEN FwForwardRules(isolated)
                      ELSE FwInputRules(isolated)]

\* The first of the rules that match decides; every chain's policy is accept.
FwDecides(chain, hits) ==
  IF hits = {} THEN FwRule({}, "accept", FALSE)
  ELSE chain[CHOOSE i \in hits : \A j \in hits : i <= j]

FwBridgeVerdict(t, p) ==
  LET rules == fwEgress[FwHook(p)][t] IN
  FwDecides(rules, {i \in DOMAIN rules : p \in rules[i].match})

FwIpVerdict(chain, p, marked) ==
  LET rules == fwIp[chain] IN
  FwDecides(rules, {i \in DOMAIN rules :
                      p \in rules[i].match \/ (rules[i].match = {} /\ marked)})

\* Whether a packet of the guest behind a TAP leaves the bridge.  ARP is
\* answered on the bridge itself and reaches no ip chain.
FwPasses(t, p) ==
  LET atBridge == FwBridgeVerdict(t, p) IN
  /\ fwBridge /\ fwTap[t] = "attached"
  /\ atBridge.verdict = "accept"
  /\ p \in FwRouted => FwIpVerdict("forward", p, atBridge.mark).verdict = "accept"
  /\ p = "host" => FwIpVerdict("input", p, atBridge.mark).verdict = "accept"

(***************************************************************************)
(* The lifecycle of one VM.  create_vm and fork_vm make the TAP, pin the    *)
(* policy when there is one, and only then attach the TAP.                  *)
(***************************************************************************)

FwSet(t, guest, tap) ==
  /\ fwGuest' = [fwGuest EXCEPT ![t] = guest]
  /\ fwTap' = [fwTap EXCEPT ![t] = tap]

FwCreateTap(t, filtered) ==
  /\ fwPhase = "up" /\ fwGuest[t] = "none" /\ fwSteps < FwMaxSteps
  /\ fwTap[t] = "absent"
  /\ FwSet(t, "creating", "loose")
  /\ fwFiltered' = [fwFiltered EXCEPT ![t] = filtered]
  /\ fwSteps' = fwSteps + 1
  /\ UNCHANGED <<fwHost, fwEgress>>

\* A fork is restored on its loose TAP and runs before it is re-homed.
FwForkRestored(t) ==
  /\ fwPhase = "up" /\ fwGuest[t] = "creating" /\ fwTap[t] = "loose"
  /\ FwSet(t, "forking", "loose")
  /\ UNCHANGED <<fwHost, fwEgress, fwFiltered, fwSteps>>

FwHasPolicy(t) == \A c \in FwChains : fwEgress[c][t] # <<>>

FwApplyPolicy(t) ==
  /\ fwPhase \in {"up", "restore"} /\ fwFiltered[t]
  /\ \/ fwGuest[t] \in {"creating", "forking"} /\ fwTap[t] = "loose"
     \/ fwGuest[t] \in {"suspended", "resuming"}
  /\ fwEgress' = [c \in FwChains |-> FwPinned(fwEgress[c], t)]
  /\ fwGuest' = [fwGuest EXCEPT ![t] = IF @ = "suspended" THEN "resuming" ELSE @]
  /\ UNCHANGED <<fwHost, fwTap, fwFiltered, fwSteps>>

\* Mutant: the TAP joins the bridge before its policy is pinned.
FwMayAttachUnpinned(t) == TRUE

\* Every caller applies the policy first, and returns if that fails.
FwMayAttach(t) == fwFiltered[t] => FwHasPolicy(t)

FwAttach(t) ==
  /\ fwPhase \in {"up", "restore"} /\ fwBridge /\ fwTap[t] # "absent" /\ FwMayAttach(t)
  /\ fwGuest[t] \in {"creating", "forking", "resuming"}
     \/ (fwGuest[t] = "suspended" /\ ~fwFiltered[t])
  /\ FwSet(t, CASE fwGuest[t] = "creating" -> "wired"
                [] fwGuest[t] = "forking" -> "running"
                [] fwPhase = "restore" -> "suspended"
                [] OTHER -> "waking", "attached")
  /\ UNCHANGED <<fwHost, fwEgress, fwFiltered, fwSteps>>

\* create_vm boots the wired guest; resume restores the snapshot.
FwRuns(t) ==
  /\ fwPhase = "up" /\ fwGuest[t] \in {"wired", "waking"}
  /\ FwSet(t, "running", fwTap[t])
  /\ UNCHANGED <<fwHost, fwEgress, fwFiltered, fwSteps>>

\* Suspending kills the VMM and keeps the TAP, its rules and its address.
FwSuspend(t) ==
  /\ fwPhase = "up" /\ fwGuest[t] = "running" /\ fwSteps < FwMaxSteps
  /\ FwSet(t, "suspended", fwTap[t])
  /\ fwSteps' = fwSteps + 1
  /\ UNCHANGED <<fwHost, fwEgress, fwFiltered>>

\* Rollback, destroy, stop and reclaim first prove the VMM gone.
FwKill(t) ==
  /\ fwPhase = "up"
  /\ fwGuest[t] \in {"creating", "forking", "wired", "running", "suspended",
                     "resuming", "waking", "orphan"}
  /\ FwSet(t, "dead", fwTap[t])
  /\ UNCHANGED <<fwHost, fwEgress, fwFiltered, fwSteps>>

\* remove_tap_host_resources: the egress rules one by one, then the TAP.  All
\* of it is attempted, and the owner is kept for a retry unless all succeeded.
FwRemove(t, kept, tapStays) ==
  /\ fwPhase = "up" /\ fwGuest[t] = "dead"
  /\ fwEgress' = [c \in FwChains |-> IF c \in kept THEN fwEgress[c]
                                     ELSE FwWithout(fwEgress[c], t)]
  /\ LET gone == ~tapStays /\ \A c \in FwChains : fwEgress'[c][t] = <<>> IN
     FwSet(t, IF gone THEN "none" ELSE "dead", IF tapStays THEN fwTap[t] ELSE "absent")
  /\ UNCHANGED <<fwHost, fwFiltered, fwSteps>>

(***************************************************************************)
(* The daemon.                                                              *)
(***************************************************************************)

\* A crash leaves every kernel resource, and the VMMs, as they are.
FwCrash ==
  /\ fwPhase # "down" /\ fwSteps < FwMaxSteps
  /\ fwPhase' = "down" /\ fwSteps' = fwSteps + 1
  /\ fwGuest' = [t \in FwTaps |->
       CASE fwGuest[t] \in {"running", "forking", "wired", "orphan"} -> "orphan"
         [] fwGuest[t] \in {"suspended", "resuming", "waking"} -> "suspended"
         [] fwGuest[t] = "none" -> "none"
         [] OTHER -> "dead"]
  /\ UNCHANGED <<fwIsolated, fwBridge, fwIp, fwEgress, fwTap, fwFiltered, fwBared>>

\* The host reboots: only the snapshots of suspended VMs survive.
FwReboot ==
  /\ fwPhase = "down" /\ fwBridge /\ fwSteps < FwMaxSteps
  /\ fwSteps' = fwSteps + 1
  /\ fwBridge' = FALSE /\ fwBared' = FALSE /\ fwIp' = FwNoChains /\ fwEgress' = FwNoEgress
  /\ fwTap' = [t \in FwTaps |-> "absent"]
  /\ fwGuest' = [t \in FwTaps |-> IF fwGuest[t] \in {"suspended", "none"}
                                  THEN fwGuest[t] ELSE "dead"]
  /\ UNCHANGED <<fwPhase, fwIsolated, fwFiltered>>

\* reconcile_host_resources: the TAPs of rows that are not suspended.  One that
\* an orphan still holds open may refuse, and one that only a creation lease
\* names is left to the recovery of the lease.
FwReconcile(busy) ==
  /\ fwPhase = "down" /\ busy \subseteq {t \in FwTaps : fwGuest[t] \in {"orphan", "dead"}}
  /\ fwPhase' = "reconcile"
  /\ fwTap' = [t \in FwTaps |-> IF fwGuest[t] \in {"suspended"} \/ t \in busy
                                THEN fwTap[t] ELSE "absent"]
  /\ UNCHANGED <<fwIsolated, fwBridge, fwIp, fwEgress, fwGuest, fwFiltered, fwSteps, fwBared>>

FwLoosened == [t \in FwTaps |-> IF fwTap[t] = "attached" THEN "loose" ELSE fwTap[t]]

\* delete_bridge of a stale bridge, then create_bridge.
FwCreateBridge ==
  /\ fwPhase = "reconcile"
  /\ fwPhase' = "bridge" /\ fwBridge' = TRUE /\ fwTap' = FwLoosened /\ fwBared' = FALSE
  /\ UNCHANGED <<fwIsolated, fwIp, fwEgress, fwGuest, fwFiltered, fwSteps>>

\* init_nat deletes and recreates both tables, isolation rules first.
FwInitNat ==
  /\ fwPhase = "bridge"
  /\ fwPhase' = "restore"
  /\ fwIp' = FwIpRules(fwIsolated)
  /\ fwEgress' = FwNoEgress
  /\ UNCHANGED <<fwIsolated, fwBridge, fwTap, fwGuest, fwFiltered, fwSteps, fwBared>>

\* restore_suspended_vm_network recreates a TAP that is gone.
FwRecreateTap(t) ==
  /\ fwPhase \in {"restore", "up"} /\ fwGuest[t] \in {"suspended", "resuming"}
  /\ fwTap[t] = "absent" /\ FwMayAttach(t)
  /\ FwSet(t, "resuming", "loose")
  /\ UNCHANGED <<fwHost, fwEgress, fwFiltered, fwSteps>>

\* Ingress opens whether or not every suspended network could be restored;
\* a half-restored one is suspended again until its resume retries.
FwServe ==
  /\ fwPhase = "restore"
  /\ fwPhase' = "up"
  /\ fwGuest' = [t \in FwTaps |-> IF fwGuest[t] = "resuming" THEN "suspended"
                                  ELSE fwGuest[t]]
  /\ UNCHANGED <<fwIsolated, fwBridge, fwIp, fwEgress, fwTap, fwFiltered, fwSteps, fwBared>>

\* Shutdown drains the VMs; cleanup_nat runs before delete_bridge.
FwCleanupNat ==
  /\ fwPhase = "up" /\ \A t \in FwTaps : fwGuest[t] \in {"none", "suspended", "running", "dead"}
  /\ fwPhase' = "closing" /\ fwBared' = TRUE
  /\ fwIp' = FwNoChains /\ fwEgress' = FwNoEgress
  /\ UNCHANGED <<fwIsolated, fwBridge, fwTap, fwGuest, fwFiltered, fwSteps>>

FwDeleteBridge ==
  /\ fwPhase = "closing"
  /\ fwPhase' = "down" /\ fwBridge' = FALSE /\ fwTap' = FwLoosened /\ fwBared' = FALSE
  /\ fwGuest' = [t \in FwTaps |-> IF fwGuest[t] = "running" THEN "orphan" ELSE fwGuest[t]]
  /\ UNCHANGED <<fwIsolated, fwIp, fwEgress, fwFiltered, fwSteps>>

FwNext ==
  \/ \E t \in FwTaps :
       \/ \E b \in BOOLEAN : FwCreateTap(t, b)
       \/ FwForkRestored(t) \/ FwApplyPolicy(t) \/ FwAttach(t) \/ FwRuns(t)
       \/ FwSuspend(t) \/ FwKill(t) \/ FwRecreateTap(t)
       \/ \E kept \in SUBSET FwChains, b \in BOOLEAN : FwRemove(t, kept, b)
  \/ FwCrash \/ FwReboot \/ FwCreateBridge \/ FwInitNat \/ FwServe
  \/ FwCleanupNat \/ FwDeleteBridge
  \/ \E busy \in SUBSET FwTaps : FwReconcile(busy)

FwLive(t) == fwGuest[t] \in {"running", "forking", "waking", "wired", "orphan"}

FwPermitted(t) ==
  IF fwFiltered[t] THEN {"arp", "resolver", "listed"}
  ELSE IF fwIsolated THEN FwPackets \ {"listed", "lan", "host"}
  ELSE FwPackets

\* Until the shutdown takes the tables down, a live guest that is attached to
\* the bridge gets out exactly what its network mode promises (a filtered one
\* its gateway, its resolvers and its pinned destinations, also under daemon
\* isolation; a plain one everything isolation leaves), whatever crash,
\* restart, reboot, failed removal or reuse of a TAP name came before.
FwContained ==
  ~fwBared =>
    \A t \in FwTaps : FwLive(t) /\ fwTap[t] = "attached" =>
      {p \in FwPackets : FwPasses(t, p)} = FwPermitted(t)
=============================================================================
