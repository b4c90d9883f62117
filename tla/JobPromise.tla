----------------------------- MODULE JobPromise -----------------------------
(***************************************************************************)
(* What the factory promises a client about a job, without VMs, leases,    *)
(* clocks or tombstones: a job is taken once, may come to own host         *)
(* resources only while it is undecided, is decided once and for good,     *)
(* gives its resources back only after the decision, and is forgotten only *)
(* when it owns nothing.  (The contract behind docs/factory-jobs.md and    *)
(* the journal of crates/husker-state/src/jobs.rs.)                        *)
(***************************************************************************)

CONSTANTS
    Jobs,
    Results,    \* outcomes that report what the command did
    Failures    \* outcomes that report that the host gave up

VARIABLES
    promise,    \* "none", "accepted", an outcome, or "forgotten"
    holding     \* jobs that may own a VM

promiseVars == <<promise, holding>>

PromiseInit ==
    /\ promise = [j \in Jobs |-> "none"]
    /\ holding = {}

Accept(j) ==
    /\ promise[j] = "none"
    /\ promise' = [promise EXCEPT ![j] = "accepted"]
    /\ UNCHANGED holding

Acquire(j) ==
    /\ promise[j] = "accepted"
    /\ holding' = holding \cup {j}
    /\ UNCHANGED promise

\* A command result needs a VM to have come from.
Decide(j, o) ==
    /\ promise[j] = "accepted"
    /\ o \in Results => j \in holding
    /\ promise' = [promise EXCEPT ![j] = o]
    /\ UNCHANGED holding

Release(j) ==
    /\ promise[j] \in Results \cup Failures
    /\ holding' = holding \ {j}
    /\ UNCHANGED promise

Forget(j) ==
    /\ promise[j] \in Results \cup Failures
    /\ j \notin holding
    /\ promise' = [promise EXCEPT ![j] = "forgotten"]
    /\ UNCHANGED holding

PromiseNext ==
    \E j \in Jobs :
        \/ Accept(j) \/ Acquire(j) \/ Release(j) \/ Forget(j)
        \/ \E o \in Results \cup Failures : Decide(j, o)

PromiseSpec == PromiseInit /\ [][PromiseNext]_promiseVars
=============================================================================
