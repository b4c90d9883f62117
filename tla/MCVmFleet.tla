----------------------------- MODULE MCVmFleet ------------------------------
EXTENDS VmFleet
CONSTANTS v1, v2, v3, a, b, p1, none

\* Workloads: calls and events that meet in one behaviour.
MCMenus == {
    {"suspend", "resume", "stop", "pause", "userdata", "exit", "crash"},
    {"destroy", "create", "forward", "connect", "crash"},
    {"suspend", "resume", "forward", "reforward", "unforward", "connect", "crash"},
    {"suspend", "destroy", "create", "fork", "crash"},
    {"suspend", "resume", "fork", "crash"},
    {"idle", "connect", "destroy", "stop", "create"},
    {"suspend", "stop", "create", "reclaim", "drain"},
    {"suspend", "resume", "probe", "stop", "exit", "reclaim"}}

\* The workloads of the runs that expect a violation.
ProbeMenus == {{"probe", "suspend", "resume"}}
ForkMenus  == {{"fork"}}
PortMenus  == {{"reforward"}}
=============================================================================
