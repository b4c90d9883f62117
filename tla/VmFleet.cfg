SPECIFICATION Spec
CONSTANTS
    v1 = v1
    v2 = v2
    v3 = v3
    a = a
    b = b
    p1 = p1
    none = none
    Vms = {v1, v2}
    NoVm = none
    Names = {a, b}
    Ports = {p1}
    First = v1
    AutoResume = {v1, v2}
    Scripted = {v1}
    Supervised = TRUE
    Menus <- MCMenus
    MaxCalls = 3
    MaxCrashes = 1
    MaxFaults = 1
    MaxSessions = 1
INVARIANTS
    SoleVmm
    SuspendedResumable
    RowHasItsDisk
    NoDeafPort
    GuestIsWired
    RunningScriptOwned
PROPERTIES
    SourceDiskSafe
CHECK_DEADLOCK FALSE
