SPECIFICATION Spec
CONSTANTS
    v1 = v1
    v2 = v2
    v3 = v3
    a = a
    b = b
    p1 = p1
    none = none
    Vms = {v1, v2}
    NoVm = none
    Names = {a, b}
    Ports = {p1}
    First = v1
    AutoResume = {v1, v2}
    Scripted = {v1}
    Supervised = TRUE
    Menus <- ProbeMenus
    MaxCalls = 3
    MaxCrashes = 0
    MaxFaults = 0
    MaxSessions = 1
INVARIANTS
    StoppedOwnsNothing
CHECK_DEADLOCK FALSE
