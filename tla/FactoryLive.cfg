\* One job under fairness, with one failing call, one daemon exit and one
\* reboot.
CONSTANTS
    Vms = {v1}
    Names = {j1}
    NoName = NoName
    Hosts = {h1}
    NoIdentity = NoIdentity
    Bases = {}
    MaxCid = 6
    MaxBoot = 1
    Jobs = {j1}
    Keys = {"k"}
    Specs = {"unit"}
    NoVm = NoVm
    Receipts = {"m1"}
    NoReceipt = NoReceipt
    Outcomes = {"completed"}
    Deadlines = {1}
    Horizon = 1
    Resources = {"memory"}
    Charge <- UnitCharge
    Budget <- UnitBudget
    MaxJobs = 2
    MaxReceipts = 2
    MaxRetained = 2
    MaxFaults = 1
    MaxCrashes = 1
    WorkerSlots = 1
    OtherWorkers = 1
SPECIFICATION FairFactorySpec
PROPERTIES EveryJobDecided CleanupCompletes
CHECK_DEADLOCK FALSE
