\* Two jobs of half the budget with a worker slot each, without failing calls.
CONSTANTS
    Vms = {v1, v2}
    Names = {j1, j2}
    NoName = NoName
    Hosts = {h1}
    NoIdentity = NoIdentity
    Bases = {}
    MaxCid = 6
    MaxBoot = 0
    Jobs = {j1, j2}
    Keys = {k1, k2}
    Specs = {"unit"}
    NoVm = NoVm
    Receipts = {"m1"}
    NoReceipt = NoReceipt
    Outcomes = {"completed"}
    Deadlines = {1}
    Horizon = 0
    Resources = {"memory"}
    Charge <- UnitCharge
    Budget <- UnitBudget
    MaxJobs = 2
    MaxReceipts = 2
    MaxRetained = 2
    MaxFaults = 0
    MaxCrashes = 0
    WorkerSlots = 2
    OtherWorkers = 0
SYMMETRY Symmetry
SPECIFICATION FactorySpec
INVARIANT JobsKeptApart
CHECK_DEADLOCK FALSE
