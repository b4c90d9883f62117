\* One job through every interleaving of its worker, cleanup ticks, clients,
\* two failing calls, two daemon exits and a host reboot.
CONSTANTS
    Vms = {v1}
    Names = {j1}
    NoName = NoName
    Hosts = {h1}
    NoIdentity = NoIdentity
    Bases = {}
    MaxCid = 6
    MaxBoot = 1
    Jobs = {j1}
    Keys = {"k"}
    Specs = {"unit"}
    NoVm = NoVm
    Receipts = {"m1", "m2"}
    NoReceipt = NoReceipt
    Outcomes = {"completed"}
    Deadlines = {1}
    Horizon = 1
    Resources = {"memory"}
    Charge <- UnitCharge
    Budget <- UnitBudget
    MaxJobs = 2
    MaxReceipts = 2
    MaxRetained = 2
    MaxFaults = 2
    MaxCrashes = 2
    WorkerSlots = 1
    OtherWorkers = 1
SPECIFICATION FactorySpec
INVARIANTS ProcessIsOwned ReceiptSound ReleasedMeansGone
    OwnedUntilProven ExecutedOnce ExecutionHasWorker
PROPERTY StagedReceiptKept
CHECK_DEADLOCK FALSE
