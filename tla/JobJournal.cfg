\* Two jobs of two sizes, under one key or two, that compete for one generation:
\* claimed and decided jobs hold capacity, and a tombstone past its deadline is
\* purged by the submission of another key.
CONSTANTS
    Vms = {v1}
    Names = {j1, j2}
    NoName = NoName
    Hosts = {h1}
    NoIdentity = NoIdentity
    Bases = {}
    MaxCid = 6
    MaxBoot = 0
    Jobs = {j1, j2}
    Keys = {k1, k2}
    Specs = {"big", "small"}
    NoVm = NoVm
    Receipts = {"m1"}
    NoReceipt = NoReceipt
    Outcomes = {"completed", "cancelled"}
    Deadlines = {1, 2}
    Horizon = 1
    Resources = {"memory"}
    Charge <- SpecCharge
    Budget <- FactoryBudget
    MaxJobs = 2
    MaxReceipts = 3
    MaxRetained = 2
SYMMETRY Symmetry
SPECIFICATION JournalSpec
INVARIANTS TypeOK NoRerun WithinBudget ReleaseHasReceipt
    AbortIsFinal OneJobPerGeneration ResultIsHonest
PROPERTIES DecisionIsFinal KeepsPromise
CHECK_DEADLOCK FALSE
