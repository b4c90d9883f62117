\* Every component that stands on its own, each with bounds of its own.
SPECIFICATION Spec
CONSTANTS
    SesReplayIds = {"r", "s"}
    SesPlainIds = {"p"}
    SesSpecs = {"x", "y"}
    SesMaxStarts = 2
    SesMaxCrashes = 1
    SesMaxRunning = 1
    SesMaxSessions = 2
    SesMaxReceipts = 1
    JobCommands = 2
    JobArtifacts = 1
    JobMaxRuns = 2
    LnkMaxEdits = 1
    LnkMaxBoots = 2
    LnkMaxCalls = 1
    LnkInPlace = FALSE
    AgcVersions = {1, 2, 4, 5, 6, 7}
    AgcChunks = 2
    AgcMaxCalls = 2
    VzConfigs <- MCConfigs
    VzMaxCalls = 2
    WkrMaxDestroys = 2
    WkrStreamSlots = 1
    QmRequests <- MCRequests
    QmShares = 2
    QmMaxCalls = 5
    SerLimit = 8
    SerMarkerMax = 2
    SerMarkerLen = 2
    SerChunk = 2
    SerAnchor = 2
    SerMaxOutput = 10
    SerMaxBoots = 2
    RlySlots = 2
    RlyDrainCap = 2
    RlyBacklog = 3
    RlyMaxClients = 5
    FwTaps = {"t1", "t2"}
    FwMaxSteps = 4
    HaVms = {"v1", "v2"}
    HaMaxIndex = 2
    HaMaxAllocs = 4
    HaMaxCrashes = 2
    ImgNames = {"a", "b"}
    ImgVms = {"v"}
    ImgSources <- MCSources
    ImgMaxOps = 3
    ImgMaxCrashes = 1
    OciLayers <- MCLayers
    OciMaxLayers = 3
    OciDownload = 4
    OciUnpacked = 5
    MacProcs = {"p", "q"}
    MacNames = {"a", "b"}
    MacSize = 1
    MacMaxOps = 3
    MacMaxKills = 1
    MacMaxVms = 1
    SvcOrdinals = 2
    SvcCallers = {"a", "b"}
    SvcMaxOps = 2
    SvcMaxEvents = 1
    StoCallers = {"a", "b"}
    StoMaxOps = 3
    StoMaxCrashes = 1
    SchProcs = {"p", "q"}
    SchBaseline = 1
    SchBoot = 3
    SchTop = 6
    SchStatements = 2
    SchMaxCrashes = 2
    ApClients = {"a"}
    ApNames = {"vm"}
    ApLimit = 1
    ApWindow = 2
    ApGrace = 1
    ApMaxVms = 1
    ApMaxTime = 5
    ApMaxRequests = 2
    CmdLimitTries = 3
    CmdMaxPolls = 2
    StmChunks = 2
    StmSocket = 1
    StmQueue = 2
    StmMaxRead = 2
    StmMaxFile = 4
    MonTasks = {"a", "b"}
    MonMaxStarts = 2
    MonMaxGens = 2
    MonMaxFails = 2
    MonMaxPauses = 1
    JbOptions <- MCJobs
    JbChunks = 2
    JbLimitTries = 2
    JbCleanupTries = 3
    JbMaxRivals = 2
    FrzSource = {"a", ".env"}
    FrzLate = {"b"}
    FrzExcluded = {".env"}
    FrzBudget = 3
    FrzMaxEdits = 2
    FrzMaxRuns = 1
INVARIANTS
    SesReplayOnce
    JobEvidenceSound
    AgentLinkExact
    VzOwnedUntilStopped
    QmProcessesReachable
    SerFollowsStream
    NetGuarded
    ImagesSound
    OrchestrationSound
    ApiSound
    CliSound
CHECK_DEADLOCK FALSE
