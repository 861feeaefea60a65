\* Each machine at a size of its own.
SPECIFICATION MCSpec
CONSTANTS
    Safety <- MCSafety
    Organizations <- MCOrganizations
    Task <- MCTask
    Estimate <- MCEstimate
    Snapshots <- MCSnapshots
    MaxStamp = 2
    Keys = {y1, y2, y3}
    Workloads <- MCWorkloads
    Offers <- MCOffers
    Actuals <- MCActuals
    MaxRevision = 4
    Handles = {h1}
    Processes = {p1}
    NoProcess = NoProcess
    MessageKeys = {x1, x2}
    Nobody = Nobody
    MaxFenceToken = 2
    MaxSeq = 2
    MaxRemembered = 3
    Agents <- MCAgents
    Jobs = {"j1", "j2", "j3"}
    Hosts = {"h1", "h2"}
    RemoteHosts = {"h1"}
    Pools = {"p1"}
    Models = {"m1", "m2"}
    Facts <- MCFacts
    Controls <- MCControls
    Inputs <- MCInputs
    MaxCycles = 1
    PlanInputs <- MCPlanInputs
    MaxLanes = 3
    Horizon = 3
    QuotaPools = {1, 2}
    SnapshotFiles <- QuotaReadings
    Lifetime = 1
    ReserveLevel = 1
    PilotAllowed = TRUE
    WatchPoll = 1
    PollWait = 1
    IdleBackoff = 1
    MaxWait = 4
    LastMoment = 4
    QuotaWindows = {1, 2}
    WindowLength <- MCWindowLength
    Cap = 2
    Reserved = 1
    ApiTTL = 0
    ConsoleTTL = 3
    RuntimeTTL = 1
    Attempts = {a1}
    Reports <- MCReports
    LastHour = 3
    IntakeJobs = {1, 2}
    AdapterOf <- MCAdapterOf
    DesktopPools = {"codex.spark"}
    IntakeHosts = {"mac", "srv"}
    Plans <- MCIntakePlans
    Bundles <- MCBundles
    WaveLanes = 2
    NoIntake = none
    LocalHosts = {"desk"}
    SshHosts = {"srv", "srv2"}
    CliRoutes = {"spark", "luna"}
    DesktopRoutes = {"spark"}
    ServerRoutes = {"spark"}
    Assignments <- MCAssignments
    Probes <- MCProbes
    Receipts <- MCReceipts
    Rewrites <- MCRewrites
    Ttl = 1
    MaxSkew = 0
    MaxTime = 3
    SkillCount = 5
    Indexes <- MCIndexes
    ReportedIndexes <- MCReportedIndexes
    Requests <- MCRequests
    OutcomeReports <- MCOutcomeReports
    MinObservations = 2
    IndexTtl = 1
    OutcomeTtl = 1
    LastDay = 2
    MaxOutcomes = 2
    MaxSources = 2
INVARIANTS
    PlanIsBestFit
    
    QueuedWorkWasReviewed
    
    SkillAnswersHold
PROPERTIES
    GrowthIsEarned
    PromisesFit
    ProjectionMovesForward
    FailureIsNotRepeated
    QuotaReturnsInTime
CHECK_DEADLOCK FALSE
