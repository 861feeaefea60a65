\* Each machine at a size of its own.
SPECIFICATION MCSpec
CONSTANTS
    Owners = {o1, o2}
    NoOwner = NoOwner
    Identities = {i1}
    NoIdentity = NoIdentity
    Attempts = {a1}
    Digests = {d1, d2}
    NoDigest = NoDigest
    Requests = {r1}
    Paths = {q1}
    NoPath = NoPath
    MaxFence = 2
    MaxSequence = 1
    MaxCheckpoints = 2
    SpoolWorkers = {w1, w2}
    Packets = {k1}
    NoPacket = NoPacket
    Artifacts = {f1}
    MaxClaims = 2
    Verified = FALSE
    Packs = {"j1", "j2", "j3"}
    Needs <- MCNeeds
    Legs <- MCLegs
    Preexisting = {"j1"}
    Names = {"a", "b"}
    Versions = {1, 2}
    Depends <- MCDepends
    MaxGenerations = 3
    CatalogNames = {1, 2, 3}
    CatalogVersions = {1, 2}
    Manifests <- MCManifests
    RootSets <- MCRoots
    WrittenKinds <- MCKinds
    MaxEvents = 5
    MaxLines = 10
    Candidates <- MCCandidates
    Ram <- MCRam
    RamP90 <- MCRamP90
    Lanes = 2
    Readings <- MCReadings
    RecoverySamples = 2
    DegradeSamples = 1
    RemoteJobs = {r1}
    Approvals = {1, 3}
    Projection <- MCProjection
    Orchestrators = {o1, o2}
    NoHolder = none
    RowLimit = 2
    Files = 1
    MaxEpochs = 4
    MaxAttempts = 2
    AttemptBound = 3
    MaxRefusals = 1
    Commits = {"r", "a", "b", "h"}
    RootCommit = "r"
    ParentOf <- MCParentOf
    Reviews = {"pending", "approve"}
    ByHand = {"h"}
    Integrators = {o1, o2}
    SimJobs = {1, 2, 3}
    SimModels = {1, 2, 3, 4}
    Arrival <- MCArrival
    NeedsReview = {1}
    PoolOf <- MCPoolOf
    Cost <- MCCost
    WindowOf <- MCWindowOf
    Displayed = {1, 2}
    SimHosts = {"h1"}
    WorkersOf <- MCWorkersOf
    PressedHosts = {}
    CooldownLength = 2
    LeaseLength = 2
    Horizon = 3
    Amounts = {1, 2}
    Latencies = {0, 1}
    Waits = {1}
    MaxFaults = 1
INVARIANTS
    CheckpointChain
    RollbackReady
    ResolutionComplete
    AttemptsRunOnce
    NoTunnelLeftBehind
    OriginIsReviewed
    EveryJobAccounted
PROPERTIES
    SpoolEndsOnce
    PromotionBacked
    LanesFitTheReading
    ReceiptFollowsPreparation
CHECK_DEADLOCK FALSE
