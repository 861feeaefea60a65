SPECIFICATION CSpec
CONSTANTS
    j1 = j1
    j2 = j2
    host = host
    w1 = w1
    w2 = w2
    w3 = w3
    e = e
    AnyModes = {"run", "resume"}
    AttemptsListed = 2
    Owners = {w1, w2}
    NoOwner = NoOwner
    Jobs = {j1, j2}
    Legacy = {}
    Groups = {host}
    GroupsOf <- MCGroupsOf
    Capacity <- MCCapacity
    NeedsReservation = {j1, j2}
    Unmeasured = {}
    Rank <- MCRank
    WindowFactor = 1
    RetryDelays = {1}
    TTL = 2
    LockWait = 0
    MaxFence = 2
    MaxAttempts = 2
    Procs = {w1, w2}
    NoProc = NoProc
    OwnerOf <- MCOwnerOf
    Modes <- MCModes
    Durable = {}
    Target <- MCTarget
    Preloaded = {j1, j2}
    MaxLanes = 1
    PacketLen <- MCPacketLen
    PidPath <- OwnPidPath
    PidFiles <- OwnPidFiles
    Punctual = FALSE
    Crashes = {w1, w2}
SYMMETRY ProcSymmetry
INVARIANTS AtMostOneLiveChild 
PROPERTIES CompletionIsFinal
CHECK_DEADLOCK FALSE
