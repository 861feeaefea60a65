SPECIFICATION CSpec
CONSTANTS
    j1 = j1
    j2 = j2
    host = host
    w1 = w1
    w2 = w2
    w3 = w3
    e = e
    AnyModes = {"run", "resume"}
    AttemptsListed = 3
    Owners = {w1, w2, w3}
    NoOwner = NoOwner
    Jobs = {j1}
    Legacy = {}
    Groups = {host}
    GroupsOf <- MCGroupsOf
    Capacity <- MCCapacity
    NeedsReservation = {j1}
    Unmeasured = {}
    Rank <- MCRank
    WindowFactor = 1
    RetryDelays = {1}
    TTL = 2
    LockWait = 0
    MaxFence = 3
    MaxAttempts = 3
    Procs = {w1, w2, w3}
    NoProc = NoProc
    OwnerOf <- MCOwnerOf
    Modes <- MCModes
    Durable = {}
    Target <- MCTarget
    Preloaded = {j1}
    MaxLanes = 1
    PacketLen <- MCPacketLen
    PidPath <- JobPidPath
    PidFiles <- JobPidFiles
    Punctual = FALSE
    Crashes = {w1, w2, w3}
SYMMETRY ProcSymmetry
INVARIANTS AtMostOneLiveChild
CHECK_DEADLOCK FALSE
