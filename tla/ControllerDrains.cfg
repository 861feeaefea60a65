SPECIFICATION FairSpec
CONSTANTS
    j1 = j1
    j2 = j2
    host = host
    w1 = w1
    w2 = w2
    w3 = w3
    e = e
    AnyModes = {"run", "enqueue"}
    AttemptsListed = 2
    Owners = {w1, w2, e}
    NoOwner = NoOwner
    Jobs = {j1, j2}
    Legacy = {}
    Groups = {host}
    GroupsOf <- MCGroupsOf
    Capacity <- MCCapacity
    NeedsReservation = {j1}
    Unmeasured = {}
    Rank <- MCRank
    WindowFactor = 1
    RetryDelays = {1}
    TTL = 2
    LockWait = 0
    MaxFence = 3
    MaxAttempts = 2
    Procs = {w1, w2, e}
    NoProc = NoProc
    OwnerOf <- MCOwnerOf
    Modes <- MCModes
    Durable = {w1}
    Target <- MCTarget
    Preloaded = {j1}
    MaxLanes = 1
    PacketLen <- MCPacketLen
    PidPath <- OwnPidPath
    PidFiles <- OwnPidFiles
    Punctual = TRUE
    Crashes = {}
PROPERTIES QueueDrains
CHECK_DEADLOCK FALSE
