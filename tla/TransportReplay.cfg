SPECIFICATION TSpec
CONSTANTS
    j1 = j1
    j2 = j2
    host = host
    pool = pool
    Owners = {o1, o2}
    NoOwner = NoOwner
    Jobs = {j1}
    Legacy = {}
    Groups = {host, pool}
    GroupsOf <- MCGroupsOf
    Capacity <- MCCapacity
    NeedsReservation = {j1}
    Unmeasured = {}
    Rank <- MCRank
    WindowFactor = 1
    RetryDelays = {1}
    TTL = 1
    LockWait = 0
    MaxFence = 2
    MaxAttempts = 2
    Packets = {p1, p2}
    NoPacket = NoPacket
    Digests = {r1, r2}
    NoDigest = NoDigest
SYMMETRY TransportSymmetry
INVARIANTS PromotedAgrees
