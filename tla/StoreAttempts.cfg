SPECIFICATION Spec
CONSTANTS
    j1 = j1
    j2 = j2
    host = host
    pool = pool
    Owners = {o1, o2}
    NoOwner = NoOwner
    Jobs = {j1}
    Legacy = {}
    Groups = {host, pool}
    GroupsOf <- MCGroupsOf
    Capacity <- MCCapacity
    NeedsReservation = {j1}
    Unmeasured = {}
    Rank <- MCRank
    WindowFactor = 1
    RetryDelays = {1}
    TTL = 3
    LockWait = 1
    MaxFence = 3
    MaxAttempts = 2
SYMMETRY OwnerSymmetry
INVARIANTS TypeOK SingleFlight FenceOrder 
PROPERTIES EndsByClaimantOrExpiry
