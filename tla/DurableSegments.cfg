\* Two processes with owner ids of their own, two epochs, two segments.
SPECIFICATION Spec
CONSTANTS
    o1 = o1
    o2 = o2
    p1 = p1
    p2 = p2
    i1 = i1
    i2 = i2
    Owners = {o1, o2}
    NoOwner = NoOwner
    Identities = {i1, i2}
    NoIdentity = NoIdentity
    Attempts = {a1}
    Digests = {}
    NoDigest = NoDigest
    Requests = {}
    Paths = {}
    NoPath = NoPath
    MaxFence = 2
    MaxSequence = 2
    MaxCheckpoints = 0
    Procs = {p1, p2}
    OwnerOf <- MCOwnerOf
    Overlap = FALSE
INVARIANTS
    SubmittedOnce
    SupervisorKnowsSegment
PROPERTY
    ImplementsSegments
SYMMETRY Symmetry
CHECK_DEADLOCK FALSE
