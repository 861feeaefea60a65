SPECIFICATION FairSpec
CONSTANTS
    deliver = deliver
    submit1 = submit1
    submit2 = submit2
    poll = poll
    reconcile = reconcile
    service = service
    Calls = {deliver, submit1, submit2, reconcile}
    Kind <- MCKind
    OwnerOf <- SubmitOwner
    NoOwner = NoOwner
    Once = {submit1}
    Unreliable = {submit1}
    RunStatuses = {"completed", "failed"}
    WorkerEnds = {}
    Overlap = TRUE
    Faults = {}
    MaxQsub = 2
PROPERTIES AcceptedSettles
CHECK_DEADLOCK FALSE
