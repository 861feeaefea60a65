SPECIFICATION Spec
CONSTANTS
    deliver = deliver
    submit1 = submit1
    submit2 = submit2
    poll = poll
    reconcile = reconcile
    service = service
    Calls = {deliver, submit1, submit2, poll, reconcile}
    Kind <- MCKind
    OwnerOf <- ReadersShare
    NoOwner = NoOwner
    Once = {}
    Unreliable = {deliver, submit1, submit2, poll, reconcile}
    RunStatuses = {"completed", "waiting"}
    WorkerEnds = {"failed"}
    Overlap = FALSE
    Faults = {"stall", "kill", "reject"}
    MaxQsub = 2
SYMMETRY SubmitSymmetry
INVARIANTS AtMostOneQsub OutcomeHasEvidence
CHECK_DEADLOCK FALSE
