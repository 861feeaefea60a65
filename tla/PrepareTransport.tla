-------------------------- MODULE PrepareTransport --------------------------
(***************************************************************************)
(* Preparing approved packets on a remote worker                            *)
(* (scripts/remote_prepare_orchestrator.py with the client of               *)
(* scripts/remote_worker_client.py, prepare_job of scripts/remote_worker.py *)
(* and the envelope store of scripts/remote_envelope.py): an orchestrator   *)
(* takes the controller lease, lists the pending rows of the outbox once,   *)
(* and for each row reads the job, prepares its packet over ssh, delivers   *)
(* the envelope over ssh and records the receipt under its lease.  Any ssh  *)
(* call may be lost, before or after it took effect, the lease may expire   *)
(* meanwhile, and the worker's own service may complete an envelope.  One   *)
(* target host.                                                             *)
(***************************************************************************)
EXTENDS Naturals, Sequences, FiniteSets

CONSTANTS
    RemoteJobs,     \* jobs enqueued with an envelope
    Approvals,       \* the packets a job may be approved with
    Projection,     \* what redaction and path mapping make of a packet
    Orchestrators,  \* runs of prepare_once, each with an owner id of its own
    NoHolder,         \* the lease has no live holder
    RowLimit,       \* max_items
    Files,          \* how many files the worker bundle has
    MaxEpochs       \* bound on the fence of the controller lease

VARIABLES
    held,       \* the controller lease: its live holder and its fence
    approved,   \* the packet in a job's payload, 0 before it is enqueued
    envelope,   \* the packet a job's envelope was built for
    jobStatus,  \* the job's status
    order,      \* the rows of the outbox, oldest first
    rowStatus,  \* the row's status
    bundle,  \* how many files of the bundle the host has
    prepared,   \* the worker: the projection a job was prepared with
    inbox,      \* the worker: the status of a received envelope's receipt
    pass        \* an orchestrator's place in its pass

transportVars == <<held, approved, envelope, jobStatus, order, rowStatus,
                   bundle, prepared, inbox, pass>>

Unprepared == "none"
Broken == "no manifest"     \* a job directory without a manifest

\* A projection is a digest, never the marker of a job that was not prepared.
ASSUME PrepareAssumption ==
    /\ NoHolder \notin Orchestrators
    /\ \A v \in Approvals : Projection[v] \notin {Unprepared, Broken}

NoPass == [at |-> "idle", fence |-> 0, rows |-> << >>, packet |-> 0, receipt |-> "none"]

TransportInit ==
    /\ held = [by |-> NoHolder, fence |-> 0]
    /\ approved = [j \in RemoteJobs |-> 0]
    /\ envelope = [j \in RemoteJobs |-> 0]
    /\ jobStatus = [j \in RemoteJobs |-> "none"]
    /\ order = << >>
    /\ rowStatus = [j \in RemoteJobs |-> "none"]
    /\ bundle = 0
    /\ prepared = [j \in RemoteJobs |-> Unprepared]
    /\ inbox = [j \in RemoteJobs |-> "none"]
    /\ pass = [o \in Orchestrators |-> NoPass]

controllerVars == <<approved, envelope, jobStatus, order>>
workerVars == <<bundle, prepared, inbox>>

-----------------------------------------------------------------------------
(* The controller lease *)

LeaseFree == held.by = NoHolder /\ held.fence < MaxEpochs

KeepsLease(o) == held.by = o /\ held.fence = pass[o].fence

\* Nothing renews the lease of a pass: it may run out at any time.
LeaseExpires ==
    /\ held.by # NoHolder
    /\ held' = [held EXCEPT !.by = NoHolder]
    /\ UNCHANGED <<controllerVars, rowStatus, workerVars, pass>>

\* Another controller takes the lease, changes a job and releases the lease.
ControllerTurn == LeaseFree /\ held' = [held EXCEPT !.fence = @ + 1]

\* enqueue_remote of a job that does not exist: the job and its envelope.
EnqueueRemote(j, v) ==
    /\ ControllerTurn
    /\ jobStatus[j] = "none"
    /\ approved' = [approved EXCEPT ![j] = v]
    /\ envelope' = [envelope EXCEPT ![j] = v]
    /\ jobStatus' = [jobStatus EXCEPT ![j] = "queued"]
    /\ order' = Append(order, j)
    /\ rowStatus' = [rowStatus EXCEPT ![j] = "pending"]
    /\ UNCHANGED <<workerVars, pass>>

\* enqueue_remote of a failed job requeues it and drops the new envelope.
Requeue(j, v) ==
    /\ ControllerTurn
    /\ jobStatus[j] = "failed"
    /\ approved' = [approved EXCEPT ![j] = v]
    /\ jobStatus' = [jobStatus EXCEPT ![j] = "queued"]
    /\ UNCHANGED <<envelope, order, rowStatus, workerVars, pass>>

\* The job fails or completes without the row (another attempt, an operator).
JobEnds(j, s) ==
    /\ ControllerTurn
    /\ jobStatus[j] = "queued"
    /\ jobStatus' = [jobStatus EXCEPT ![j] = s]
    /\ UNCHANGED <<approved, envelope, order, rowStatus, workerVars, pass>>

-----------------------------------------------------------------------------
(* The worker *)

\* bootstrap writes the files one by one and may be cut off after any of them.
Bootstrap ==
    /\ bundle < Files
    /\ bundle' \in (bundle + 1)..Files
    /\ UNCHANGED <<held, controllerVars, rowStatus, prepared, inbox, pass>>

BundleReady == bundle = Files

\* prepare_job: idempotent for the packet it holds, refuses any other.
PrepareAccepted(j, v) ==
    BundleReady /\ prepared[j] \in {Unprepared, Projection[v]}

\* The worker service completes an envelope it received.
CompleteEnvelope(j, s) ==
    /\ inbox[j] = "accepted"
    /\ inbox' = [inbox EXCEPT ![j] = s]
    /\ UNCHANGED <<held, controllerVars, rowStatus, bundle, prepared, pass>>

\* The reverse bridge delivers an envelope without a prepare.
ReverseReceive(j) ==
    /\ rowStatus[j] # "none"
    /\ inbox[j] = "none"
    /\ inbox' = [inbox EXCEPT ![j] = "accepted"]
    /\ UNCHANGED <<held, controllerVars, rowStatus, bundle, prepared, pass>>

-----------------------------------------------------------------------------
(* An orchestrator *)

Row(o) == Head(pass[o].rows)

Pending == SelectSeq(order, LAMBDA j : rowStatus[j] = "pending")

BeginPass(o) ==
    /\ pass[o].at = "idle"
    /\ LeaseFree
    /\ held' = [by |-> o, fence |-> held.fence + 1]
    /\ pass' = [pass EXCEPT ![o] =
                  [NoPass EXCEPT !.at = "read", !.fence = held.fence + 1,
                               !.rows = SubSeq(Pending, 1, IF Len(Pending) < RowLimit
                                                           THEN Len(Pending) ELSE RowLimit)]]
    /\ UNCHANGED <<controllerVars, rowStatus, workerVars>>

\* On to the next row, whatever became of this one.
NextRow(o) ==
    pass' = [pass EXCEPT ![o] = [@ EXCEPT !.at = "read", !.rows = Tail(@),
                                          !.packet = 0, !.receipt = "none"]]

\* The job must be open and its payload the packet the envelope was built for.
RowApproved(j) ==
    /\ jobStatus[j] \in {"queued", "running", "retry"}
    /\ approved[j] = envelope[j]

ReadJob(o) ==
    /\ pass[o].at = "read" /\ pass[o].rows # << >>
    /\ IF RowApproved(Row(o))
       THEN pass' = [pass EXCEPT ![o].at = "prepare", ![o].packet = approved[Row(o)]]
       ELSE NextRow(o)
    /\ UNCHANGED <<held, controllerVars, rowStatus, workerVars>>

\* The ssh prepare took effect and was answered with the digest of its projection.
Prepare(o) ==
    /\ pass[o].at = "prepare"
    /\ PrepareAccepted(Row(o), pass[o].packet)
    /\ prepared' = [prepared EXCEPT ![Row(o)] = Projection[pass[o].packet]]
    /\ pass' = [pass EXCEPT ![o].at = "receive"]
    /\ UNCHANGED <<held, controllerVars, rowStatus, bundle, inbox>>

\* It was refused, or lost: before its effect, after it, or between the job
\* directory and its manifest.
MutLostAnswer(o) ==
    /\ pass[o].at = "prepare"
    /\ UNCHANGED prepared
    /\ pass' = [pass EXCEPT ![o].at = "receive"]
    /\ UNCHANGED <<held, controllerVars, rowStatus, bundle, inbox>>

PrepareFails(o) ==
    /\ pass[o].at = "prepare"
    /\ \/ UNCHANGED prepared
       \/ /\ PrepareAccepted(Row(o), pass[o].packet)
          /\ prepared' = [prepared EXCEPT ![Row(o)] = Projection[pass[o].packet]]
       \/ /\ BundleReady /\ prepared[Row(o)] = Unprepared
          /\ prepared' = [prepared EXCEPT ![Row(o)] = Broken]
    /\ NextRow(o)
    /\ UNCHANGED <<held, controllerVars, rowStatus, bundle, inbox>>

\* envelope-receive: idempotent, and answered with the receipt as it stands.
Receive(o) ==
    /\ pass[o].at = "receive"
    /\ LET receipt == IF inbox[Row(o)] = "none" THEN "accepted" ELSE inbox[Row(o)]
       IN  /\ inbox' = [inbox EXCEPT ![Row(o)] = receipt]
           /\ pass' = [pass EXCEPT ![o].at = "record", ![o].receipt = receipt]
    /\ UNCHANGED <<held, controllerVars, rowStatus, bundle, prepared>>

ReceiveFails(o) ==
    /\ pass[o].at = "receive"
    /\ \/ UNCHANGED inbox
       \/ inbox' = [inbox EXCEPT ![Row(o)] = IF @ = "none" THEN "accepted" ELSE @]
    /\ NextRow(o)
    /\ UNCHANGED <<held, controllerVars, rowStatus, bundle, prepared>>

\* record_transport_receipt, under the lease and the fence of the pass: a
\* terminal row stays as it is.
MutRecord(o) ==
    /\ pass[o].at = "record"
    /\ rowStatus' = [rowStatus EXCEPT ![Row(o)] =
                       IF @ \in {"pending", "accepted"} THEN pass[o].receipt ELSE @]
    /\ NextRow(o)
    /\ UNCHANGED <<held, controllerVars, workerVars>>

RecordReceipt(o) ==
    /\ pass[o].at = "record"
    /\ rowStatus' = IF KeepsLease(o) /\ rowStatus[Row(o)] \in {"pending", "accepted"}
                    THEN [rowStatus EXCEPT ![Row(o)] = pass[o].receipt]
                    ELSE rowStatus
    /\ NextRow(o)
    /\ UNCHANGED <<held, controllerVars, workerVars>>

\* The pass is over, and the lease released if it is still the pass's own.
End(o) ==
    /\ pass[o].at = "read" /\ pass[o].rows = << >>
    /\ held' = IF KeepsLease(o) THEN [held EXCEPT !.by = NoHolder] ELSE held
    /\ pass' = [pass EXCEPT ![o] = NoPass]
    /\ UNCHANGED <<controllerVars, rowStatus, workerVars>>

\* The orchestrator's process dies anywhere in its pass.
Die(o) ==
    /\ pass[o].at # "idle"
    /\ pass' = [pass EXCEPT ![o] = NoPass]
    /\ UNCHANGED <<held, controllerVars, rowStatus, workerVars>>

TransportNext ==
    \/ LeaseExpires
    \/ Bootstrap
    \/ \E j \in RemoteJobs :
         \/ \E v \in Approvals : EnqueueRemote(j, v) \/ Requeue(j, v)
         \/ \E s \in {"completed", "failed"} : JobEnds(j, s) \/ CompleteEnvelope(j, s)
         \/ ReverseReceive(j)
    \/ \E o \in Orchestrators :
         BeginPass(o) \/ ReadJob(o) \/ Prepare(o) \/ PrepareFails(o) \/ Receive(o)
           \/ ReceiveFails(o) \/ RecordReceipt(o) \/ End(o) \/ Die(o)

TransportSpec == TransportInit /\ [][TransportNext]_transportVars

-----------------------------------------------------------------------------
\* A receipt enters the row of a job only while the worker holds exactly what
\* the packet approved at that moment projects to: neither a lost prepare, a
\* directory without a manifest, another orchestrator, nor a packet approved
\* while the ssh calls ran makes the ledger believe in a preparation that is
\* not the worker's (prepare_once).
ReceiptFollowsPreparation ==
    [][\A j \in RemoteJobs :
         (rowStatus[j] = "pending" /\ rowStatus'[j] # "pending")
            => prepared[j] = Projection[approved[j]]]_transportVars
=============================================================================
