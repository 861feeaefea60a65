--------------------------- MODULE TransportStore ---------------------------
(***************************************************************************)
(* The transport outbox of the SQLite ledger (table transport_outbox of     *)
(* scripts/sqlite_store.py) on top of DispatchStore: a remote job is queued *)
(* together with a metadata envelope, the envelope's row may be bound to    *)
(* the attempt that executes the job, remote receipts are recorded in the   *)
(* row, and a terminal receipt of a bound row may finish the attempt in the *)
(* same transaction (lifecycle promotion).                                  *)
(*                                                                          *)
(* Every job is a remote one: it enters through enqueue_remote only.  A     *)
(* packet is the approved payload of a job; its envelope has the request id *)
(* job_id:attempt_id of the packet's first attempt, so a row is keyed by    *)
(* job and packet.                                                          *)
(***************************************************************************)
EXTENDS DispatchStore

CONSTANTS
    Packets,    \* the packets a job may be queued with
    NoPacket,   \* a job that is not queued yet has none
    Digests,    \* digests that tell terminal receipts apart
    NoDigest    \* a row without a terminal receipt has none

ASSUME TransportAssumption ==
    /\ NoPacket \notin Packets
    /\ NoDigest \notin Digests

VARIABLES
    packet,     \* the payload column of a job, as far as it names a packet
    outbox,     \* table transport_outbox
    reported    \* the outcome whose promotion was last reported to the caller

transportVars == <<packet, outbox, reported>>
tvars == <<vars, transportVars>>

Terminal == {"completed", "failed"}

OutboxRow == [status : {"none", "pending", "accepted"} \cup Terminal,
              digest : Digests \cup {NoDigest},
              attempt : 0..MaxAttempts]
NoRow == [status |-> "none", digest |-> NoDigest, attempt |-> 0]

TInit ==
    /\ Init
    /\ packet = [j \in Jobs |-> NoPacket]
    /\ outbox = [j \in Jobs |-> [p \in Packets |-> NoRow]]
    /\ reported = [j \in Jobs |-> [p \in Packets |-> "none"]]

-----------------------------------------------------------------------------
(* Ingress *)

\* _enqueue_transport_tx: the row of a new envelope.
EnqueuedRow == [NoRow EXCEPT !.status = "pending"]

\* enqueue_remote of a job that does not exist: create_job inserts the job and
\* the envelope in one transaction, and requires a controller fence.  For a
\* job that exists, create_job returns the row or raises JobConflict.
CreateRemoteJob(j, p, o, f, d) ==
    /\ HoldsLease(o, f, d)
    /\ CreateJob(j)
    /\ packet' = [packet EXCEPT ![j] = p]
    /\ outbox' = [outbox EXCEPT ![j][p] = EnqueuedRow]
    /\ UNCHANGED reported

\* enqueue_remote of a failed or blocked job: enqueue takes its requeue_job
\* branch, which has no transport_envelope parameter.
RequeueRemoteJob(j, p, o, f, d) ==
    /\ jobs[j].status \in {"failed", "blocked"}
    /\ RequeueJob(j, o, f, d)
    /\ packet' = [packet EXCEPT ![j] = p]
    /\ UNCHANGED <<outbox, reported>>

-----------------------------------------------------------------------------
(* Binding and receipts *)

\* bind_transport_attempt: the caller owns the running attempt n, and the row
\* is not bound to another one.
BindTransportAttempt(j, p, n, o, f, d) ==
    /\ HoldsLease(o, f, d)
    /\ outbox[j][p].status # "none"
    /\ outbox[j][p].attempt \in {0, n}
    /\ Claimed(j, n, o, f)
    /\ outbox' = [outbox EXCEPT ![j][p].attempt = n]
    /\ UNCHANGED <<vars, packet, reported>>

\* _record_transport_receipt_tx: a terminal receipt stands, and only its exact
\* replay is accepted after it.
Recordable(row, status, digest) ==
    /\ row.status # "none"
    /\ row.status \in Terminal => row.status = status /\ row.digest = digest

Recorded(row, status, digest) ==
    [row EXCEPT !.status = status, !.digest = digest]

\* record_transport_receipt: the transport-only path.
RecordTransportReceipt(j, p, status, digest, o, f, d) ==
    /\ HoldsLease(o, f, d)
    /\ Recordable(outbox[j][p], status, digest)
    /\ outbox' = [outbox EXCEPT ![j][p] = Recorded(@, status, digest)]
    /\ UNCHANGED <<vars, packet, reported>>

\* The replay branch of record_transport_receipt_and_complete: the bound
\* attempt has ended, and the job has the same status.
MutSettled(j, n) ==                       \* mutant: any attempt that has ended
    attempts[j][n].status # "running"
Settled(j, n) ==
    /\ attempts[j][n].status \in {"completed", "failed", "retry"}
    /\ jobs[j].status = attempts[j][n].status

\* Its other branch: the caller's own running attempt ends with the receipt.
MutPromoted(j, n, o, f, d, status) ==     \* mutant: any lease holder promotes
    /\ HoldsLease(o, f, d)
    /\ jobs[j].status = "running"
    /\ attempts' = [attempts EXCEPT ![j][n] = EndedAttempt(attempts[j][n], status)]
    /\ jobs' = [jobs EXCEPT ![j] = Unclaimed(jobs[j], status, Null)]
    /\ reservations' =
          [reservations EXCEPT ![j] = OwnReleasedRow(reservations[j], o, f)]
    /\ UNCHANGED lease
Promoted(j, n, o, f, d, status) ==
    CompleteJob(j, n, o, f, d, status, Null)

\* record_transport_receipt_and_complete: receipt and promotion commit
\* together; an attempt that was abandoned, or that runs under another fence,
\* makes both roll back.
RecordReceiptAndComplete(j, p, status, digest, o, f, d) ==
    /\ HoldsLease(o, f, d)
    /\ Recordable(outbox[j][p], status, digest)
    /\ outbox[j][p].attempt # 0
    /\ \/ Settled(j, outbox[j][p].attempt) /\ UNCHANGED vars
       \/ Promoted(j, outbox[j][p].attempt, o, f, d, status)
    /\ outbox' = [outbox EXCEPT ![j][p] = Recorded(@, status, digest)]
    /\ reported' = [reported EXCEPT ![j][p] = status]
    /\ UNCHANGED packet

-----------------------------------------------------------------------------
\* The store's transactions that do not touch the outbox.
StoreStep ==
    /\ \/ \E o \in Owners, f \in Fences, d \in Delays :
             \/ LeaseStep(o, f, d)
             \/ ScopeStep(o, f, d)
             \/ \E j \in Jobs : \/ ReservationStep(j, o, f, d)
                                \/ ClaimStep(j, o, f, d)
                                \/ AttemptStep(j, o, f, d)
       \/ Tick
    /\ UNCHANGED transportVars

TransportStep(j, p, o, f, d) ==
    \/ CreateRemoteJob(j, p, o, f, d)
    \/ RequeueRemoteJob(j, p, o, f, d)
    \/ \E n \in AttemptNos : BindTransportAttempt(j, p, n, o, f, d)
    \/ RecordTransportReceipt(j, p, "accepted", NoDigest, o, f, d)
    \/ \E status \in Terminal, digest \in Digests :
          \/ RecordTransportReceipt(j, p, status, digest, o, f, d)
          \/ RecordReceiptAndComplete(j, p, status, digest, o, f, d)

TNext ==
    \/ StoreStep
    \/ \E j \in Jobs, p \in Packets, o \in Owners, f \in Fences, d \in Delays :
          TransportStep(j, p, o, f, d)

TSpec == TInit /\ [][TNext]_tvars

-----------------------------------------------------------------------------
(* Properties *)

\* The outbox's columns hold what the schema and the methods allow.
TTypeOK ==
    /\ packet \in [Jobs -> Packets \cup {NoPacket}]
    /\ outbox \in [Jobs -> [Packets -> OutboxRow]]
    /\ reported \in [Jobs -> [Packets -> Terminal \cup {"none"}]]

\* With the outbox the store still behaves as DispatchStore says: a promotion
\* is a completion by the attempt's own claimant and nothing else in the
\* transport changes a job (record_transport_receipt_and_complete).
ImplementsStore == Spec

\* A bound attempt has run for the job, and when a promotion has been reported
\* the row has that terminal receipt and the attempt an outcome its claimant
\* recorded: not an attempt that recovery abandoned, nor one still running.
PromotedHasOutcome ==
    \A j \in Jobs, p \in Packets :
        LET row == outbox[j][p]
        IN  /\ row.attempt # 0 => attempts[j][row.attempt].status # "none"
            /\ reported[j][p] # "none" =>
                  /\ row.status = reported[j][p]
                  /\ row.attempt # 0
                  /\ attempts[j][row.attempt].status
                        \in {"completed", "failed", "retry"}

\* A reported promotion has finished the bound attempt with the receipt's
\* outcome, as record_transport_receipt_and_complete's docstring has it.
PromotedAgrees ==
    \A j \in Jobs, p \in Packets :
        reported[j][p] # "none" =>
            attempts[j][outbox[j][p].attempt].status = reported[j][p]
=============================================================================
