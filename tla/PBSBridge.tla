------------------------------ MODULE PBSBridge ------------------------------
(***************************************************************************)
(* One transport request on its way through four places: its row in the     *)
(* controller's SQLite outbox (scripts/sqlite_store.py), the worker's       *)
(* envelope spool (scripts/remote_envelope.py), the run root of the PBS     *)
(* wrapper on the login node (scripts/pbs_worker_wrapper.py), and the PBS   *)
(* jobs themselves.  The controller side is four commands, each under the   *)
(* controller lease and each with one SSH call between reading the row and  *)
(* recording an answer: remote_outbox.sync_once and reconcile_once,         *)
(* pbs_controller_bridge.submit_once and reconcile_once.  A remote command  *)
(* goes on by itself when its caller dies or times out.                     *)
(*                                                                          *)
(* The fence of the lease is abstracted to `epoch', the calls whose (owner, *)
(* fence) pair the lease row holds: a superseded fence never returns.       *)
(***************************************************************************)
EXTENDS Naturals, FiniteSets

CONSTANTS
    Calls,          \* command invocations
    Kind,           \* the command of an invocation
    OwnerOf,        \* its owner id: --owner-id, or a fresh uuid
    NoOwner,
    Once,           \* invocations made at most once: a fresh uuid is not reused
    RunStatuses,    \* what a PBS job may report
    WorkerEnds,     \* outcomes the worker may record in its spool by itself
    Overlap,        \* a submission may be held up before its intent file until
                    \* after its lease has changed hands
    Unreliable,     \* invocations that may crash, or lose their answer
    Faults,         \* the other kinds of faults that happen
    MaxQsub         \* bound: PBS jobs

ASSUME BridgeAssumption ==
    /\ Kind \in [Calls -> {"sync", "poll", "submit", "reconcile"}]
    /\ NoOwner \notin {OwnerOf[c] : c \in Calls}
    /\ Once \subseteq Calls
    /\ Unreliable \subseteq Calls
    /\ RunStatuses \subseteq {"completed", "failed", "waiting"}
    /\ WorkerEnds \subseteq {"completed", "failed"}
    /\ Overlap \in BOOLEAN
    /\ Faults \subseteq {"stall", "kill", "reject"}
    /\ MaxQsub \in Nat \ {0}

VARIABLES
    row,        \* transport_outbox: status, and what receipt_json says
    lease,      \* the controller lease: its owner, and whether it is live
    epoch,      \* the calls that hold the lease row's owner and fence
    pc,         \* control state of an invocation
    snap,       \* the row as an invocation has read it
    answer,     \* the answer that waits for an invocation
    spool,      \* the worker's spool: inbox/<id>.json and receipts/<id>.json
    remote,     \* the wrapper's `submit' process that an invocation started
    intent,     \* <run root>/submission.intent.json
    submission, \* <run root>/submission.json
    result,     \* <run root>/receipt.json, written by the PBS job
    pbs         \* the PBS jobs that qsub accepted, by number

controller == <<row, lease, epoch, pc, snap, answer>>
runRoot == <<intent, submission, result>>
vars == <<row, lease, epoch, pc, snap, answer, spool, remote, intent,
          submission, result, pbs>>

Terminal == {"completed", "failed"}
PBSNos == 1..MaxQsub
Owners == {OwnerOf[c] : c \in Calls} \cup {NoOwner}

\* receipt_json, reduced to what later decisions read: whose receipt it is, and
\* the PBS job id and the submitting owner that a PBS receipt carries.
NoReceipt == [by |-> "none", job |-> 0, owner |-> NoOwner]
WorkerReceipt == [by |-> "worker", job |-> 0, owner |-> NoOwner]
PBSReceipt(k, o) == [by |-> "pbs", job |-> k, owner |-> o]

PendingRow == [status |-> "pending", receipt |-> NoReceipt]
NoAnswer == [status |-> "none", receipt |-> NoReceipt]
NoFile == [owner |-> NoOwner, status |-> "none", job |-> 0]

TypeOK ==
    LET Receipts == [by : {"none", "worker", "pbs"}, job : 0..MaxQsub, owner : Owners]
        Files == [owner : Owners, status : {"none", "submitting", "submitted",
                  "accepted", "completed", "failed", "waiting"}, job : 0..MaxQsub]
        Rows == [status : {"pending", "accepted"} \cup Terminal, receipt : Receipts]
    IN  /\ row \in Rows
        /\ snap \in [Calls -> Rows]
        /\ lease \in [owner : Owners, live : BOOLEAN]
        /\ epoch \subseteq Calls
        /\ pc \in [Calls -> {"idle", "leased", "read", "waiting", "closing", "over"}]
        /\ answer \in [Calls -> [status : {"none", "error", "accepted"} \cup Terminal,
                                 receipt : Receipts]]
        /\ spool \in [inbox : BOOLEAN, status : {"none", "accepted"} \cup Terminal]
        /\ remote \in [Calls -> [step : {"none", "start", "checked", "intended",
                                         "queued", "recorded"}, job : 0..MaxQsub]]
        /\ intent \in Files /\ submission \in Files /\ result \in Files
        /\ pbs \in [PBSNos -> [owner : Owners, status : {"none", "queued", "ended"}]]

\* create_job with a transport envelope has committed the row.
Init ==
    /\ row = PendingRow
    /\ lease = [owner |-> NoOwner, live |-> FALSE]
    /\ epoch = {}
    /\ pc = [c \in Calls |-> "idle"]
    /\ snap = [c \in Calls |-> PendingRow]
    /\ answer = [c \in Calls |-> NoAnswer]
    /\ spool = [inbox |-> FALSE, status |-> "none"]
    /\ remote = [c \in Calls |-> [step |-> "none", job |-> 0]]
    /\ intent = NoFile /\ submission = NoFile /\ result = NoFile
    /\ pbs = [k \in PBSNos |-> [owner |-> NoOwner, status |-> "none"]]

Goto(c, label) == pc' = [pc EXCEPT ![c] = label]
Answer(c, status, receipt) ==
    answer' = [answer EXCEPT ![c] = [status |-> status, receipt |-> receipt]]

-----------------------------------------------------------------------------
(* The controller lease around every command *)

\* A submission between the acquisition of its lease and its intent file.
Undecided(c) ==
    /\ Kind[c] = "submit"
    /\ pc[c] \in {"leased", "read"} \/ remote[c].step \in {"start", "checked"}

\* Unless submissions overlap, the lease does not change hands under one.
Settled == Overlap \/ \A c \in Calls : ~Undecided(c)

Acquire(c) ==
    /\ pc[c] = "idle"
    /\ remote[c].step = "none"
    /\ \/ lease.live /\ lease.owner = OwnerOf[c] /\ epoch' = epoch \cup {c}
       \/ ~lease.live /\ epoch' = {c}
    /\ lease' = [owner |-> OwnerOf[c], live |-> TRUE]
    /\ Goto(c, "leased")
    /\ UNCHANGED <<row, snap, answer, spool, remote, runRoot, pbs>>

\* The caller stalls, or has crashed, for longer than the lease lives.
Expire ==
    /\ lease.live
    /\ "stall" \in Faults \/ epoch = {}
    /\ Settled
    /\ lease' = [lease EXCEPT !.live = FALSE]
    /\ UNCHANGED <<row, epoch, pc, snap, answer, spool, remote, runRoot, pbs>>

\* A command that has done its work, or is gone, forgets what it has read.
Forget(c) ==
    /\ snap' = [snap EXCEPT ![c] = PendingRow]
    /\ answer' = [answer EXCEPT ![c] = NoAnswer]

Gone(c) ==
    /\ Goto(c, IF c \in Once THEN "over" ELSE "idle")
    /\ Forget(c)

\* Leaving the context manager.  A release under a superseded fence is refused.
Close(c) ==
    /\ pc[c] = "closing"
    /\ Settled
    /\ lease' = [lease EXCEPT !.live = @ /\ c \notin epoch]
    /\ epoch' = epoch \ {c}
    /\ Gone(c)
    /\ UNCHANGED <<row, spool, remote, runRoot, pbs>>

Crash(c) ==
    /\ c \in Unreliable
    /\ pc[c] \in {"leased", "read", "waiting"}
    /\ epoch' = epoch \ {c}
    /\ Gone(c)
    /\ UNCHANGED <<row, lease, spool, remote, runRoot, pbs>>

\* list_transport_outbox selects by status; the PBS commands look at the
\* receipt as well.  A row that is not wanted leaves nothing to do.
HasPBSReceipt(r) == r.receipt.by = "pbs"
Wanted(c) ==
    CASE Kind[c] = "sync"      -> row.status = "pending"
      [] Kind[c] = "poll"      -> row.status = "accepted"
      [] Kind[c] = "submit"    -> row.status = "accepted" /\ ~HasPBSReceipt(row)
      [] Kind[c] = "reconcile" -> row.status = "accepted" /\ HasPBSReceipt(row)
Read(c) ==
    /\ pc[c] = "leased"
    /\ IF Wanted(c)
       THEN snap' = [snap EXCEPT ![c] = row] /\ Goto(c, "read")
       ELSE UNCHANGED snap /\ Goto(c, "closing")
    /\ UNCHANGED <<row, lease, epoch, answer, spool, remote, runRoot, pbs>>

\* The one SSH call of a command.
Sends(c, kind) == pc[c] = "read" /\ Kind[c] = kind /\ Goto(c, "waiting")

-----------------------------------------------------------------------------
(* The worker's spool *)

\* EnvelopeStore.receive: the inbox copy, then the receipt, each an atomic
\* write; a repeated receive completes the first one and repeats its receipt.
Received ==
    [inbox |-> TRUE,
     status |-> IF spool.status = "none" THEN "accepted" ELSE spool.status]

Deliver(c) ==
    /\ Sends(c, "sync")
    /\ spool' = Received
    /\ Answer(c, Received.status, WorkerReceipt)
    /\ UNCHANGED <<row, lease, epoch, snap, remote, runRoot, pbs>>

\* The worker is killed between the two writes.
DeliverHalf(c) ==
    /\ "kill" \in Faults
    /\ Sends(c, "sync")
    /\ ~spool.inbox
    /\ spool' = [spool EXCEPT !.inbox = TRUE]
    /\ Answer(c, "error", NoReceipt)
    /\ UNCHANGED <<row, lease, epoch, snap, remote, runRoot, pbs>>

\* EnvelopeStore.status: a read.  Without a receipt there is nothing to record.
Poll(c) ==
    /\ Sends(c, "poll")
    /\ IF spool.status = "none" THEN Answer(c, "error", NoReceipt)
                                ELSE Answer(c, spool.status, WorkerReceipt)
    /\ UNCHANGED <<row, lease, epoch, snap, spool, remote, runRoot, pbs>>

\* EnvelopeStore.complete: a second outcome is a conflict.
WorkerCompletes(outcome) ==
    /\ spool.inbox
    /\ spool.status \notin Terminal
    /\ spool' = [spool EXCEPT !.status = outcome]
    /\ UNCHANGED <<controller, remote, runRoot, pbs>>

-----------------------------------------------------------------------------
(* submit_once and submit_worker *)

CallSubmit(c) ==
    /\ Sends(c, "submit")
    /\ remote' = [remote EXCEPT ![c].step = "start"]
    /\ UNCHANGED <<row, lease, epoch, snap, answer, spool, runRoot, pbs>>

RemoteEnds(c) == remote' = [remote EXCEPT ![c] = [step |-> "none", job |-> 0]]
\* An answer that arrives after its caller has gone is lost.
Reply(c, status, receipt) ==
    IF pc[c] = "waiting" /\ answer[c] = NoAnswer
    THEN Answer(c, status, receipt)
    ELSE UNCHANGED answer
Refused(c) ==
    /\ Reply(c, "error", NoReceipt)
    /\ RemoteEnds(c)

\* A submission by the same owner is returned again; any other is refused, and
\* so is an intent that no submission followed.
MutMayQsub(c) == submission = NoFile                \* mutant: ignores the intent
MayQsub(c) ==
    /\ submission = NoFile
    /\ \/ intent = NoFile
       \/ intent.owner = OwnerOf[c] /\ intent.status = "submitted"

Check(c) ==
    /\ remote[c].step = "start"
    /\ \/ /\ submission # NoFile
          /\ submission.owner = OwnerOf[c]
          /\ Reply(c, "accepted", PBSReceipt(submission.job, OwnerOf[c]))
          /\ RemoteEnds(c)
       \/ /\ MayQsub(c)
          /\ remote' = [remote EXCEPT ![c].step = "checked"]
          /\ UNCHANGED answer
       \/ /\ ~MayQsub(c)
          /\ submission.owner # OwnerOf[c]
          /\ Refused(c)
    /\ UNCHANGED <<row, lease, epoch, pc, snap, spool, runRoot, pbs>>

WriteIntent(c) ==
    /\ remote[c].step = "checked"
    /\ intent' = [owner |-> OwnerOf[c], status |-> "submitting", job |-> 0]
    /\ remote' = [remote EXCEPT ![c].step = "intended"]
    /\ UNCHANGED <<controller, spool, submission, result, pbs>>

\* qsub accepts the job under the next free number.
Qsub(c) ==
    \E k \in PBSNos :
        /\ remote[c].step = "intended"
        /\ pbs[k].status = "none"
        /\ \A i \in 1..(k - 1) : pbs[i].status # "none"
        /\ pbs' = [pbs EXCEPT ![k] = [owner |-> OwnerOf[c], status |-> "queued"]]
        /\ remote' = [remote EXCEPT ![c] = [step |-> "queued", job |-> k]]
        /\ UNCHANGED <<controller, spool, runRoot>>

\* A non-zero exit of qsub withdraws the intent.
QsubRejects(c) ==
    /\ "reject" \in Faults
    /\ remote[c].step = "intended"
    /\ intent' = NoFile
    /\ Refused(c)
    /\ UNCHANGED <<row, lease, epoch, pc, snap, spool, submission, result, pbs>>

WriteSubmission(c) ==
    /\ remote[c].step = "queued"
    /\ submission' = [owner |-> OwnerOf[c], status |-> "accepted", job |-> remote[c].job]
    /\ remote' = [remote EXCEPT ![c].step = "recorded"]
    /\ UNCHANGED <<controller, spool, intent, result, pbs>>

ConfirmIntent(c) ==
    /\ remote[c].step = "recorded"
    /\ intent' = [owner |-> OwnerOf[c], status |-> "submitted", job |-> remote[c].job]
    /\ Reply(c, "accepted", PBSReceipt(remote[c].job, OwnerOf[c]))
    /\ RemoteEnds(c)
    /\ UNCHANGED <<row, lease, epoch, pc, snap, spool, submission, result, pbs>>

\* The remote command dies: with the SSH session, at the qsub timeout, or with
\* the login node.
RemoteDies(c) ==
    /\ "kill" \in Faults
    /\ remote[c].step # "none"
    /\ Refused(c)
    /\ UNCHANGED <<row, lease, epoch, pc, snap, spool, runRoot, pbs>>

-----------------------------------------------------------------------------
(* The PBS job, and reconcile_once with status_worker *)

\* run_worker writes receipt.json with the owner it was submitted with.
PBSRuns(k) ==
    /\ pbs[k].status = "queued"
    /\ \E s \in RunStatuses :
          result' = [owner |-> pbs[k].owner, status |-> s, job |-> k]
    /\ pbs' = [pbs EXCEPT ![k].status = "ended"]
    /\ UNCHANGED <<controller, spool, remote, intent, submission>>

\* Who status_worker is asked as: the owner the recorded receipt names.
MutStatusOwner(c) == OwnerOf[c]           \* mutant: asks under its own name
StatusOwner(c) ==
    IF snap[c].receipt.owner = NoOwner THEN OwnerOf[c] ELSE snap[c].receipt.owner

\* A submission or a result of another owner is an error, and so is a result
\* whose status is not an outcome; without a result there is nothing to record.
MutStatusRead(c) ==                       \* mutant: a submission counts as success
    Answer(c, IF result.status = "failed" THEN "failed" ELSE "completed",
           PBSReceipt(result.job, snap[c].receipt.owner))
StatusRead(c) ==
    IF /\ result.status \in Terminal
       /\ result.owner = StatusOwner(c)
       /\ submission = NoFile \/ submission.owner = StatusOwner(c)
    THEN Answer(c, result.status, PBSReceipt(result.job, snap[c].receipt.owner))
    ELSE Answer(c, "error", NoReceipt)

CallStatus(c) ==
    /\ Sends(c, "reconcile")
    /\ StatusRead(c)
    /\ UNCHANGED <<row, lease, epoch, snap, spool, remote, runRoot, pbs>>

-----------------------------------------------------------------------------
(* Recording the answer *)

\* _record_transport_receipt_tx: under the live lease and its fence; a terminal
\* row is never changed.
Recordable(c) ==
    /\ c \in epoch /\ lease.live
    /\ row.status \notin Terminal

Record(c) ==
    /\ pc[c] = "waiting"
    /\ answer[c].status \in {"accepted"} \cup Terminal
    /\ IF Recordable(c) THEN row' = answer[c] ELSE UNCHANGED row
    /\ Goto(c, "closing")
    /\ Forget(c)
    /\ UNCHANGED <<lease, epoch, spool, remote, runRoot, pbs>>

\* An error report, or an answer that is lost: the row stays as it is.
GiveUp(c) ==
    /\ pc[c] = "waiting"
    /\ \/ answer[c].status = "error"
       \/ c \in Unreliable
    /\ Goto(c, "closing")
    /\ Forget(c)
    /\ UNCHANGED <<row, lease, epoch, spool, remote, runRoot, pbs>>

-----------------------------------------------------------------------------
CallStep(c) ==
    \/ Acquire(c) \/ Read(c) \/ Close(c)
    \/ Deliver(c) \/ Poll(c) \/ CallSubmit(c) \/ CallStatus(c)
    \/ Record(c) \/ GiveUp(c)

RemoteStep(c) ==
    \/ Check(c) \/ WriteIntent(c) \/ Qsub(c) \/ WriteSubmission(c) \/ ConfirmIntent(c)

Fault(c) == Crash(c) \/ DeliverHalf(c) \/ QsubRejects(c) \/ RemoteDies(c)

Next ==
    \/ \E c \in Calls : CallStep(c) \/ RemoteStep(c) \/ Fault(c)
    \/ Expire
    \/ \E outcome \in WorkerEnds : WorkerCompletes(outcome)
    \/ \E k \in PBSNos : PBSRuns(k)

Spec == Init /\ [][Next]_vars

\* Remote commands and PBS jobs run to their end by themselves, a lease that
\* nobody renews expires, and a command that is run again and again gets the
\* lease now and then.
FairSpec ==
    /\ Spec
    /\ WF_vars(Expire)
    /\ \A k \in PBSNos : WF_vars(PBSRuns(k))
    /\ \A c \in Calls :
          /\ WF_vars(RemoteStep(c))
          /\ WF_vars(CallStep(c))
          /\ SF_vars(Acquire(c))

-----------------------------------------------------------------------------
(* Properties *)

\* One request has at most one PBS job: the run root "avoids a second PBS side
\* effect" (submit_worker), however often submit_once is repeated.
Submitted == {k \in PBSNos : pbs[k].status # "none"}
AtMostOneQsub == Cardinality(Submitted) <= 1

\* What the controller has recorded lies at the worker: an accepted row was
\* received there, a PBS receipt names the job of submission.json and the owner
\* under which status_worker will answer for it, and a terminal row has the
\* outcome in the spool or the result of the PBS job that the receipt names
\* (record_transport_receipt, after sync_once, submit_once or reconcile_once).
OutcomeHasEvidence ==
    /\ HasPBSReceipt(row) =>
          submission.job = row.receipt.job /\ submission.owner = row.receipt.owner
    /\ row.status # "pending" => spool.inbox
    /\ row.status \in Terminal =>
          IF HasPBSReceipt(row)
          THEN result.status = row.status /\ result.job = row.receipt.job
          ELSE spool.status = row.status

\* "A disconnected controller leaves the accepted row durable for the next poll"
\* and "replaying submit or reconcile is idempotent" (docs/architecture.md): an
\* accepted request reaches its outcome in spite of crashes and lost answers.
AcceptedSettles == row.status = "accepted" ~> row.status \in Terminal
=============================================================================
