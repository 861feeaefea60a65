-------------------------- MODULE PBSBridgeProofs --------------------------
(***************************************************************************)
(* What PBSBridge promises for every set of command invocations, owner ids  *)
(* and number of PBS jobs: one request has one PBS job, and what the        *)
(* controller records of it lies at the worker.                             *)
(*                                                                          *)
(* Two hypotheses are needed.  A submission must reach its intent file      *)
(* under the lease it took (~ Overlap): the wrapper looks for the intent    *)
(* and writes it in two steps, and only the controller lease keeps a second *)
(* submission from standing between them.  And two submissions must not     *)
(* share an owner id, because the lease lets its own owner in again.        *)
(***************************************************************************)
EXTENDS PBSBridge, FiniteSetTheorems, TLAPS

\* Two submissions that run side by side carry different owner ids (the
\* default --owner-id of submit_once is a fresh uuid).
DistinctSubmitters ==
    \A c, d \in Calls :
        Kind[c] = "submit" /\ Kind[d] = "submit" /\ OwnerOf[c] = OwnerOf[d] => c = d

\* A remote command between its intent file and its end.
Busy(c) == remote[c].step \in {"intended", "queued", "recorded"}

\* A submission holds the lease until its intent file is written.
LeaseHeld ==
    \A c \in Calls : Undecided(c) => lease.live /\ lease.owner = OwnerOf[c]

\* Only submissions start a remote command.
RemoteKinds == \A c \in Calls : remote[c].step # "none" => Kind[c] = "submit"

\* The intent file is the mutual exclusion of the run root: a command that has
\* seen none is about to write the first, and one command at a time is beyond it.
IntentGuards ==
    /\ \A c \in Calls : remote[c].step = "checked" => intent = NoFile
    /\ intent = NoFile =>
          /\ submission = NoFile
          /\ result = NoFile
          /\ \A k \in PBSNos : pbs[k].status = "none"
          /\ \A c \in Calls : ~Busy(c)
    /\ \A c \in Calls : Busy(c) => intent.status = "submitting"
    /\ \A c, d \in Calls : Busy(c) /\ Busy(d) => c = d
    /\ intent.status = "submitted" => submission # NoFile

\* How far a command beyond its intent has got.
RemoteKnows ==
    \A c \in Calls :
        /\ remote[c].step = "intended" => \A k \in PBSNos : pbs[k].status = "none"
        /\ remote[c].step \in {"queued", "recorded"} =>
              /\ remote[c].job \in PBSNos
              /\ pbs[remote[c].job].status # "none"
              /\ pbs[remote[c].job].owner = OwnerOf[c]
        /\ remote[c].step = "queued" => submission = NoFile
        /\ remote[c].step = "recorded" =>
              submission = [owner |-> OwnerOf[c], status |-> "accepted",
                            job |-> remote[c].job]

\* The files of the run root speak of the one PBS job there is.
FilesTrue ==
    /\ \A j, k \in PBSNos : pbs[j].status # "none" /\ pbs[k].status # "none" => j = k
    /\ submission # NoFile =>
          /\ submission.job \in PBSNos
          /\ pbs[submission.job].status # "none"
          /\ pbs[submission.job].owner = submission.owner
    /\ result # NoFile =>
          /\ result.job \in PBSNos
          /\ pbs[result.job].status = "ended"
          /\ pbs[result.job].owner = result.owner

\* What a row, a copy of it or an answer claims lies at the worker: in these
\* states of submission.json, of the spool and of receipt.json.
BackedBy(r, sub, sp, res) ==
    /\ r.receipt.by = "pbs" =>
          /\ sub # NoFile
          /\ sub.job = r.receipt.job
          /\ sub.owner = r.receipt.owner
    /\ r.status \in {"accepted"} \cup Terminal => sp.inbox
    /\ r.status \in Terminal =>
          IF r.receipt.by = "pbs"
          THEN res.status = r.status /\ res.job = r.receipt.job
          ELSE sp.status = r.status
Backed(r) == BackedBy(r, submission, spool, result)

\* A command that is about to make its call has read a row of its kind.
ReadWanted ==
    \A c \in Calls : pc[c] = "read" =>
        /\ Kind[c] \in {"poll", "submit", "reconcile"} => snap[c].status = "accepted"
        /\ Kind[c] = "reconcile" => snap[c].receipt.by = "pbs"

Evidence ==
    /\ spool.status # "none" => spool.inbox
    /\ \A c \in Calls : remote[c].step # "none" => spool.inbox
    /\ Backed(row)
    /\ \A c \in Calls : Backed(snap[c]) /\ Backed(answer[c])

RunRootInv == RemoteKinds /\ IntentGuards /\ RemoteKnows /\ FilesTrue
BridgeInv == TypeOK /\ LeaseHeld /\ RunRootInv /\ ReadWanted /\ Evidence

-----------------------------------------------------------------------------
(* Type correctness *)

Receipts == [by : {"none", "worker", "pbs"}, job : 0..MaxQsub, owner : Owners]
Files == [owner : Owners, status : {"none", "submitting", "submitted", "accepted",
          "completed", "failed", "waiting"}, job : 0..MaxQsub]
Rows == [status : {"pending", "accepted"} \cup Terminal, receipt : Receipts]
Answers == [status : {"none", "error", "accepted"} \cup Terminal, receipt : Receipts]
Remotes == [step : {"none", "start", "checked", "intended", "queued", "recorded"},
            job : 0..MaxQsub]

ControllerTyped ==
    /\ row \in Rows
    /\ snap \in [Calls -> Rows]
    /\ answer \in [Calls -> Answers]
LeaseTyped ==
    /\ lease \in [owner : Owners, live : BOOLEAN]
    /\ epoch \subseteq Calls
    /\ pc \in [Calls -> {"idle", "leased", "read", "waiting", "closing", "over"}]
WorkerTyped ==
    /\ spool \in [inbox : BOOLEAN, status : {"none", "accepted"} \cup Terminal]
    /\ remote \in [Calls -> Remotes]
    /\ intent \in Files /\ submission \in Files /\ result \in Files
    /\ pbs \in [PBSNos -> [owner : Owners, status : {"none", "queued", "ended"}]]

LEMMA TypeParts ==
    /\ TypeOK <=> ControllerTyped /\ LeaseTyped /\ WorkerTyped
    /\ TypeOK' <=> ControllerTyped' /\ LeaseTyped' /\ WorkerTyped'
BY DEF TypeOK, ControllerTyped, LeaseTyped, WorkerTyped, Receipts, Files, Rows, Answers,
   Remotes

\* The constant records are of their types.
LEMMA ConstantsTyped ==
    /\ \A c \in Calls : OwnerOf[c] \in Owners /\ OwnerOf[c] # NoOwner
    /\ NoOwner \in Owners
    /\ NoReceipt \in Receipts /\ WorkerReceipt \in Receipts
    /\ \A k \in 0..MaxQsub, o \in Owners : PBSReceipt(k, o) \in Receipts
    /\ PendingRow \in Rows /\ NoAnswer \in Answers /\ NoFile \in Files
BY BridgeAssumption DEF Owners, NoReceipt, WorkerReceipt, PBSReceipt, Receipts, PendingRow,
   Rows, NoAnswer, Answers, NoFile, Files

LEMMA BridgeInitTyped == Init => TypeOK
<1>1. SUFFICES ASSUME Init PROVE ControllerTyped /\ LeaseTyped /\ WorkerTyped
  BY TypeParts
<1>2. ControllerTyped
  BY <1>1, ConstantsTyped DEF Init, ControllerTyped
<1>3. LeaseTyped
  BY <1>1, ConstantsTyped DEF Init, LeaseTyped
<1>4. WorkerTyped
  BY <1>1, ConstantsTyped, BridgeAssumption DEF Init, WorkerTyped, Remotes
<1> QED BY <1>2, <1>3, <1>4

\* One step's effect on an answer, wherever it comes from.
LEMMA ReplyTyped ==
    ASSUME ControllerTyped, NEW c \in Calls, NEW s \in {"error", "accepted"} \cup Terminal,
           NEW r \in Receipts, Reply(c, s, r) \/ Answer(c, s, r)
    PROVE  answer' \in [Calls -> Answers]
<1>1. [status |-> s, receipt |-> r] \in Answers
  BY DEF Answers
<1> QED BY <1>1 DEF Reply, Answer, ControllerTyped

LEMMA RemoteTyped ==
    ASSUME WorkerTyped, NEW c \in Calls,
           \/ RemoteEnds(c)
           \/ remote' = [remote EXCEPT ![c].step = "start"]
           \/ remote' = [remote EXCEPT ![c].step = "checked"]
           \/ remote' = [remote EXCEPT ![c].step = "intended"]
           \/ remote' = [remote EXCEPT ![c].step = "recorded"]
    PROVE  remote' \in [Calls -> Remotes]
<1>1. [step |-> "none", job |-> 0] \in Remotes
  BY BridgeAssumption DEF Remotes
<1> QED BY <1>1 DEF RemoteEnds, WorkerTyped, Remotes

LEMMA ForgetTyped ==
    ASSUME ControllerTyped, NEW c \in Calls, Forget(c)
    PROVE  snap' \in [Calls -> Rows] /\ answer' \in [Calls -> Answers]
BY ConstantsTyped DEF Forget, ControllerTyped

LEMMA ControllerTypeStep ==
    ASSUME TypeOK, NEW c \in Calls, CallStep(c) \/ RemoteStep(c) \/ Fault(c)
    PROVE  ControllerTyped'
<1> USE TypeParts, ConstantsTyped
<1>0. ControllerTyped /\ WorkerTyped
  OBVIOUS
<1>1. CASE Acquire(c) \/ WriteIntent(c) \/ Qsub(c) \/ WriteSubmission(c) \/ CallSubmit(c)
  BY <1>0, <1>1 DEF Acquire, WriteIntent, Qsub, WriteSubmission, CallSubmit, controller, ControllerTyped
<1>2. CASE Read(c)
  BY <1>0, <1>2 DEF Read, ControllerTyped
<1>3. CASE Close(c) \/ Crash(c)
  BY <1>0, <1>3, ForgetTyped DEF Close, Crash, Gone, ControllerTyped
<1>4. CASE GiveUp(c)
  BY <1>0, <1>4, ForgetTyped DEF GiveUp, ControllerTyped
<1>5. CASE Record(c)
  <2>1. answer[c] \in Rows
    BY <1>0, <1>5 DEF Record, ControllerTyped, Answers, Rows
  <2>2. row' \in Rows
    BY <1>0, <1>5, <2>1 DEF Record, ControllerTyped
  <2> QED BY <1>0, <1>5, <2>2, ForgetTyped DEF Record, ControllerTyped
<1>6. CASE Deliver(c) \/ DeliverHalf(c) \/ Poll(c)
  <2>1. Received.status \in {"error", "accepted"} \cup Terminal
    BY <1>0 DEF Received, WorkerTyped
  <2>2. spool.status # "none" => spool.status \in {"error", "accepted"} \cup Terminal
    BY <1>0 DEF WorkerTyped
  <2>3. answer' \in [Calls -> Answers]
    BY <1>0, <1>6, <2>1, <2>2, ReplyTyped DEF Deliver, DeliverHalf, Poll
  <2> QED BY <1>0, <1>6, <2>3 DEF Deliver, DeliverHalf, Poll, ControllerTyped
<1>7. CASE CallStatus(c)
  <2>1. PBSReceipt(result.job, snap[c].receipt.owner) \in Receipts
    BY <1>0 DEF ControllerTyped, WorkerTyped, Files, Rows, Receipts
  <2>2. answer' \in [Calls -> Answers]
    BY <1>0, <1>7, <2>1, ReplyTyped DEF CallStatus, StatusRead
  <2> QED BY <1>0, <1>7, <2>2 DEF CallStatus, ControllerTyped
<1>8. CASE Check(c)
  <2>1. PBSReceipt(submission.job, OwnerOf[c]) \in Receipts
    BY <1>0 DEF WorkerTyped, Files
  <2>2. answer' \in [Calls -> Answers]
    BY <1>0, <1>8, <2>1, ReplyTyped DEF Check, Refused, ControllerTyped
  <2> QED BY <1>0, <1>8, <2>2 DEF Check, ControllerTyped
<1>9. CASE ConfirmIntent(c)
  <2>1. PBSReceipt(remote[c].job, OwnerOf[c]) \in Receipts
    BY <1>0 DEF WorkerTyped, Remotes
  <2>2. answer' \in [Calls -> Answers]
    BY <1>0, <1>9, <2>1, ReplyTyped DEF ConfirmIntent
  <2> QED BY <1>0, <1>9, <2>2 DEF ConfirmIntent, ControllerTyped
<1>10. CASE QsubRejects(c) \/ RemoteDies(c)
  <2>2. answer' \in [Calls -> Answers]
    BY <1>0, <1>10, ReplyTyped DEF QsubRejects, RemoteDies, Refused
  <2> QED BY <1>0, <1>10, <2>2 DEF QsubRejects, RemoteDies, ControllerTyped
<1> QED BY <1>1, <1>2, <1>3, <1>4, <1>5, <1>6, <1>7, <1>8, <1>9, <1>10 DEF CallStep, RemoteStep, Fault

LEMMA LeaseTypeStep ==
    ASSUME TypeOK, NEW c \in Calls, CallStep(c) \/ RemoteStep(c) \/ Fault(c)
    PROVE  LeaseTyped'
<1>0. LeaseTyped
  BY TypeParts
<1>1. CASE Acquire(c)
  BY <1>0, <1>1, ConstantsTyped DEF Acquire, Goto, LeaseTyped
<1>2. CASE Close(c) \/ Crash(c)
  BY <1>0, <1>2 DEF Close, Crash, Gone, Goto, LeaseTyped
<1>3. CASE Read(c) \/ Record(c) \/ GiveUp(c)
  BY <1>0, <1>3 DEF Read, Record, GiveUp, Goto, LeaseTyped
<1>4. CASE Deliver(c) \/ DeliverHalf(c) \/ Poll(c) \/ CallSubmit(c) \/ CallStatus(c)
  BY <1>0, <1>4 DEF Deliver, DeliverHalf, Poll, CallSubmit, CallStatus, Sends, Goto, LeaseTyped
<1>5. CASE RemoteStep(c) \/ QsubRejects(c) \/ RemoteDies(c)
  BY <1>0, <1>5 DEF RemoteStep, Check, WriteIntent, Qsub, WriteSubmission, ConfirmIntent, QsubRejects,
     RemoteDies, controller, LeaseTyped
<1> QED BY <1>1, <1>2, <1>3, <1>4, <1>5 DEF CallStep, Fault

LEMMA WorkerTypeStep ==
    ASSUME TypeOK, NEW c \in Calls, CallStep(c) \/ RemoteStep(c) \/ Fault(c)
    PROVE  WorkerTyped'
<1> USE TypeParts, ConstantsTyped
<1>0. WorkerTyped
  OBVIOUS
<1>1. CASE Acquire(c) \/ Read(c) \/ Close(c) \/ Record(c) \/ GiveUp(c) \/ Crash(c) \/ Poll(c) \/ CallStatus(c)
  BY <1>0, <1>1 DEF Acquire, Read, Close, Record, GiveUp, Crash, Poll, CallStatus, runRoot, WorkerTyped
<1>2. CASE Deliver(c) \/ DeliverHalf(c)
  <2>1. /\ spool \in [inbox : BOOLEAN, status : {"none", "accepted"} \cup Terminal]
        /\ Received \in [inbox : BOOLEAN, status : {"none", "accepted"} \cup Terminal]
    BY <1>0 DEF WorkerTyped, Received
  <2>2. spool' \in [inbox : BOOLEAN, status : {"none", "accepted"} \cup Terminal]
    BY <1>2, <2>1 DEF Deliver, DeliverHalf
  <2> QED BY <1>0, <1>2, <2>2 DEF Deliver, DeliverHalf, runRoot, WorkerTyped
<1>3. CASE CallSubmit(c) \/ Check(c) \/ RemoteDies(c)
  <2>1. remote' \in [Calls -> Remotes]
    BY <1>0, <1>3, RemoteTyped DEF CallSubmit, Check, RemoteDies, Refused
  <2> QED BY <1>0, <1>3, <2>1 DEF CallSubmit, Check, RemoteDies, runRoot, WorkerTyped
<1>4. CASE WriteIntent(c) \/ QsubRejects(c)
  <2>1. remote' \in [Calls -> Remotes]
    BY <1>0, <1>4, RemoteTyped DEF WriteIntent, QsubRejects, Refused
  <2>2. intent' \in Files
    BY <1>4, BridgeAssumption DEF WriteIntent, QsubRejects, Files
  <2> QED BY <1>0, <1>4, <2>1, <2>2 DEF WriteIntent, QsubRejects, WorkerTyped
<1>5. CASE Qsub(c)
  <2>1. remote' \in [Calls -> Remotes]
    BY <1>0, <1>5, BridgeAssumption DEF Qsub, WorkerTyped, Remotes, PBSNos
  <2>2. pbs' \in [PBSNos -> [owner : Owners, status : {"none", "queued", "ended"}]]
    BY <1>0, <1>5 DEF Qsub, WorkerTyped
  <2> QED BY <1>0, <1>5, <2>1, <2>2 DEF Qsub, runRoot, WorkerTyped
<1>6. CASE WriteSubmission(c) \/ ConfirmIntent(c)
  <2>1. remote' \in [Calls -> Remotes]
    BY <1>0, <1>6, RemoteTyped DEF WriteSubmission, ConfirmIntent
  <2>3. remote[c].job \in 0..MaxQsub
    BY <1>0 DEF WorkerTyped, Remotes
  <2>2. intent' \in Files /\ submission' \in Files
    BY <1>0, <1>6, <2>3 DEF WriteSubmission, ConfirmIntent, Files, WorkerTyped
  <2> QED BY <1>0, <1>6, <2>1, <2>2 DEF WriteSubmission, ConfirmIntent, WorkerTyped
<1> QED BY <1>1, <1>2, <1>3, <1>4, <1>5, <1>6 DEF CallStep, RemoteStep, Fault

LEMMA BridgeTypeStep ==
    ASSUME TypeOK, [Next]_vars
    PROVE  TypeOK'
<1>1. ASSUME NEW c \in Calls, CallStep(c) \/ RemoteStep(c) \/ Fault(c) PROVE TypeOK'
  BY <1>1, ControllerTypeStep, LeaseTypeStep, WorkerTypeStep, TypeParts
<1>2. CASE Expire
  BY <1>2, TypeParts DEF Expire, runRoot, ControllerTyped, LeaseTyped, WorkerTyped
<1>3. ASSUME NEW outcome \in WorkerEnds, WorkerCompletes(outcome) PROVE TypeOK'
  BY <1>3, TypeParts, BridgeAssumption DEF WorkerCompletes, controller, runRoot, ControllerTyped, LeaseTyped,
     WorkerTyped, Terminal
<1>4. ASSUME NEW k \in PBSNos, PBSRuns(k) PROVE TypeOK'
  <2>1. ControllerTyped' /\ LeaseTyped'
    BY <1>4, TypeParts DEF PBSRuns, controller, ControllerTyped, LeaseTyped
  <2>2. WorkerTyped'
    <3>1. result' \in Files
      BY <1>4, TypeParts, BridgeAssumption DEF PBSRuns, WorkerTyped, Files, PBSNos
    <3>2. pbs' \in [PBSNos -> [owner : Owners, status : {"none", "queued", "ended"}]]
      BY <1>4, TypeParts DEF PBSRuns, WorkerTyped
    <3> QED BY <1>4, <3>1, <3>2, TypeParts DEF PBSRuns, WorkerTyped
  <2> QED BY <2>1, <2>2, TypeParts
<1>5. CASE UNCHANGED vars
  BY <1>5 DEF vars, TypeOK
<1> QED BY <1>1, <1>2, <1>3, <1>4, <1>5 DEF Next

-----------------------------------------------------------------------------
(* At most one submission is before its intent file *)

\* Only taking the lease makes a submission undecided.
LEMMA UndecidedStep ==
    ASSUME TypeOK, NEW c \in Calls, CallStep(c) \/ RemoteStep(c) \/ Fault(c),
           NEW d \in Calls, Undecided(d)'
    PROVE  Undecided(d) \/ (d = c /\ Acquire(c))
<1>0. LeaseTyped /\ WorkerTyped
  BY TypeParts
<1>1. CASE Acquire(c)
  BY <1>0, <1>1 DEF Acquire, Goto, Undecided, LeaseTyped
<1>2. CASE Close(c) \/ Crash(c)
  BY <1>0, <1>2 DEF Close, Crash, Gone, Goto, Undecided, LeaseTyped
<1>3. CASE Read(c) \/ Record(c) \/ GiveUp(c)
  BY <1>0, <1>3 DEF Read, Record, GiveUp, Goto, Undecided, LeaseTyped
<1>4. CASE Deliver(c) \/ DeliverHalf(c) \/ Poll(c) \/ CallStatus(c)
  BY <1>0, <1>4 DEF Deliver, DeliverHalf, Poll, CallStatus, Sends, Goto, Undecided, LeaseTyped
<1>5. CASE CallSubmit(c)
  BY <1>0, <1>5 DEF CallSubmit, Sends, Goto, Undecided, LeaseTyped, WorkerTyped, Remotes
<1>6. CASE RemoteStep(c)
  BY <1>0, <1>6 DEF RemoteStep, Check, WriteIntent, Qsub, WriteSubmission, ConfirmIntent, Refused, RemoteEnds,
     Undecided, controller, WorkerTyped, Remotes
<1>7. CASE QsubRejects(c) \/ RemoteDies(c)
  BY <1>0, <1>7 DEF QsubRejects, RemoteDies, Refused, RemoteEnds, Undecided, WorkerTyped, Remotes
<1> QED BY <1>1, <1>2, <1>3, <1>4, <1>5, <1>6, <1>7 DEF CallStep, Fault

LEMMA LeaseHeldStep ==
    ASSUME TypeOK, LeaseHeld, ~Overlap, [Next]_vars
    PROVE  LeaseHeld'
<1>0. LeaseTyped
  BY TypeParts
<1>1. ASSUME NEW c \in Calls, CallStep(c) \/ RemoteStep(c) \/ Fault(c) PROVE LeaseHeld'
  <2>1. CASE Acquire(c)
    BY <1>0, <1>1, <2>1, UndecidedStep DEF Acquire, LeaseHeld, LeaseTyped
  <2>2. CASE Close(c)
    BY <1>1, <2>2, UndecidedStep DEF Close, Settled, LeaseHeld, Acquire
  <2>3. CASE lease' = lease
    BY <1>0, <1>1, <2>3, UndecidedStep DEF LeaseHeld, Acquire, LeaseTyped
  <2> QED BY <1>1, <2>1, <2>2, <2>3 DEF CallStep, RemoteStep, Fault, Read, Deliver, Poll, CallSubmit, CallStatus,
             Record, GiveUp, Check, WriteIntent, Qsub, WriteSubmission, ConfirmIntent, Crash, DeliverHalf,
             QsubRejects, RemoteDies, controller
<1>2. CASE Expire
  BY <1>2 DEF Expire, Settled, LeaseHeld, Undecided
<1>3. CASE UNCHANGED <<lease, pc, remote>>
  BY <1>3 DEF LeaseHeld, Undecided
<1> QED BY <1>1, <1>2, <1>3 DEF Next, WorkerCompletes, PBSRuns, controller, vars

\* Two undecided submissions are one.
LEMMA OneUndecided ==
    ASSUME LeaseHeld, DistinctSubmitters, NEW c \in Calls, NEW d \in Calls,
           Undecided(c), Undecided(d)
    PROVE  c = d
BY DEF LeaseHeld, DistinctSubmitters, Undecided

-----------------------------------------------------------------------------
(* The run root *)

LEMMA RunRootStep ==
    ASSUME TypeOK, LeaseHeld, RunRootInv, DistinctSubmitters,
           NEW c \in Calls, CallStep(c) \/ RemoteStep(c) \/ Fault(c)
    PROVE  RunRootInv'
<1> USE DEF RunRootInv
<1>0. WorkerTyped /\ WorkerTyped'
  BY TypeParts, WorkerTypeStep
<1>o. OwnerOf[c] # NoOwner
  BY ConstantsTyped
<1>1. CASE UNCHANGED <<remote, intent, submission, result, pbs>>
  BY <1>1 DEF RemoteKinds, IntentGuards, RemoteKnows, FilesTrue, Busy
<1>2. CASE CallSubmit(c)
  <2>1. /\ UNCHANGED <<intent, submission, result, pbs>>
        /\ remote' = [remote EXCEPT ![c].step = "start"]
        /\ Kind[c] = "submit"
    BY <1>2 DEF CallSubmit, Sends, runRoot
  <2> QED BY <1>0, <2>1 DEF RemoteKinds, IntentGuards, RemoteKnows, FilesTrue, Busy, WorkerTyped, Remotes
<1>3. CASE UNCHANGED <<intent, submission, result, pbs>> /\ RemoteEnds(c)
  BY <1>0, <1>3 DEF RemoteEnds, RemoteKinds, IntentGuards, RemoteKnows, FilesTrue, Busy, WorkerTyped, Remotes
<1>4. CASE Check(c)
  <2>1. ASSUME MayQsub(c), remote' = [remote EXCEPT ![c].step = "checked"] PROVE RunRootInv'
    <3>1. intent = NoFile
      BY <2>1 DEF MayQsub, IntentGuards
    <3>2. UNCHANGED <<intent, submission, result, pbs>> /\ Kind[c] = "submit"
      BY <1>4 DEF Check, runRoot, RemoteKinds
    <3> QED BY <1>0, <2>1, <3>1, <3>2 DEF RemoteKinds, IntentGuards, RemoteKnows, FilesTrue, Busy, WorkerTyped, Remotes
  <2> QED BY <1>3, <1>4, <2>1 DEF Check, Refused, runRoot
<1>5. CASE WriteIntent(c)
  <2>1. /\ UNCHANGED <<submission, result, pbs>>
        /\ remote' = [remote EXCEPT ![c].step = "intended"]
        /\ remote[c].step = "checked"
        /\ intent' = [owner |-> OwnerOf[c], status |-> "submitting", job |-> 0]
        /\ intent = NoFile /\ intent' # NoFile
    BY <1>5, <1>o DEF WriteIntent, IntentGuards, NoFile
  <2>2. \A d \in Calls : remote[d].step = "checked" => d = c
    BY <2>1, OneUndecided DEF RemoteKinds, Undecided
  <2> QED BY <1>0, <2>1, <2>2 DEF RemoteKinds, IntentGuards, RemoteKnows, FilesTrue, Busy, WorkerTyped, Remotes
<1>6. CASE Qsub(c)
  <2>1. PICK k \in PBSNos :
          /\ remote[c].step = "intended"
          /\ pbs' = [pbs EXCEPT ![k] = [owner |-> OwnerOf[c], status |-> "queued"]]
          /\ remote' = [remote EXCEPT ![c] = [step |-> "queued", job |-> k]]
          /\ UNCHANGED <<intent, submission, result>>
    BY <1>6 DEF Qsub, runRoot
  <2>2. /\ \A j \in PBSNos : pbs[j].status = "none"
        /\ submission = NoFile /\ result = NoFile
        /\ intent # NoFile /\ intent.status = "submitting"
        /\ \A d \in Calls : Busy(d) => d = c
    BY <2>1 DEF RemoteKnows, FilesTrue, IntentGuards, Busy
  <2>3. \A j \in PBSNos : pbs'[j].status # "none" => j = k
    BY <1>0, <2>1, <2>2 DEF WorkerTyped
  <2>4. pbs'[k].status # "none" /\ pbs'[k].owner = OwnerOf[c]
    BY <1>0, <2>1 DEF WorkerTyped
  <2>5. \A d \in Calls : d # c => remote'[d] = remote[d]
    BY <1>0, <2>1 DEF WorkerTyped
  <2>6. remote'[c] = [step |-> "queued", job |-> k]
    BY <1>0, <2>1 DEF WorkerTyped
  <2>7. RemoteKinds'
    BY <2>1, <2>5, <2>6 DEF RemoteKinds
  <2>8. IntentGuards'
    BY <2>1, <2>2, <2>5, <2>6 DEF IntentGuards, Busy
  <2>9. RemoteKnows'
    BY <2>1, <2>2, <2>4, <2>5, <2>6 DEF RemoteKnows, Busy
  <2>10. FilesTrue'
    BY <2>1, <2>2, <2>3, <2>4 DEF FilesTrue
  <2> QED BY <2>7, <2>8, <2>9, <2>10
<1>7. CASE QsubRejects(c)
  <2>1. /\ remote[c].step = "intended"
        /\ intent' = NoFile
        /\ RemoteEnds(c)
        /\ UNCHANGED <<submission, result, pbs>>
    BY <1>7 DEF QsubRejects, Refused
  <2>2. /\ \A j \in PBSNos : pbs[j].status = "none"
        /\ submission = NoFile /\ result = NoFile
        /\ \A d \in Calls : Busy(d) => d = c
    BY <2>1 DEF RemoteKnows, FilesTrue, IntentGuards, Busy
  <2> QED BY <1>0, <2>1, <2>2 DEF RemoteEnds, RemoteKinds, IntentGuards, RemoteKnows, FilesTrue, Busy, WorkerTyped,
             Remotes, NoFile
<1>8. CASE WriteSubmission(c)
  <2>1. /\ remote[c].step = "queued"
        /\ submission' = [owner |-> OwnerOf[c], status |-> "accepted", job |-> remote[c].job]
        /\ remote' = [remote EXCEPT ![c].step = "recorded"]
        /\ UNCHANGED <<intent, result, pbs>>
    BY <1>8 DEF WriteSubmission
  <2>2. /\ submission' # NoFile
        /\ intent # NoFile
        /\ \A d \in Calls : Busy(d) => d = c
    BY <1>o, <2>1 DEF IntentGuards, Busy, NoFile
  <2>3. /\ remote[c].job \in PBSNos
        /\ pbs[remote[c].job].status # "none"
        /\ pbs[remote[c].job].owner = OwnerOf[c]
    BY <2>1 DEF RemoteKnows
  <2>4. remote'[c].step = "recorded" /\ remote'[c].job = remote[c].job
    BY <1>0, <2>1 DEF WorkerTyped, Remotes
  <2>5. \A d \in Calls : d # c => remote'[d] = remote[d]
    BY <1>0, <2>1 DEF WorkerTyped
  <2>7. RemoteKinds'
    BY <2>1, <2>4, <2>5 DEF RemoteKinds
  <2>8. IntentGuards'
    BY <2>1, <2>2, <2>4, <2>5 DEF IntentGuards, Busy
  <2>9. RemoteKnows'
    BY <2>1, <2>2, <2>3, <2>4, <2>5 DEF RemoteKnows, Busy
  <2>10. FilesTrue'
    BY <2>1, <2>3 DEF FilesTrue
  <2> QED BY <2>7, <2>8, <2>9, <2>10
<1>9. CASE ConfirmIntent(c)
  <2>1. /\ remote[c].step = "recorded"
        /\ intent' = [owner |-> OwnerOf[c], status |-> "submitted", job |-> remote[c].job]
        /\ RemoteEnds(c)
        /\ UNCHANGED <<submission, result, pbs>>
    BY <1>9 DEF ConfirmIntent
  <2>2. /\ submission # NoFile /\ intent' # NoFile
        /\ intent # NoFile
        /\ \A d \in Calls : Busy(d) => d = c
    BY <1>o, <2>1 DEF RemoteKnows, IntentGuards, Busy, NoFile
  <2>3. remote'[c] = [step |-> "none", job |-> 0] /\ \A d \in Calls : d # c => remote'[d] = remote[d]
    BY <1>0, <2>1 DEF WorkerTyped, RemoteEnds
  <2> QED BY <2>1, <2>2, <2>3 DEF RemoteKinds, IntentGuards, RemoteKnows, FilesTrue, Busy
<1>10. CASE RemoteDies(c)
  BY <1>3, <1>10 DEF RemoteDies, Refused, runRoot
<1> QED BY <1>1, <1>2, <1>4, <1>5, <1>6, <1>7, <1>8, <1>9, <1>10 DEF CallStep, RemoteStep, Fault, Acquire, Read,
           Close, Deliver, Poll, CallStatus, Record, GiveUp, Crash, DeliverHalf, runRoot

LEMMA RunRootInvariant ==
    ASSUME TypeOK, LeaseHeld, RunRootInv, DistinctSubmitters, [Next]_vars
    PROVE  RunRootInv'
<1>1. ASSUME NEW c \in Calls, CallStep(c) \/ RemoteStep(c) \/ Fault(c) PROVE RunRootInv'
  BY <1>1, RunRootStep
<1>2. ASSUME NEW k \in PBSNos, PBSRuns(k) PROVE RunRootInv'
  <2>0. WorkerTyped
    BY TypeParts
  <2>1. PICK s \in RunStatuses : result' = [owner |-> pbs[k].owner, status |-> s, job |-> k]
    BY <1>2 DEF PBSRuns
  <2>2. /\ UNCHANGED <<remote, intent, submission>>
        /\ pbs[k].status = "queued"
        /\ pbs' = [pbs EXCEPT ![k].status = "ended"]
    BY <1>2 DEF PBSRuns
  <2>3. /\ pbs'[k].status = "ended" /\ pbs'[k].owner = pbs[k].owner
        /\ \A j \in PBSNos : j # k => pbs'[j] = pbs[j]
    BY <2>0, <2>2 DEF WorkerTyped
  <2>4. /\ intent # NoFile
        /\ \A d \in Calls : remote[d].step # "intended"
    BY <2>2 DEF RunRootInv, IntentGuards, RemoteKnows
  <2>5. RemoteKinds' /\ IntentGuards'
    BY <2>2, <2>4 DEF RunRootInv, RemoteKinds, IntentGuards, Busy
  <2>6. RemoteKnows'
    BY <2>2, <2>3, <2>4 DEF RunRootInv, RemoteKnows
  <2>7. FilesTrue'
    BY <2>1, <2>2, <2>3 DEF RunRootInv, FilesTrue
  <2> QED BY <2>5, <2>6, <2>7 DEF RunRootInv
<1>3. CASE UNCHANGED <<remote, intent, submission, result, pbs>>
  BY <1>3 DEF RunRootInv, RemoteKinds, IntentGuards, RemoteKnows, FilesTrue, Busy
<1> QED BY <1>1, <1>2, <1>3 DEF Next, Expire, WorkerCompletes, runRoot, vars

-----------------------------------------------------------------------------
(* What lies at the worker stays there *)

\* An action: submission.json, the inbox copy, and an outcome in the spool or in
\* receipt.json are written once.
EvidenceStays ==
    /\ submission # NoFile => submission' = submission
    /\ spool.inbox => spool'.inbox
    /\ spool.status \in Terminal => spool'.status = spool.status
    /\ result.status \in Terminal => result' = result

LEMMA EvidenceStaysStep ==
    ASSUME TypeOK, RunRootInv, [Next]_vars
    PROVE  EvidenceStays
<1>0. spool \in [inbox : BOOLEAN, status : {"none", "accepted"} \cup Terminal]
  BY TypeParts DEF WorkerTyped
<1>1. ASSUME NEW c \in Calls, Deliver(c) \/ DeliverHalf(c) PROVE EvidenceStays
  <2>1. UNCHANGED <<submission, result>> /\ (spool' = Received \/ spool' = [spool EXCEPT !.inbox = TRUE])
    BY <1>1 DEF Deliver, DeliverHalf, runRoot
  <2>2. spool'.inbox /\ (spool.status # "none" => spool'.status = spool.status)
    BY <1>0, <2>1 DEF Received
  <2>3. "none" \notin Terminal
    BY DEF Terminal
  <2> QED BY <2>1, <2>2, <2>3 DEF EvidenceStays
<1>2. ASSUME NEW c \in Calls, WriteSubmission(c) PROVE EvidenceStays
  BY <1>2 DEF WriteSubmission, EvidenceStays, RunRootInv, RemoteKnows
<1>3. ASSUME NEW outcome \in WorkerEnds, WorkerCompletes(outcome) PROVE EvidenceStays
  BY <1>0, <1>3 DEF WorkerCompletes, EvidenceStays, runRoot
<1>4. ASSUME NEW k \in PBSNos, PBSRuns(k) PROVE EvidenceStays
  <2>1. result.status \in Terminal => result # NoFile
    BY DEF Terminal, NoFile
  <2>2. result = NoFile
    BY <1>4 DEF PBSRuns, RunRootInv, FilesTrue
  <2> QED BY <1>4, <2>1, <2>2 DEF PBSRuns, EvidenceStays
<1>5. CASE UNCHANGED <<submission, spool, result>>
  BY <1>5 DEF EvidenceStays
<1> QED BY <1>1, <1>2, <1>3, <1>4, <1>5 DEF Next, CallStep, RemoteStep, Fault, Acquire, Read, Close, Poll, CallSubmit,
           CallStatus, Record, GiveUp, Check, WriteIntent, Qsub, ConfirmIntent, Crash, QsubRejects, RemoteDies, Expire,
           runRoot, vars

\* So what is backed stays backed.
LEMMA BackedStays ==
    ASSUME EvidenceStays, NEW r, BackedBy(r, submission, spool, result)
    PROVE  BackedBy(r, submission', spool', result')
BY DEF EvidenceStays, BackedBy

\* Claims of nothing.
LEMMA NothingClaimed ==
    ASSUME NEW sub, NEW sp, NEW res
    PROVE  /\ BackedBy(PendingRow, sub, sp, res)
           /\ BackedBy(NoAnswer, sub, sp, res)
           /\ BackedBy([status |-> "error", receipt |-> NoReceipt], sub, sp, res)
BY DEF BackedBy, PendingRow, NoAnswer, NoReceipt, Terminal

LEMMA WorkerAnswerBacked ==
    ASSUME NEW sub, NEW sp, NEW res, sp.inbox, NEW s, s = sp.status
    PROVE  BackedBy([status |-> s, receipt |-> WorkerReceipt], sub, sp, res)
BY DEF BackedBy, WorkerReceipt

-----------------------------------------------------------------------------
(* The controller's side *)

LEMMA ReadWantedStep ==
    ASSUME TypeOK, ReadWanted, [Next]_vars
    PROVE  ReadWanted'
<1>0. LeaseTyped /\ ControllerTyped
  BY TypeParts
<1>1. ASSUME NEW c \in Calls, Read(c) PROVE ReadWanted'
  <2>1. \A d \in Calls : d # c => pc'[d] = pc[d] /\ snap'[d] = snap[d]
    BY <1>0, <1>1 DEF Read, Goto, LeaseTyped, ControllerTyped
  <2>2. pc'[c] = "read" => Wanted(c) /\ snap'[c] = row
    BY <1>0, <1>1 DEF Read, Goto, LeaseTyped, ControllerTyped
  <2>3. Wanted(c) => /\ Kind[c] \in {"poll", "submit", "reconcile"} => row.status = "accepted"
                     /\ Kind[c] = "reconcile" => row.receipt.by = "pbs"
    BY BridgeAssumption DEF Wanted, HasPBSReceipt
  <2> QED BY <2>1, <2>2, <2>3 DEF ReadWanted
<1>2. ASSUME NEW c \in Calls, Close(c) \/ Crash(c) \/ Record(c) \/ GiveUp(c) PROVE ReadWanted'
  <2>1. /\ snap' = [snap EXCEPT ![c] = PendingRow]
        /\ pc'[c] # "read"
        /\ \A d \in Calls : d # c => pc'[d] = pc[d]
    BY <1>0, <1>2 DEF Close, Crash, Record, GiveUp, Gone, Forget, Goto, LeaseTyped
  <2> QED BY <1>0, <2>1 DEF ReadWanted, ControllerTyped
<1>3. ASSUME NEW c \in Calls, Acquire(c) \/ Deliver(c) \/ DeliverHalf(c) \/ Poll(c) \/ CallSubmit(c) \/ CallStatus(c)
      PROVE  ReadWanted'
  <2>1. /\ UNCHANGED snap
        /\ pc'[c] # "read"
        /\ \A d \in Calls : d # c => pc'[d] = pc[d]
    BY <1>0, <1>3 DEF Acquire, Deliver, DeliverHalf, Poll, CallSubmit, CallStatus, Sends, Goto, LeaseTyped
  <2> QED BY <2>1 DEF ReadWanted
<1>4. CASE UNCHANGED <<pc, snap>>
  BY <1>4 DEF ReadWanted
<1> QED BY <1>1, <1>2, <1>3, <1>4 DEF Next, CallStep, RemoteStep, Fault, Check, WriteIntent, Qsub, WriteSubmission,
           ConfirmIntent, QsubRejects, RemoteDies, Expire, WorkerCompletes, PBSRuns, controller, vars

\* A step gives every row, copy and answer that it leaves alone the same backing,
\* so the new ones are what is left to look at.
NewAnswerBacked(c) ==
    \A d \in Calls : answer'[d] # answer[d] =>
        d = c /\ BackedBy(answer'[c], submission', spool', result')

LEMMA ReplyBacked ==
    ASSUME TypeOK, NEW c \in Calls, NEW s, NEW r, Reply(c, s, r) \/ Answer(c, s, r),
           BackedBy([status |-> s, receipt |-> r], submission', spool', result')
    PROVE  NewAnswerBacked(c)
<1>1. answer \in [Calls -> Answers]
  BY TypeParts DEF ControllerTyped
<1> QED BY <1>1 DEF Reply, Answer, NewAnswerBacked

LEMMA AnswersAreBacked ==
    ASSUME BridgeInv, EvidenceStays, NEW c \in Calls, CallStep(c) \/ RemoteStep(c) \/ Fault(c)
    PROVE  NewAnswerBacked(c)
<1> USE DEF BridgeInv
<1>0. ControllerTyped /\ WorkerTyped
  BY TypeParts
<1>1. CASE Close(c) \/ Crash(c) \/ Record(c) \/ GiveUp(c)
  <2>1. answer' = [answer EXCEPT ![c] = NoAnswer]
    BY <1>1 DEF Close, Crash, Record, GiveUp, Gone, Forget
  <2> QED BY <1>0, <2>1, NothingClaimed DEF NewAnswerBacked, ControllerTyped
<1>2. CASE Deliver(c)
  <2>1. spool' = Received /\ Answer(c, Received.status, WorkerReceipt) /\ Received.inbox
    BY <1>2 DEF Deliver, Received
  <2>2. BackedBy([status |-> Received.status, receipt |-> WorkerReceipt], submission', spool', result')
    BY <2>1, WorkerAnswerBacked
  <2> QED BY <2>1, <2>2, ReplyBacked
<1>3. CASE Poll(c)
  <2>1. UNCHANGED <<submission, spool, result>>
    BY <1>3 DEF Poll, runRoot
  <2>2. spool.status # "none" =>
          BackedBy([status |-> spool.status, receipt |-> WorkerReceipt], submission', spool', result')
    BY <2>1, WorkerAnswerBacked DEF Evidence
  <2>3. BackedBy([status |-> "error", receipt |-> NoReceipt], submission', spool', result')
    BY NothingClaimed
  <2> QED BY <1>3, <2>2, <2>3, ReplyBacked DEF Poll
<1>4. CASE DeliverHalf(c) \/ QsubRejects(c) \/ RemoteDies(c)
  <2>1. BackedBy([status |-> "error", receipt |-> NoReceipt], submission', spool', result')
    BY NothingClaimed
  <2> QED BY <1>4, <2>1, ReplyBacked DEF DeliverHalf, QsubRejects, RemoteDies, Refused
<1>5. CASE CallStatus(c)
  <2>1. UNCHANGED <<submission, spool, result>> /\ StatusRead(c)
    BY <1>5 DEF CallStatus, runRoot
  <2>2. snap[c].receipt.by = "pbs" /\ snap[c].status = "accepted"
    BY <1>5, BridgeAssumption DEF CallStatus, Sends, ReadWanted
  <2>3. /\ submission # NoFile
        /\ submission.owner = snap[c].receipt.owner
        /\ spool.inbox
    BY <2>2 DEF Evidence, Backed, BackedBy
  <2>4. result.status \in Terminal => result.job = submission.job
    <3>1. result.status \in Terminal => result # NoFile
      BY DEF Terminal, NoFile
    <3>2. result # NoFile => result.job \in PBSNos /\ pbs[result.job].status # "none"
      BY DEF RunRootInv, FilesTrue
    <3>3. submission.job \in PBSNos /\ pbs[submission.job].status # "none"
      BY <2>3 DEF RunRootInv, FilesTrue
    <3> QED BY <3>1, <3>2, <3>3 DEF RunRootInv, FilesTrue
  <2>5. result.status \in Terminal =>
          BackedBy([status |-> result.status, receipt |-> PBSReceipt(result.job, snap[c].receipt.owner)],
                   submission', spool', result')
    BY <2>1, <2>3, <2>4 DEF BackedBy, PBSReceipt
  <2>6. BackedBy([status |-> "error", receipt |-> NoReceipt], submission', spool', result')
    BY NothingClaimed
  <2> QED BY <2>1, <2>5, <2>6, ReplyBacked DEF StatusRead
<1>6. CASE Check(c)
  <2>1. UNCHANGED <<submission, spool, result>> /\ spool.inbox
    BY <1>6 DEF Check, runRoot, Evidence
  <2>2. submission # NoFile /\ submission.owner = OwnerOf[c] =>
          BackedBy([status |-> "accepted", receipt |-> PBSReceipt(submission.job, OwnerOf[c])],
                   submission', spool', result')
    BY <2>1 DEF BackedBy, PBSReceipt, Terminal
  <2>3. BackedBy([status |-> "error", receipt |-> NoReceipt], submission', spool', result')
    BY NothingClaimed
  <2>4. CASE UNCHANGED answer
    BY <2>4 DEF NewAnswerBacked
  <2> QED BY <1>6, <2>2, <2>3, <2>4, ReplyBacked DEF Check, Refused
<1>7. CASE ConfirmIntent(c)
  <2>1. UNCHANGED <<submission, spool, result>> /\ spool.inbox
    BY <1>7 DEF ConfirmIntent, Evidence
  <2>2. submission = [owner |-> OwnerOf[c], status |-> "accepted", job |-> remote[c].job]
    BY <1>7 DEF ConfirmIntent, RunRootInv, RemoteKnows
  <2>3. submission # NoFile
    BY <2>2 DEF NoFile
  <2>4. BackedBy([status |-> "accepted", receipt |-> PBSReceipt(remote[c].job, OwnerOf[c])],
                 submission', spool', result')
    BY <2>1, <2>2, <2>3 DEF BackedBy, PBSReceipt, Terminal
  <2> QED BY <1>7, <2>4, ReplyBacked DEF ConfirmIntent
<1>8. CASE UNCHANGED answer
  BY <1>8 DEF NewAnswerBacked
<1> QED BY <1>1, <1>2, <1>3, <1>4, <1>5, <1>6, <1>7, <1>8 DEF CallStep, RemoteStep, Fault, Acquire, Read, CallSubmit,
           WriteIntent, Qsub, WriteSubmission, controller

LEMMA EvidenceCallStep ==
    ASSUME BridgeInv, EvidenceStays, NEW c \in Calls, CallStep(c) \/ RemoteStep(c) \/ Fault(c)
    PROVE  Evidence'
<1> USE DEF BridgeInv
<1>0. ControllerTyped /\ WorkerTyped
  BY TypeParts
<1>1. (spool.status # "none" => spool.inbox)'
  <2>1. CASE Deliver(c) \/ DeliverHalf(c)
    BY <1>0, <2>1 DEF Deliver, DeliverHalf, Received, WorkerTyped
  <2>2. CASE UNCHANGED spool
    BY <2>2 DEF Evidence
  <2> QED BY <2>1, <2>2 DEF CallStep, RemoteStep, Fault, Acquire, Read, Close, Poll, CallSubmit, CallStatus, Record,
             GiveUp, Check, WriteIntent, Qsub, WriteSubmission, ConfirmIntent, Crash, QsubRejects, RemoteDies
<1>2. \A d \in Calls : remote'[d].step # "none" => spool'.inbox
  <2>1. CASE CallSubmit(c)
    <3>1. spool.inbox
      BY <2>1 DEF CallSubmit, Sends, ReadWanted, Evidence, Backed, BackedBy
    <3> QED BY <3>1 DEF EvidenceStays
  <2>2. CASE \E s \in Remotes : remote[c].step # "none" /\ remote' = [remote EXCEPT ![c] = s]
    BY <1>0, <2>2 DEF Evidence, EvidenceStays, WorkerTyped
  <2>3. CASE remote[c].step # "none" /\ \E s \in {"checked", "intended", "recorded"} :
               remote' = [remote EXCEPT ![c].step = s]
    BY <1>0, <2>3 DEF Evidence, EvidenceStays, WorkerTyped
  <2>4. CASE UNCHANGED remote
    BY <2>4 DEF Evidence, EvidenceStays
  <2>5. [step |-> "none", job |-> 0] \in Remotes /\ \A k \in PBSNos : [step |-> "queued", job |-> k] \in Remotes
    BY BridgeAssumption DEF Remotes, PBSNos
  <2>6. CASE RemoteStep(c)
    BY <2>2, <2>3, <2>4, <2>5, <2>6 DEF RemoteStep, Check, WriteIntent, Qsub, WriteSubmission, ConfirmIntent, Refused, RemoteEnds
  <2>7. CASE QsubRejects(c) \/ RemoteDies(c)
    BY <2>2, <2>5, <2>7 DEF QsubRejects, RemoteDies, Refused, RemoteEnds
  <2> QED BY <2>1, <2>4, <2>6, <2>7 DEF CallStep, Fault, Acquire, Read, Close, Deliver, Poll, CallStatus, Record, GiveUp,
             Crash, DeliverHalf
<1>3. BackedBy(row', submission', spool', result')
  <2>1. row' = row \/ row' = answer[c]
    BY DEF CallStep, RemoteStep, Fault, Acquire, Read, Close, Deliver, Poll, CallSubmit, CallStatus, Record, GiveUp, Check,
       WriteIntent, Qsub, WriteSubmission, ConfirmIntent, Crash, DeliverHalf, QsubRejects, RemoteDies, controller
  <2> QED BY <2>1, BackedStays DEF Evidence, Backed
<1>4. ASSUME NEW d \in Calls PROVE BackedBy(snap'[d], submission', spool', result')
  <2>1. snap'[d] \in {snap[d], row, PendingRow}
    BY <1>0 DEF CallStep, RemoteStep, Fault, Acquire, Read, Close, Deliver, Poll, CallSubmit, CallStatus, Record, GiveUp,
       Check, WriteIntent, Qsub, WriteSubmission, ConfirmIntent, Crash, DeliverHalf, QsubRejects, RemoteDies, controller,
       Gone, Forget, ControllerTyped
  <2> QED BY <2>1, BackedStays, NothingClaimed DEF Evidence, Backed
<1>5. ASSUME NEW d \in Calls PROVE BackedBy(answer'[d], submission', spool', result')
  BY BackedStays, AnswersAreBacked DEF Evidence, Backed, NewAnswerBacked
<1> QED BY <1>1, <1>2, <1>3, <1>4, <1>5 DEF Evidence, Backed

LEMMA EvidenceInvariant ==
    ASSUME BridgeInv, [Next]_vars
    PROVE  Evidence'
<1>0. EvidenceStays
  BY EvidenceStaysStep DEF BridgeInv
<1>1. ASSUME NEW c \in Calls, CallStep(c) \/ RemoteStep(c) \/ Fault(c) PROVE Evidence'
  BY <1>0, <1>1, EvidenceCallStep
<1>2. CASE UNCHANGED <<row, snap, answer, remote>> /\ (spool'.status # "none" => spool'.inbox)
  BY <1>0, <1>2, BackedStays DEF BridgeInv, Evidence, Backed, EvidenceStays
<1>3. CASE Expire \/ (\E k \in PBSNos : PBSRuns(k)) \/ UNCHANGED vars
  BY <1>2, <1>3 DEF Expire, PBSRuns, controller, vars, BridgeInv, Evidence
<1>4. ASSUME NEW outcome \in WorkerEnds, WorkerCompletes(outcome) PROVE Evidence'
  BY <1>0, <1>2, <1>4 DEF WorkerCompletes, controller, EvidenceStays
<1> QED BY <1>1, <1>3, <1>4 DEF Next

-----------------------------------------------------------------------------
(* Theorems *)

LEMMA BridgeInitInv == Init => BridgeInv
<1>1. SUFFICES ASSUME Init PROVE BridgeInv
  OBVIOUS
<1>2. TypeOK
  BY <1>1, BridgeInitTyped
<1>3. LeaseHeld /\ ReadWanted
  BY <1>1 DEF Init, LeaseHeld, Undecided, ReadWanted
<1>4. RunRootInv
  BY <1>1 DEF Init, RunRootInv, RemoteKinds, IntentGuards, RemoteKnows, FilesTrue, Busy, NoFile
<1>5. Evidence
  BY <1>1, NothingClaimed DEF Init, Evidence, Backed
<1> QED BY <1>2, <1>3, <1>4, <1>5 DEF BridgeInv

LEMMA BridgeInvStep ==
    ASSUME BridgeInv, ~Overlap, DistinctSubmitters, [Next]_vars
    PROVE  BridgeInv'
<1>1. TypeOK' /\ LeaseHeld'
  BY BridgeTypeStep, LeaseHeldStep DEF BridgeInv
<1>2. RunRootInv' /\ ReadWanted' /\ Evidence'
  BY RunRootInvariant, ReadWantedStep, EvidenceInvariant DEF BridgeInv
<1> QED BY <1>1, <1>2 DEF BridgeInv

LEMMA BridgeInvariant ==
    ASSUME ~Overlap, DistinctSubmitters
    PROVE  Spec => []BridgeInv
<1>1. Init => BridgeInv
  BY BridgeInitInv
<1>2. BridgeInv /\ [Next]_vars => BridgeInv'
  BY BridgeInvStep
<1> QED BY <1>1, <1>2, PTL DEF Spec

\* Every variable of the bridge keeps its type, whatever overlaps.
THEOREM BridgeTypeCorrect == Spec => []TypeOK
<1>1. Init => TypeOK
  BY BridgeInitTyped
<1>2. TypeOK /\ [Next]_vars => TypeOK'
  BY BridgeTypeStep
<1> QED BY <1>1, <1>2, PTL DEF Spec

\* submit_once may be repeated, crash, time out or race a second controller:
\* the intent file of submit_worker lets at most one qsub through, for any
\* number of commands, when each submission reaches its intent under the lease
\* it took and submissions carry owner ids of their own.
THEOREM OnePBSJob ==
    ASSUME ~Overlap, DistinctSubmitters
    PROVE  Spec => []AtMostOneQsub
<1>1. BridgeInv => AtMostOneQsub
  <2>1. SUFFICES ASSUME BridgeInv PROVE Cardinality(Submitted) <= 1
    BY DEF AtMostOneQsub
  <2>2. \A j, k \in Submitted : j = k
    BY <2>1 DEF BridgeInv, RunRootInv, FilesTrue, Submitted
  <2>3. CASE Submitted = {}
    BY <2>3, FS_EmptySet
  <2>4. ASSUME NEW k \in Submitted PROVE Cardinality(Submitted) <= 1
    <3>1. Submitted = {k}
      BY <2>2, <2>4
    <3> QED BY <3>1, FS_Singleton
  <2> QED BY <2>3, <2>4
<1>2. Spec => []BridgeInv
  BY BridgeInvariant
<1> QED BY <1>1, <1>2, PTL

\* Whatever record_transport_receipt has put into the row lies at the worker:
\* the receipt names the PBS job and the owner of submission.json, and an
\* outcome is the one in the spool or in the receipt.json of that job.
THEOREM RecordedOutcomesHaveEvidence ==
    ASSUME ~Overlap, DistinctSubmitters
    PROVE  Spec => []OutcomeHasEvidence
<1>1. BridgeInv => OutcomeHasEvidence
  <2>1. SUFFICES ASSUME BridgeInv PROVE OutcomeHasEvidence
    OBVIOUS
  <2>2. BackedBy(row, submission, spool, result)
    BY <2>1 DEF BridgeInv, Evidence, Backed
  <2>3. row.status # "pending" => row.status \in {"accepted"} \cup Terminal
    BY <2>1, TypeParts DEF BridgeInv, ControllerTyped, Rows
  <2> QED BY <2>2, <2>3 DEF OutcomeHasEvidence, BackedBy, HasPBSReceipt
<1>2. Spec => []BridgeInv
  BY BridgeInvariant
<1> QED BY <1>1, <1>2, PTL

\* The evidence itself is never rewritten: a repeated or late submit_worker, a
\* repeated receive and a second outcome leave submission.json, the inbox copy,
\* the spool's outcome and receipt.json as they are.
THEOREM EvidenceIsNeverRewritten ==
    ASSUME ~Overlap, DistinctSubmitters
    PROVE  Spec => [][EvidenceStays]_vars
<1>1. BridgeInv /\ [Next]_vars => [EvidenceStays]_vars
  BY EvidenceStaysStep DEF BridgeInv
<1>2. Spec => []BridgeInv
  BY BridgeInvariant
<1> QED BY <1>1, <1>2, PTL DEF Spec
=============================================================================
