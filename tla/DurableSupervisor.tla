------------------------- MODULE DurableSupervisor -------------------------
(***************************************************************************)
(* The durable run loop: processes that drive one run's segments            *)
(* (scripts/durable_run_loop.py, durable_controller.py) over the ledger's   *)
(* segment table (sqlite_segment_controller.py, RunSegments), with two JSON *)
(* sidecar files per segment, the submission intent and the receipt, and    *)
(* PBS at the other end.  A process may crash before every step; an answer  *)
(* of PBS may be lost.                                                      *)
(*                                                                          *)
(* Abstracted: clock arithmetic (when a segment is due is a choice), dry    *)
(* runs, the monitor's JSONL log, receipts restored from the outbox, the    *)
(* difference of a completed and a failed PBS job.  The in-memory copy of a *)
(* receipt is not kept apart from its file.  The loop has no checkpoint     *)
(* callback and records no cleanup intents, so those tables stand still.    *)
(***************************************************************************)
EXTENDS RunSegments, FiniteSetsExt

CONSTANTS
    Procs,          \* processes of durable_run_loop, now or later
    OwnerOf,        \* the --owner-id of a process (by default the same for all)
    Overlap         \* may a process be started while another one is up?

ASSUME SupervisorAssumption ==
    /\ OwnerOf \in [Procs -> Owners]
    /\ Overlap \in BOOLEAN

VARIABLES
    sup,            \* memory of each process
    intent,         \* segment-N.submission.intent.json
    receipt,        \* segment-N.submission.json
    pbs,            \* the PBS job of a segment
    qsubs           \* submissions of a segment that reached PBS

dvars == <<sup, intent, receipt, pbs, qsubs>>
vars == <<svars, dvars>>

PC == {"down", "restore", "load", "open", "submit", "intent", "call",
       "receipt", "seal", "loop", "flush", "finish", "exit"}
Down == [pc |-> "down", fence |-> 0, identity |-> NoIdentity, active |-> 0,
         next |-> 1, started |-> FALSE, closing |-> "none"]

\* A sidecar: its status and the identity its submission_digest is made of.
NoFile == [status |-> "none", owner |-> NoOwner, identity |-> NoIdentity]
File(p, status) ==
    [status |-> status, owner |-> OwnerOf[p], identity |-> sup[p].identity]
Ours(p, file) ==
    file.owner = OwnerOf[p] /\ file.identity = sup[p].identity

Init ==
    /\ SInit
    /\ sup = [p \in Procs |-> Down]
    /\ intent = [s \in SegmentNos |-> NoFile]
    /\ receipt = [s \in SegmentNos |-> NoFile]
    /\ pbs = [s \in SegmentNos |-> "none"]
    /\ qsubs = [s \in SegmentNos |-> 0]

-----------------------------------------------------------------------------
(* Steps of a process *)

Goto(p, pc) == sup' = [sup EXCEPT ![p].pc = pc]

\* An exception: in start() the loop ends with start_error; in a later tick
\* it is counted, and the loop goes on or gives up (max_consecutive_errors).
Raises(p) ==
    \/ sup[p].started /\ Goto(p, "loop")
    \/ Goto(p, "exit")

KeepStore == UNCHANGED svars
KeepWorld == UNCHANGED <<intent, receipt, pbs, qsubs>>
KeepTables == UNCHANGED <<attempts, checkpoints, cleanup>>
OnlySup == KeepStore /\ KeepWorld

\* main enters the context manager controller_lease.
MutStart(p) ==                            \* mutant: takes over an open lease
    /\ sup[p].pc = "down"
    /\ Overlap \/ \A q \in Procs : sup[q].pc = "down"
    /\ lease.fence + 1 \in Fences
    /\ lease' = [owner |-> OwnerOf[p], fence |-> lease.fence + 1, open |-> TRUE]
    /\ \E id \in Identities :
          sup' = [sup EXCEPT ![p] = [Down EXCEPT !.pc = "restore", !.identity = id,
                                                 !.fence = lease'.fence]]
    /\ UNCHANGED <<segments, events, intent, receipt, pbs, qsubs>>
    /\ KeepTables
Start(p) ==
    /\ sup[p].pc = "down"
    /\ Overlap \/ \A q \in Procs : sup[q].pc = "down"
    /\ AcquireLease(OwnerOf[p])
    /\ \E id \in Identities :
          sup' = [sup EXCEPT ![p] = [Down EXCEPT !.pc = "restore", !.identity = id,
                                                 !.fence = lease'.fence]]
    /\ UNCHANGED <<segments, events, intent, receipt, pbs, qsubs>>
    /\ KeepTables

\* restore_run_state: adopt an active segment that another fence owns; one
\* with another manifest or capsule makes adopt_run_segment raise.
Restore(p) ==
    LET mine(s) == OwnedBy(segments[s], OwnerOf[p], sup[p].fence)
    IN  /\ sup[p].pc = "restore"
        /\ \/ /\ \E s \in Active :
                    AdoptRunSegment(s, OwnerOf[p], sup[p].fence, sup[p].identity)
              /\ Goto(p, "load")
              /\ UNCHANGED lease /\ KeepTables /\ KeepWorld
           \/ /\ \A s \in Active : mine(s)
              /\ Goto(p, "load")
              /\ OnlySup
           \/ /\ \E s \in Active :
                    /\ ~mine(s)
                    /\ \/ segments[s].identity # sup[p].identity
                       \/ ~HoldsLease(OwnerOf[p], sup[p].fence)
              /\ Goto(p, "exit")
              /\ OnlySup

\* _load_submission_state: the active segment, the next sequence, and the
\* receipts; a receipt of another owner or identity raises.
OwnActive(p) ==
    {s \in Active : /\ OwnedBy(segments[s], OwnerOf[p], sup[p].fence)
                    /\ segments[s].identity = sup[p].identity}
Seen == {s \in SegmentNos : Exists(s) \/ receipt[s].status # "none"}
NextSequence == Max(Seen \cup {0}) + 1
Load(p) ==
    /\ sup[p].pc = "load"
    /\ \/ /\ \A s \in SegmentNos : receipt[s].status # "none" => Ours(p, receipt[s])
          /\ sup' = [sup EXCEPT
                ![p].pc = "open",
                ![p].active = IF OwnActive(p) = {} THEN 0 ELSE Min(OwnActive(p)),
                ![p].next = NextSequence]
       \/ /\ \E s \in SegmentNos : receipt[s].status # "none" /\ ~Ours(p, receipt[s])
          /\ Goto(p, "exit")
    /\ OnlySup

\* _open_segment
MutOpened(p, s) ==                        \* mutant: forgets to count on
    sup' = [sup EXCEPT ![p].pc = "submit", ![p].active = s]
Opened(p, s) ==
    sup' = [sup EXCEPT ![p].pc = "submit", ![p].active = s, ![p].next = s + 1]
OpenSegment(p) ==
    /\ sup[p].pc = "open"
    /\ \/ /\ sup[p].active # 0
          /\ Goto(p, "submit")
          /\ OnlySup
       \/ /\ sup[p].active = 0
          /\ sup[p].next \in SegmentNos
          /\ LET s == sup[p].next
                 o == OwnerOf[p]
                 f == sup[p].fence
             IN  \/ /\ BeginRunSegment(s, o, f, sup[p].identity)
                    /\ Opened(p, s)
                    /\ UNCHANGED lease /\ KeepTables /\ KeepWorld
                 \/ /\ HoldsLease(o, f)
                    /\ Compatible(s, o, f, sup[p].identity)
                    /\ Opened(p, s)
                    /\ OnlySup
                 \/ /\ \/ ~HoldsLease(o, f)
                       \/ Exists(s) /\ ~Compatible(s, o, f, sup[p].identity)
                       \/ ~Exists(s) /\ Active # {}
                    /\ Raises(p)
                    /\ OnlySup

\* submit_segment up to the intent: reuse a receipt, reconcile an intent that
\* was left behind by asking PBS, or go on to write an intent.
MutSubmitSegment(p) ==                    \* mutant: an old intent is ignored
    LET s == sup[p].active
    IN  /\ sup[p].pc = "submit"
        /\ \/ receipt[s].status # "none" /\ Goto(p, "loop")
           \/ receipt[s].status = "none" /\ Goto(p, "intent")
        /\ OnlySup
SubmitSegment(p) ==
    LET s == sup[p].active
        left == intent[s].status = "submitting" /\ receipt[s].status = "none"
    IN  /\ sup[p].pc = "submit"
        /\ \/ /\ receipt[s].status # "none" /\ Ours(p, receipt[s])
              /\ sup' = [sup EXCEPT ![p].pc = "loop", ![p].started = TRUE]
           \/ /\ \/ receipt[s].status # "none" /\ ~Ours(p, receipt[s])
                 \/ /\ receipt[s].status = "none" /\ intent[s].status # "none"
                    /\ ~Ours(p, intent[s])
              /\ Raises(p)
           \/ /\ receipt[s].status = "none"
              /\ \/ intent[s].status = "none"
                 \/ intent[s].status = "submitted" /\ Ours(p, intent[s])
              /\ Goto(p, "intent")
           \/ /\ left /\ Ours(p, intent[s])
              /\ \/ pbs[s] # "none" /\ Goto(p, "receipt")      \* status answers
                 \/ sup' = [sup EXCEPT ![p].pc = "loop", ![p].started = TRUE]
                 \/ Raises(p)                                  \* status fails
        /\ OnlySup

\* _persist_intent
WriteIntent(p) ==
    /\ sup[p].pc = "intent"
    /\ intent' = [intent EXCEPT ![sup[p].active] = File(p, "submitting")]
    /\ Goto(p, "call")
    /\ KeepStore /\ UNCHANGED <<receipt, pbs, qsubs>>

\* The call of pbs_client.submit: it reaches PBS and its answer comes back,
\* or the answer is lost, or it never gets there.  An exception is kept for
\* reconciliation (submitted_unknown) and the loop goes on.
CallSubmit(p) ==
    LET s == sup[p].active
        unknown == [sup EXCEPT ![p].pc = "loop", ![p].started = TRUE]
    IN  /\ sup[p].pc = "call"
        /\ \/ /\ pbs' = [pbs EXCEPT ![s] = IF @ = "none" THEN "queued" ELSE @]
              /\ qsubs' = [qsubs EXCEPT ![s] = @ + 1]
              /\ Goto(p, "receipt") \/ sup' = unknown
           \/ sup' = unknown /\ UNCHANGED <<pbs, qsubs>>
        /\ KeepStore /\ UNCHANGED <<intent, receipt>>

\* _persist_receipt: first the receipt, then the intent marked submitted.
ReceiptStatus(s) == IF pbs[s] = "queued" THEN "accepted" ELSE pbs[s]
PersistReceipt(p) ==
    LET s == sup[p].active
    IN  /\ sup[p].pc = "receipt"
        /\ receipt' = [receipt EXCEPT ![s] = File(p, ReceiptStatus(s))]
        /\ Goto(p, "seal")
        /\ KeepStore /\ UNCHANGED <<intent, pbs, qsubs>>
SealIntent(p) ==
    /\ sup[p].pc = "seal"
    /\ intent' = [intent EXCEPT ![sup[p].active] = File(p, "submitted")]
    /\ sup' = [sup EXCEPT ![p].pc = "loop", ![p].started = TRUE]
    /\ KeepStore /\ UNCHANGED <<receipt, pbs, qsubs>>

\* reconcile: an accepted receipt whose PBS job ended becomes terminal.
Reconcile(p, s) ==
    /\ sup[p].pc = "loop"
    /\ HoldsLease(OwnerOf[p], sup[p].fence)
    /\ receipt[s].status = "accepted"
    /\ pbs[s] = "ended"
    /\ receipt' = [receipt EXCEPT ![s] = File(p, pbs[s])]
    /\ intent' = [intent EXCEPT ![s] = File(p, "submitted")]
    /\ KeepStore /\ UNCHANGED <<sup, pbs, qsubs>>

\* tick: a heartbeat under the fence; then the segment is opened, left alone,
\* or due.  closing says how the due segment will be closed.
Tick(p) ==
    /\ sup[p].pc = "loop"
    /\ \/ /\ sup[p].active = 0                        \* tick calls start()
          /\ Goto(p, "open")
       \/ /\ sup[p].active # 0
          /\ HoldsLease(OwnerOf[p], sup[p].fence)
          /\ \E way \in {"roll", "planned_end"} :
                sup' = [sup EXCEPT ![p].pc = "flush", ![p].closing = way]
       \/ /\ sup[p].active # 0
          /\ ~HoldsLease(OwnerOf[p], sup[p].fence)
          /\ Raises(p)
    /\ OnlySup

\* A signal or the runtime limit: stop(); max_ticks: leave without closing.
StopLoop(p) ==
    /\ sup[p].pc = "loop"
    /\ \/ Goto(p, "exit")
       \/ /\ sup[p].active # 0
          /\ sup' = [sup EXCEPT ![p].pc = "flush", ![p].closing = "stop"]
    /\ OnlySup

\* checkpoint_and_flush without a callback: no attempt may be running, under
\* any fence; otherwise the supervisor is blocked and its loop ends.
Flush(p) ==
    /\ sup[p].pc = "flush"
    /\ \/ (\A a \in Attempts : attempts[a] # "running") /\ Goto(p, "finish")
       \/ (\E a \in Attempts : attempts[a] = "running") /\ Goto(p, "exit")
    /\ OnlySup

\* _finish, and where checkpoint_and_roll or stop goes from there.
ClosedAs(p) == IF sup[p].closing = "stop" THEN "aborted" ELSE "finished"
FinishSegment(p) ==
    LET s == sup[p].active
        o == OwnerOf[p]
        f == sup[p].fence
        done == sup' = [sup EXCEPT
                   ![p].pc = IF sup[p].closing = "roll" THEN "open" ELSE "exit",
                   ![p].active = 0, ![p].closing = "none"]
    IN  /\ sup[p].pc = "finish"
        /\ \/ /\ FinishRunSegment(s, o, f, ClosedAs(p))
              /\ done
              /\ UNCHANGED lease /\ KeepTables /\ KeepWorld
           \/ /\ HoldsLease(o, f)
              /\ OwnedBy(segments[s], o, f)
              /\ segments[s].status = ClosedAs(p)
              /\ done
              /\ OnlySup
           \/ /\ \/ ~HoldsLease(o, f)
                 \/ ~OwnedBy(segments[s], o, f)
                 \/ segments[s].status \notin {"running", ClosedAs(p)}
              /\ \/ sup[p].closing # "stop" /\ Raises(p)
                 \/ sup[p].closing = "stop" /\ Goto(p, "exit")
              /\ OnlySup

\* The end of controller_lease: release, or find that the lease is newer.
Leave(p) ==
    /\ sup[p].pc = "exit"
    /\ \/ CloseLease(OwnerOf[p], sup[p].fence)
       \/ (lease.owner # OwnerOf[p] \/ lease.fence # sup[p].fence) /\ UNCHANGED lease
    /\ sup' = [sup EXCEPT ![p] = Down]
    /\ UNCHANGED <<segments, events>> /\ KeepTables /\ KeepWorld

Crash(p) ==
    /\ sup[p].pc # "down"
    /\ sup' = [sup EXCEPT ![p] = Down]
    /\ OnlySup

-----------------------------------------------------------------------------
(* The world *)

\* Nobody renewed the lease in time.
LeaseRunsOut ==
    /\ lease.open
    /\ CloseLease(lease.owner, lease.fence)
    /\ UNCHANGED <<segments, events, sup>> /\ KeepTables /\ KeepWorld

PBSJobEnds(s) ==
    /\ pbs[s] = "queued"
    /\ pbs' = [pbs EXCEPT ![s] = "ended"]
    /\ KeepStore /\ UNCHANGED <<sup, intent, receipt, qsubs>>

\* Attempts of the run move in the ledger.
LedgerStep ==
    /\ \E a \in Attempts : LedgerMovesAttempt(a)
    /\ UNCHANGED <<lease, segments, checkpoints, cleanup, events, sup>> /\ KeepWorld

ProcStep(p) ==
    \/ Restore(p) \/ Load(p) \/ OpenSegment(p) \/ SubmitSegment(p)
    \/ WriteIntent(p) \/ CallSubmit(p) \/ PersistReceipt(p) \/ SealIntent(p)
    \/ Tick(p) \/ Flush(p) \/ FinishSegment(p) \/ Leave(p)
    \/ \E s \in SegmentNos : Reconcile(p, s)

Next ==
    \/ \E p \in Procs :
          Start(p) \/ ProcStep(p) \/ StopLoop(p) \/ Crash(p)
    \/ \E s \in SegmentNos : PBSJobEnds(s)
    \/ LeaseRunsOut
    \/ LedgerStep

Spec == Init /\ [][Next]_vars

-----------------------------------------------------------------------------
(* Properties *)

\* Tables, files and memory hold what the code can put there.
TypeOK ==
    /\ STypeOK
    /\ sup \in [Procs -> [pc : PC, fence : 0..MaxFence,
                          identity : Identities \cup {NoIdentity},
                          active : 0..MaxSequence, next : 1..(MaxSequence + 1),
                          started : BOOLEAN,
                          closing : {"none", "roll", "planned_end", "stop"}]]
    /\ intent \in [SegmentNos -> [status : {"none", "submitting", "submitted"},
                                  owner : Owners \cup {NoOwner},
                                  identity : Identities \cup {NoIdentity}]]
    /\ receipt \in [SegmentNos -> [status : {"none", "accepted", "ended"},
                                   owner : Owners \cup {NoOwner},
                                   identity : Identities \cup {NoIdentity}]]
    /\ pbs \in [SegmentNos -> {"none", "queued", "ended"}]

\* "never submits the same segment twice when the acknowledgement is lost": as
\* long as processes run one after the other, whatever crashes and whatever
\* answer is lost, at most one submission of a segment reaches PBS, and a
\* receipt stands for one that did (submit_segment, _persist_receipt).
SubmittedOnce ==
    \A s \in SegmentNos :
        /\ qsubs[s] <= 1
        /\ receipt[s].status # "none" => pbs[s] # "none"

\* Segments are numbered without gaps, and every one below the newest is
\* closed: a rollover finishes one segment before it begins the next, also
\* when the process dies in between (checkpoint_and_roll, _open_segment).
SegmentsWithoutGaps ==
    \A s \in SegmentNos :
        Exists(s) => \A t \in 1..(s - 1) : segments[t].status \in Terminal

\* What a lone supervisor that holds the lease believes of its segment is
\* true: it is running, under its own fence, and no later one exists.  After a
\* crash between any two steps restore_run_state and _load_submission_state
\* rebuild exactly this, over a chain of segments that has no gaps.
SupervisorKnowsSegment ==
    /\ SegmentsWithoutGaps
    /\ \A p \in Procs :
          LET s == sup[p].active
          IN  s # 0 /\ HoldsLease(OwnerOf[p], sup[p].fence) =>
                 /\ s \in OwnActive(p)
                 /\ sup[p].pc \notin {"restore", "load"} => sup[p].next > Max(Seen)

\* The supervisors use the segment table only through its methods, so all it
\* promises holds here.
ImplementsSegments == SSpec

=============================================================================
