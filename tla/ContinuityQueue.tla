-------------------------- MODULE ContinuityQueue --------------------------
(***************************************************************************)
(* The JSON queue (scripts/continuity_controller.py): one state.json per    *)
(* run directory that init, enqueue, run and resume read and replace, each  *)
(* for as long as it holds the operating system's lock on controller.lock;  *)
(* a crash frees the lock and loses only what was not saved.  A child that  *)
(* was started lives on.  Commands that hold the lock exclude each other,   *)
(* so the file is what its holder last loaded.                              *)
(*                                                                          *)
(* Also here: the runtime state file with the health of a provider pool,    *)
(* written under a lock of its own by the run loop and by record-evidence.  *)
(* Abstracted: how output is classified, the validator (part of whether an  *)
(* attempt succeeds), the lease's JSON record, the event log.  init --force *)
(* and accept_existing_artifacts are operator overrides and left out.       *)
(***************************************************************************)
EXTENDS Integers, Sequences, SequencesExt

CONSTANTS
    Packs,          \* job ids that may be enqueued
    Needs,          \* depends_on of each
    Legs,           \* the transports of the attempts of each, in order
    Preexisting     \* jobs whose required artifact exists before they run

ASSUME QueueAssumption ==
    /\ Needs \in [Packs -> SUBSET Packs]
    /\ Legs \in [Packs -> Seq({"local", "ssh"})]
    /\ Preexisting \subseteq Packs

VARIABLES
    qfile,          \* state.json
    session,        \* the command that holds controller.lock, and its memory
    produced,       \* which attempt wrote a job's artifact; 0 before any, -1 none
    running,        \* children that are alive: pairs of job and attempt number
    launches,       \* how often each attempt was launched
    pool            \* runtime state: health of the pool, verdict on its model

queueVars == <<qfile, session, produced, running, launches, pool>>

Settled == {"completed", "failed", "blocked"}
NoSession == [pc |-> "none", job |-> "none", leg |-> 0, before |-> 0, error |-> "none"]
Errors == {"quota", "capability", "resource", "execution"}

QueueInit ==
    /\ qfile = [status |-> "absent", order |-> << >>,
                job |-> [j \in Packs |-> [status |-> "absent", failed |-> 0]]]
    /\ session = NoSession
    /\ produced = [j \in Packs |-> IF j \in Preexisting THEN 0 ELSE -1]
    /\ running = {}
    /\ launches = [j \in Packs |-> [i \in 1..Len(Legs[j]) |-> 0]]
    /\ pool = [health |-> "unknown", model |-> "unknown"]

Status(j) == qfile.job[j].status
OnlyFile == UNCHANGED <<session, produced, running, launches, pool>>

-----------------------------------------------------------------------------
(* Commands that hold the lock for one load and one save *)

\* command_init
InitRun ==
    /\ session = NoSession
    /\ qfile.status = "absent"
    /\ qfile' = [qfile EXCEPT !.status = "prepared"]
    /\ OnlyFile

\* command_enqueue: a job id that is in the queue raises.
Enqueue(j) ==
    /\ session = NoSession
    /\ qfile.status # "absent"
    /\ Status(j) = "absent"
    /\ qfile' = [qfile EXCEPT !.status = "queued", !.order = Append(@, j),
                              !.job[j].status = "queued"]
    /\ OnlyFile

\* command_resume: whatever is not completed and has its artifact goes to
\* review, also a job that never ran or that a crash left running.
Reviewable == {j \in Packs : Status(j) \notin {"absent", "completed"} /\ produced[j] >= 0}
Resume ==
    /\ session = NoSession
    /\ Reviewable # {}
    /\ qfile' = [qfile EXCEPT
          !.status = "attention",
          !.job = [j \in Packs |-> IF j \in Reviewable
                      THEN [@[j] EXCEPT !.status = "artifact_ready_needs_review"] ELSE @[j]]]
    /\ OnlyFile

-----------------------------------------------------------------------------
(* The run loop *)

StartRun ==
    /\ session = NoSession
    /\ qfile.status # "absent"
    /\ session' = [NoSession EXCEPT !.pc = "loop"]
    /\ UNCHANGED <<qfile, produced, running, launches, pool>>

\* _command_run_loop: the first row, in queue order, whose dependencies are
\* completed.
MutRunnable(j) ==                         \* mutant: takes up what a crash left
    /\ Status(j) \in {"queued", "retry", "running"}
    /\ \A d \in Needs[j] : Status(d) = "completed"
Runnable(j) ==
    /\ Status(j) \in {"queued", "retry"}
    /\ \A d \in Needs[j] : Status(d) = "completed"
IsFirst(j) ==
    /\ Runnable(j)
    /\ \E n \in 1..Len(qfile.order) :
          qfile.order[n] = j /\ \A k \in 1..(n - 1) : ~Runnable(qfile.order[k])

\* run_job saves the job as running.  A job without attempts is failed in
\* memory only: the file still has it queued when the loop loads it again.
BeginJob ==
    /\ session.pc = "loop"
    /\ \E j \in Packs :
          /\ IsFirst(j)
          /\ IF Legs[j] = << >>
             THEN UNCHANGED <<qfile, session>>
             ELSE /\ qfile' = [qfile EXCEPT !.job[j].status = "running"]
                  /\ session' = [session EXCEPT !.pc = "build", !.job = j, !.leg = 1]
    /\ UNCHANGED <<produced, running, launches, pool>>

\* Nothing is runnable: the run is over, or the loop sleeps or gives up.
EndRound ==
    /\ session.pc = "loop"
    /\ \A j \in Packs : ~Runnable(j)
    /\ LET open == {j \in Packs : Status(j) \notin
                       {"absent", "artifact_ready_needs_review"} \cup Settled}
           all == \A j \in Packs : Status(j) \in {"absent", "completed"}
       IN  \/ /\ open = {}
              /\ qfile' = [qfile EXCEPT !.status = IF all THEN "completed" ELSE "attention"]
              /\ session' = NoSession
           \/ /\ open # {}
              /\ session' \in {session, NoSession}
              /\ UNCHANGED qfile
    /\ UNCHANGED <<produced, running, launches, pool>>

\* One attempt: the baseline of its artifact, then the child, or no child when
\* build_attempt or the launch admission raises.
Launch ==
    LET j == session.job
        i == session.leg
    IN  /\ session.pc = "build"
        /\ \/ /\ running' = running \cup {<<j, i>>}
              /\ launches' = [launches EXCEPT ![j][i] = @ + 1]
              /\ session' = [session EXCEPT !.pc = "wait", !.before = produced[j]]
           \/ /\ session' = [session EXCEPT !.pc = "feedback", !.error = "execution"]
              /\ UNCHANGED <<running, launches>>
        /\ UNCHANGED <<qfile, produced, pool>>

ChildWritesArtifact(j, i) ==
    /\ <<j, i>> \in running
    /\ produced' = [produced EXCEPT ![j] = i]
    /\ UNCHANGED <<qfile, session, running, launches, pool>>

\* The child exits or is killed with its group at the timeout.  An attempt
\* succeeds when it returned 0, validated, and the artifact is there and not
\* what it was before.
MutIsFresh(before, after) == after >= 0   \* mutant: any artifact will do
IsFresh(before, after) == after >= 0 /\ after # before
JudgeAttempt ==
    LET j == session.job
    IN  /\ session.pc = "wait"
        /\ running' = running \ {<<j, session.leg>>}
        /\ session' \in
              {[session EXCEPT !.pc = "feedback", !.error = e] :
                  e \in Errors \cup {ok \in {"none"} : IsFresh(session.before, produced[j])}}
        /\ UNCHANGED <<qfile, produced, launches, pool>>

\* record_runtime_feedback: a capability error is the model's, not the pool's.
PoolAfter(error) ==
    CASE error = "none" -> [health |-> "ready", model |-> "accepted"]
      [] error = "capability" -> [pool EXCEPT !.model = "rejected"]
      [] error = "quota" -> [pool EXCEPT !.health = "cooldown"]
      [] OTHER -> [pool EXCEPT !.health = "degraded"]
Feedback ==
    /\ session.pc = "feedback"
    /\ pool' = PoolAfter(session.error)
    /\ session' = [session EXCEPT !.pc = "save"]
    /\ UNCHANGED <<qfile, produced, running, launches>>

\* record_operator_evidence, from another process.
RecordEvidence(error) ==
    /\ pool' = PoolAfter(error)
    /\ UNCHANGED <<qfile, session, produced, running, launches>>

\* The save after an attempt.
SaveAttempt ==
    LET j == session.job
    IN  /\ session.pc = "save"
        /\ \/ /\ session.error = "none"
              /\ qfile' = [qfile EXCEPT !.job[j].status = "completed"]
              /\ session' = [NoSession EXCEPT !.pc = "loop"]
           \/ /\ session.error # "none"
              /\ qfile' = [qfile EXCEPT !.job[j].failed = @ + 1]
              /\ session' = [session EXCEPT !.pc = "next"]
        /\ UNCHANGED <<produced, running, launches, pool>>

\* resource_fallback_available, and the decision to go on or give up.  Which
\* errors an attempt falls back on (fallback_on) is the packet's.
ResourceFallback(j, i) ==
    /\ session.error = "resource"
    /\ \E k \in (i + 1)..Len(Legs[j]) : Legs[j][k] = "ssh"
MayGoOn(j, i) ==
    /\ i < Len(Legs[j])
    /\ session.error \in {"quota", "capability"} \/ ResourceFallback(j, i)
NextAttempt ==
    LET j == session.job
        i == session.leg
    IN  /\ session.pc = "next"
        /\ \/ /\ MayGoOn(j, i)
              /\ session' = [session EXCEPT !.pc = "build", !.leg = i + 1, !.error = "none"]
              /\ UNCHANGED qfile
           \/ /\ ~MayGoOn(j, i)
              /\ qfile' = [qfile EXCEPT !.job[j].status = "failed"]
              /\ session' = [NoSession EXCEPT !.pc = "loop"]
        /\ UNCHANGED <<produced, running, launches, pool>>

\* --once: leave after one job.
LeaveAfterOne ==
    /\ session.pc = "loop"
    /\ session' = NoSession
    /\ UNCHANGED <<qfile, produced, running, launches, pool>>

ControllerCrash ==
    /\ session # NoSession
    /\ session' = NoSession
    /\ UNCHANGED <<qfile, produced, running, launches, pool>>

\* A child whose controller is gone ends by itself.
OrphanExits(j, i) ==
    /\ <<j, i>> \in running
    /\ session.job # j
    /\ running' = running \ {<<j, i>>}
    /\ UNCHANGED <<qfile, session, produced, launches, pool>>

QueueNext ==
    \/ InitRun \/ Resume \/ StartRun \/ BeginJob \/ EndRound \/ Launch
    \/ JudgeAttempt \/ Feedback \/ SaveAttempt \/ NextAttempt
    \/ LeaveAfterOne \/ ControllerCrash
    \/ \E j \in Packs : Enqueue(j)
    \/ \E j \in Packs : \E i \in 1..Len(Legs[j]) : ChildWritesArtifact(j, i) \/ OrphanExits(j, i)
    \/ \E error \in Errors : RecordEvidence(error)

QueueSpec == QueueInit /\ [][QueueNext]_queueVars

-----------------------------------------------------------------------------
(* Properties *)

\* The queue executes a job's attempts in order and each at most once, however
\* often a controller crashes and is started again: a job a crash left running
\* may have a live child and is not taken up again (_command_run_loop); an
\* attempt starts only after its predecessor's child is gone and its failure
\* is on file; nothing runs before its dependencies are completed; and a
\* completed job's artifact was written by one of its own attempts, never found
\* (run_job's freshness gate).
AttemptsRunOnce ==
    \A j \in Packs :
        /\ \A i \in 1..Len(Legs[j]) :
              /\ launches[j][i] <= 1
              /\ launches[j][i] = 1 =>
                    /\ \A d \in Needs[j] : Status(d) = "completed"
                    /\ \A k \in 1..(i - 1) : <<j, k>> \notin running
                    /\ qfile.job[j].failed >= i - 1
        /\ Status(j) = "completed" =>
              /\ produced[j] >= 1
              /\ launches[j][produced[j]] = 1
              /\ produced[j] = qfile.job[j].failed + 1
=============================================================================
