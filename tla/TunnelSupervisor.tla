-------------------------- MODULE TunnelSupervisor --------------------------
(***************************************************************************)
(* The supervisor of a reverse tunnel                                       *)
(* (scripts/reverse_tunnel_supervisor.py): run() starts one ssh child at a  *)
(* time in a session of its own, waits for it, backs off and starts the     *)
(* next, until a stop is requested, its deadline passes or its attempts are *)
(* used up, and writes each of its states to a status file.  A signal       *)
(* handler requests the stop between any two steps of run(), the child      *)
(* exits or ignores its termination as it likes.                            *)
(***************************************************************************)
EXTENDS Naturals

CONSTANTS
    MaxAttempts,    \* max_attempts; 0 is no limit
    AttemptBound,   \* bound on the attempts of an unlimited supervisor
    MaxRefusals     \* bound on the refused writes of the status file

VARIABLES
    supervisor, \* run(): its place and its attempts
    tunnel,      \* the ssh process it started last
    known,      \* _child holds that process
    orphans,    \* processes it has lost sight of while they run
    refused,    \* how often the status file refused a write
    stopping,   \* stop_event
    late,       \* the deadline has passed
    tunnelStatus    \* the state in the status file

tunnelVars == <<supervisor, tunnel, known, orphans, refused, stopping, late, tunnelStatus>>

TunnelInit ==
    /\ supervisor = [at |-> "head", attempts |-> 0]
    /\ tunnel = "none"
    /\ known = FALSE
    /\ orphans = 0
    /\ refused = 0
    /\ stopping = FALSE
    /\ late = FALSE
    /\ tunnelStatus = "none"

AttemptsLeft == MaxAttempts = 0 \/ supervisor.attempts < MaxAttempts

At(place) == supervisor.at = place
MoveTo(place) == supervisor' = [supervisor EXCEPT !.at = place]

\* The head of the loop: one more attempt, or the end.
StartAttempt ==
    /\ At("head") /\ ~stopping /\ AttemptsLeft
    /\ supervisor.attempts < AttemptBound
    /\ supervisor' = [at |-> "spawn", attempts |-> supervisor.attempts + 1]
    /\ tunnelStatus' = "starting"
    /\ UNCHANGED <<tunnel, known, orphans, refused, stopping, late>>

LeaveLoop ==
    /\ At("head") /\ (stopping \/ ~AttemptsLeft)
    /\ MoveTo("ended")
    /\ tunnelStatus' = "stopped"
    /\ UNCHANGED <<tunnel, known, orphans, refused, stopping, late>>

\* Popen: the child runs before _child knows it.
Spawn ==
    /\ At("spawn")
    /\ MoveTo("spawned")
    /\ tunnel' = "running"
    /\ UNCHANGED <<known, orphans, refused, stopping, late, tunnelStatus>>

SpawnFails ==
    /\ At("spawn")
    /\ MoveTo("after")
    /\ tunnelStatus' = "failed"
    /\ UNCHANGED <<tunnel, known, orphans, refused, stopping, late>>

Adopt ==
    /\ At("spawned") /\ ~known
    /\ known' = TRUE
    /\ UNCHANGED <<supervisor, tunnel, orphans, refused, stopping, late, tunnelStatus>>

ReportRunning ==
    /\ At("spawned") /\ known
    /\ MoveTo("wait")
    /\ tunnelStatus' = "running"
    /\ UNCHANGED <<tunnel, known, orphans, refused, stopping, late>>

\* The status write raises OSError: run() takes it for a failed start and
\* forgets the child that runs.
ReportFails ==
    /\ At("spawned") /\ known
    /\ refused < MaxRefusals
    /\ refused' = refused + 1
    /\ MoveTo("after")
    /\ orphans' = IF tunnel = "running" THEN orphans + 1 ELSE orphans
    /\ tunnel' = "none"
    /\ known' = FALSE
    /\ tunnelStatus' = "failed"
    /\ UNCHANGED <<stopping, late>>

\* A refused write anywhere else ends run() with the exception.
StatusRefused ==
    /\ At("head") \/ At("after")
    /\ refused < MaxRefusals
    /\ refused' = refused + 1
    /\ MoveTo("ended")
    /\ UNCHANGED <<tunnel, known, orphans, stopping, late, tunnelStatus>>

\* _wait: the child ended, or it is asked to end and then killed.
SeeExit ==
    /\ At("wait") /\ tunnel = "exited"
    /\ MoveTo("after")
    /\ known' = FALSE
    /\ UNCHANGED <<tunnel, orphans, refused, stopping, late, tunnelStatus>>

MutTerminate ==
    /\ At("wait") /\ tunnel = "running" /\ (stopping \/ late)
    /\ MoveTo("after")
    /\ known' = FALSE
    /\ stopping' = TRUE
    /\ UNCHANGED <<tunnel, orphans, refused, late, tunnelStatus>>

Terminate ==
    /\ At("wait") /\ tunnel = "running" /\ (stopping \/ late)
    /\ MoveTo("terminating")
    /\ stopping' = TRUE
    /\ UNCHANGED <<tunnel, known, orphans, refused, late, tunnelStatus>>

Reap ==
    /\ At("terminating")
    /\ tunnel' = "exited"
    /\ MoveTo("after")
    /\ known' = FALSE
    /\ UNCHANGED <<orphans, refused, stopping, late, tunnelStatus>>

\* After an attempt: the last one, or a pause before the next.
AfterAttempt ==
    /\ At("after")
    /\ IF stopping \/ late \/ (MaxAttempts # 0 /\ supervisor.attempts >= MaxAttempts)
       THEN /\ MoveTo("ended")
            /\ tunnelStatus' = IF stopping \/ late THEN "stopped" ELSE "failed"
       ELSE /\ MoveTo("head")
            /\ tunnelStatus' = "backoff"
    /\ UNCHANGED <<tunnel, known, orphans, refused, stopping, late>>

\* request_stop from the signal handler: it terminates the child it knows.
RequestStop ==
    /\ ~stopping /\ ~At("ended")
    /\ stopping' = TRUE
    /\ \/ UNCHANGED tunnel
       \/ known /\ tunnel = "running" /\ tunnel' = "exited"
    /\ UNCHANGED <<supervisor, known, orphans, refused, late, tunnelStatus>>

ChildExitsItself ==
    /\ tunnel = "running"
    /\ tunnel' = "exited"
    /\ UNCHANGED <<supervisor, known, orphans, refused, stopping, late, tunnelStatus>>

DeadlinePasses ==
    /\ ~late
    /\ late' = TRUE
    /\ UNCHANGED <<supervisor, tunnel, known, orphans, refused, stopping, tunnelStatus>>

TunnelNext ==
    \/ StartAttempt \/ LeaveLoop \/ Spawn \/ SpawnFails \/ Adopt \/ ReportRunning
    \/ ReportFails \/ StatusRefused \/ SeeExit \/ Terminate \/ Reap \/ AfterAttempt
    \/ RequestStop \/ ChildExitsItself \/ DeadlinePasses

TunnelSpec == TunnelInit /\ [][TunnelNext]_tunnelVars

-----------------------------------------------------------------------------
\* Between two attempts and after the last one no tunnel is left running,
\* whenever the stop, the deadline or the child's own exit came, but for the
\* children whose "running" the status file refused: the port is free for the
\* next attempt and the final status is the truth.
NoTunnelLeftBehind ==
    (At("head") \/ At("spawn") \/ At("ended"))
        => orphans <= refused /\ tunnel # "running"
=============================================================================
