--------------------------- MODULE SQLiteController ---------------------------
(***************************************************************************)
(* The controller processes of scripts/sqlite_controller.py on top of the   *)
(* dispatch ledger: `enqueue', `run' and `resume' invocations, the lanes    *)
(* that execute claims, the child process of each lane                      *)
(* (scripts/process_group_run.py) and the PID breadcrumb it leaves.         *)
(*                                                                          *)
(* A process may be slow at any point, may crash at any point, and its      *)
(* heartbeat threads may or may not beat.  A child runs in a session of its *)
(* own and survives the controller.                                         *)
(***************************************************************************)
EXTENDS DispatchStore

CONSTANTS
    Procs,          \* process incarnations
    NoProc,         \* no process
    OwnerOf,        \* the owner id a process uses (--owner-id, or a fresh one)
    Modes,          \* the commands a process may be: run, resume, enqueue
    Durable,        \* run processes with max_idle_rounds = 0 and no --once
    Target,         \* the job whose packet an enqueue process submits
    Preloaded,      \* jobs that are queued when the model starts
    MaxLanes,       \* --max-lanes
    PacketLen,      \* number of attempts the packet of a job lists
    PidPath,        \* PidPath[j][n]: the breadcrumb file of attempt n of job j
    PidFiles,       \* the breadcrumb files
    Punctual,       \* heartbeat threads are scheduled in time
    Crashes         \* processes that may crash

ASSUME ControllerAssumption ==
    /\ NoProc \notin Procs
    /\ OwnerOf \in [Procs -> Owners]
    /\ Modes \in [Procs -> SUBSET {"run", "resume", "enqueue"}]
    /\ Durable \subseteq Procs
    /\ Crashes \subseteq Procs
    /\ Target \in [Procs -> Jobs]
    /\ Preloaded \subseteq Jobs
    /\ MaxLanes \in Nat \ {0}
    /\ PacketLen \in [Jobs -> Nat \ {0}]
    /\ PidPath \in [Jobs -> [AttemptNos -> PidFiles]]
    /\ Punctual \in BOOLEAN

VARIABLES
    pc,         \* where a process is
    fence,      \* the fencing token its lease returned
    dead,       \* jobs its recovery evidence calls dead
    cand,       \* candidates left in the current _ensure_reservations pass
    lane,       \* lane[j][n]: who is executing attempt n of job j, and how far
    child,      \* child[j][n]: the child process of the attempt
    pidfile     \* the attempt whose child's PID a breadcrumb holds, or 0

procVars == <<pc, fence, dead, cand>>
execVars == <<lane, child, pidfile>>
cvars == <<lease, jobs, attempts, reservations, pc, fence, dead, cand, lane,
           child, pidfile>>

NoLane == [state |-> "none", proc |-> NoProc]
LaneStates == {"none", "claimed", "spawned", "recorded", "passed", "erred"}
OpenStates == LaneStates \ {"none"}

\* An attempt identified across jobs, as a PID is.
NoPid == <<>>

CTypeOK ==
    /\ TypeOK
    /\ pc \in [Procs -> {"off", "ingress", "evidence", "recover", "loop",
                         "reserve", "exec", "closing", "gone"}]
    /\ fence \in [Procs -> 0..MaxFence]
    /\ dead \in [Procs -> SUBSET Jobs]
    /\ cand \in [Procs -> SUBSET Jobs]
    /\ lane \in [Jobs -> [AttemptNos -> [state : LaneStates,
                                         proc : Procs \cup {NoProc}]]]
    /\ child \in [Jobs -> [AttemptNos -> {"none", "alive", "exited"}]]
    /\ pidfile \in [PidFiles -> {NoPid} \cup (Jobs \X AttemptNos)]

CInit ==
    /\ lease = [owner |-> NoOwner, fence |-> 0, status |-> "none", left |-> Null]
    /\ jobs = [j \in Jobs |-> IF j \in Preloaded THEN QueuedJob ELSE NoJob]
    /\ attempts = [j \in Jobs |-> [n \in AttemptNos |-> NoAttempt]]
    /\ reservations = [j \in Jobs |-> NoReservation]
    /\ pc = [p \in Procs |-> "off"]
    /\ fence = [p \in Procs |-> 0]
    /\ dead = [p \in Procs |-> {}]
    /\ cand = [p \in Procs |-> {}]
    /\ lane = [j \in Jobs |-> [n \in AttemptNos |-> NoLane]]
    /\ child = [j \in Jobs |-> [n \in AttemptNos |-> "none"]]
    /\ pidfile = [s \in PidFiles |-> NoPid]

Goto(p, label) == pc' = [pc EXCEPT ![p] = label]
Holds(p, d) == HoldsLease(OwnerOf[p], fence[p], d)
LanesOf(p, states) ==
    {x \in Jobs \X AttemptNos :
        lane[x[1]][x[2]].proc = p /\ lane[x[1]][x[2]].state \in states}

\* The index of attempt n in the job's current packet (_attempt_spec).
PacketIndex(j, n) ==
    LET base == IF jobs[j].base = NoMarker THEN 0 ELSE jobs[j].base
    IN  IF n - base < 1 THEN 1 ELSE n - base
HasSpec(j, n) == PacketIndex(j, n) <= PacketLen[j]

-----------------------------------------------------------------------------
(* Start and end of a process: the controller_lease context manager *)

\* A process whose acquisition conflicts with a live lease raises and is run
\* again later, so a conflict is not a step.
Start(p, d) ==
    /\ pc[p] = "off"
    /\ Acquire(OwnerOf[p], d)
    /\ fence' = [fence EXCEPT ![p] = lease'.fence]
    /\ \/ "enqueue" \in Modes[p] /\ Goto(p, "ingress")
       \/ Modes[p] # {"enqueue"} /\ Goto(p, "evidence")
    /\ UNCHANGED <<dead, cand, lane, child, pidfile>>

Gone(p) ==
    /\ Goto(p, "gone")
    /\ fence' = [fence EXCEPT ![p] = 0]
    /\ dead' = [dead EXCEPT ![p] = {}]
    /\ cand' = [cand EXCEPT ![p] = {}]

\* Leaving the context releases the lease unless a newer owner has fenced it.
Close(p) ==
    /\ pc[p] = "closing"
    /\ Gone(p)
    /\ IF lease.owner = OwnerOf[p] /\ lease.fence = fence[p]
       THEN Release(OwnerOf[p], fence[p])
       ELSE UNCHANGED vars
    /\ UNCHANGED <<lane, child, pidfile>>

\* A store call outside the lanes raises FencingError: run() unwinds.  Claims
\* of the batch that were not handed to a lane are stranded.
Strand(p) ==
    lane' = [j \in Jobs |-> [n \in AttemptNos |->
                IF lane[j][n].proc = p THEN NoLane ELSE lane[j][n]]]

Unwind(p, d) ==
    /\ pc[p] \in {"ingress", "recover", "reserve"}
    /\ ~Holds(p, d)
    /\ Goto(p, "closing")
    /\ Strand(p)
    /\ UNCHANGED <<vars, fence, dead, cand, child, pidfile>>

Crash(p) ==
    /\ p \in Crashes
    /\ pc[p] \notin {"off", "gone"}
    /\ Gone(p)
    /\ Strand(p)
    /\ UNCHANGED <<vars, child, pidfile>>

-----------------------------------------------------------------------------
(* enqueue *)

Alive(j) == \E n \in AttemptNos : child[j][n] = "alive"

\* A failed or blocked job is requeued (an approved replan), a new one
\* inserted, anything else left as it is.
Enqueue(p, d) ==
    LET j == Target[p] IN
    /\ pc[p] = "ingress"
    /\ Holds(p, d)
    /\ \/ /\ jobs[j].status \in {"failed", "blocked"}
          /\ RequeueJob(j, OwnerOf[p], fence[p], d)
       \/ CreateJob(j)
       \/ /\ jobs[j].status \notin {"failed", "blocked", "none"}
          /\ UNCHANGED vars
    /\ Goto(p, "closing")
    /\ UNCHANGED <<fence, dead, cand, lane, child, pidfile>>

-----------------------------------------------------------------------------
(* Recovery at the start of run and in resume *)

\* _recovery_liveness for one job: the breadcrumb that the packet names for
\* the running attempt holds a PID, and no such process exists.
MutPidDead(j) ==                          \* mutant: no breadcrumb means dead
    LET pid == pidfile[PidPath[j][jobs[j].attempt_count]]
    IN  pid = NoPid \/ child[pid[1]][pid[2]] # "alive"
PidDead(j) ==
    LET n == jobs[j].attempt_count
        pid == pidfile[PidPath[j][n]]
    IN  HasSpec(j, n) /\ pid # NoPid /\ child[pid[1]][pid[2]] # "alive"

\* A recycled PID makes a dead process look alive, never the reverse.
CollectEvidence(p) ==
    /\ pc[p] = "evidence"
    /\ \E D \in SUBSET {j \in ExpiredRunning(0) : PidDead(j)} :
          dead' = [dead EXCEPT ![p] = D]
    /\ Goto(p, "recover")
    /\ UNCHANGED <<vars, fence, cand, lane, child, pidfile>>

Recover(p, d) ==
    /\ pc[p] = "recover"
    /\ Holds(p, d)
    /\ IF ExpiredRunning(d) = {}
       THEN UNCHANGED vars
       ELSE RecoverExpiredJobs(OwnerOf[p], fence[p], d, "retry", dead[p])
    /\ dead' = [dead EXCEPT ![p] = {}]
    /\ \/ "run" \in Modes[p] /\ Goto(p, "loop")
       \/ "resume" \in Modes[p] /\ Goto(p, "closing")
    /\ UNCHANGED <<fence, cand, lane, child, pidfile>>

-----------------------------------------------------------------------------
(* The main loop of run: reserve and claim, claim, execute *)

\* The snapshot _ensure_reservations works on: queued and retry jobs, the first
\* MaxLanes * WindowFactor in rank order, that need and have no reservation.
Waiting == {j \in Jobs : jobs[j].status \in {"queued", "retry"}}
Candidates ==
    {j \in Waiting :
        /\ Cardinality({i \in Waiting : Rank[i] < Rank[j]}) < MaxLanes * WindowFactor
        /\ j \in NeedsReservation
        /\ reservations[j].status # "active"}

BeginPass(p) ==
    /\ pc[p] = "loop"
    /\ cand' = [cand EXCEPT ![p] = Candidates]
    /\ Goto(p, "reserve")
    /\ UNCHANGED <<vars, fence, dead, lane, child, pidfile>>

First(S) == CHOOSE j \in S : \A i \in S : Rank[j] <= Rank[i]
LaneFree(p) == Cardinality(LanesOf(p, {"claimed"})) < MaxLanes

\* One candidate: reserved and claimed in one transaction, or passed over (not
\* runnable yet, refused by the resource governor or by the capacity check).
ReserveLane(p, d) ==
    LET j == First(cand[p]) IN
    /\ pc[p] = "reserve"
    /\ cand[p] # {}
    /\ LaneFree(p)
    /\ Holds(p, d)
    /\ ReserveAndClaimJob(j, OwnerOf[p], fence[p], d)
    /\ lane' = [lane EXCEPT ![j][NextAttemptNo(j)] = [state |-> "claimed", proc |-> p]]
    /\ cand' = [cand EXCEPT ![p] = @ \ {j}]
    /\ UNCHANGED <<pc, fence, dead, child, pidfile>>

PassOver(p, d) ==
    LET j == First(cand[p]) IN
    /\ pc[p] = "reserve"
    /\ cand[p] # {}
    /\ LaneFree(p)
    /\ Holds(p, d)
    /\ \/ ~Runnable(j, d)
       \/ Swept(d)[j].status # "active" /\ ~Admitted(Swept(d), j)
    /\ cand' = [cand EXCEPT ![p] = @ \ {j}]
    /\ UNCHANGED <<vars, pc, fence, dead, lane, child, pidfile>>

\* The governor's refusal depends on observed memory alone.
Refuse(p) ==
    /\ pc[p] = "reserve"
    /\ cand[p] # {}
    /\ LaneFree(p)
    /\ cand' = [cand EXCEPT ![p] = @ \ {First(cand[p])}]
    /\ UNCHANGED <<vars, pc, fence, dead, lane, child, pidfile>>

\* The pass ends when the candidates or the lanes run out.
PassEnded(p) == pc[p] = "reserve" /\ (cand[p] = {} \/ ~LaneFree(p))
FreeLanes(p) == MaxLanes - Cardinality(LanesOf(p, {"claimed"}))

\* The lanes left over go to jobs that need no reservation, or hold one.
ClaimRest(p, d) ==
    LET S == Selected(FreeLanes(p), OwnerOf[p], fence[p], d, TRUE) IN
    /\ PassEnded(p)
    /\ FreeLanes(p) > 0
    /\ ClaimJobs(FreeLanes(p), OwnerOf[p], fence[p], d, TRUE)
    /\ lane' = [j \in Jobs |-> [n \in AttemptNos |->
                   IF j \in S /\ n = NextAttemptNo(j)
                   THEN [state |-> "claimed", proc |-> p] ELSE lane[j][n]]]
    /\ cand' = [cand EXCEPT ![p] = {}]
    /\ Goto(p, "exec")
    /\ UNCHANGED <<fence, dead, child, pidfile>>

\* Nothing (more) to claim: execute what there is, or stay idle, or leave when
\* the process is not a durable worker.
NoneLeft(p, d) ==
    /\ PassEnded(p)
    /\ FreeLanes(p) > 0 =>
          /\ Holds(p, d)
          /\ Selected(FreeLanes(p), OwnerOf[p], fence[p], d, TRUE) = {}
    /\ \/ LanesOf(p, {"claimed"}) # {} /\ Goto(p, "exec")
       \/ LanesOf(p, {"claimed"}) = {} /\ Goto(p, "loop")
       \/ LanesOf(p, {"claimed"}) = {} /\ p \notin Durable /\ Goto(p, "closing")
    /\ cand' = [cand EXCEPT ![p] = {}]
    /\ UNCHANGED <<vars, fence, dead, lane, child, pidfile>>

BatchDone(p) ==
    /\ pc[p] = "exec"
    /\ LanesOf(p, OpenStates) = {}
    /\ Goto(p, "loop") \/ (p \notin Durable /\ Goto(p, "closing"))
    /\ UNCHANGED <<vars, fence, dead, cand, lane, child, pidfile>>

-----------------------------------------------------------------------------
(* A lane: _execute_claim and run_in_process_group *)

At(p, j, n, state) ==
    pc[p] = "exec" /\ lane[j][n].proc = p /\ lane[j][n].state = state
LaneGoto(j, n, state) == lane' = [lane EXCEPT ![j][n].state = state]
LaneEnds(j, n) == lane' = [lane EXCEPT ![j][n] = NoLane]

\* Popen.  No fence is consulted between the claim and the launch.
Spawn(p, j, n) ==
    /\ At(p, j, n, "claimed")
    /\ HasSpec(j, n)
    /\ child' = [child EXCEPT ![j][n] = "alive"]
    /\ LaneGoto(j, n, "spawned")
    /\ UNCHANGED <<vars, procVars, pidfile>>

\* Building the command, the launch-time drift checks or the local admission
\* refuse: the attempt fails without a child.
LaunchFails(p, j, n) ==
    /\ At(p, j, n, "claimed")
    /\ LaneGoto(j, n, "erred")
    /\ UNCHANGED <<vars, procVars, child, pidfile>>

WritePid(p, j, n) ==
    /\ At(p, j, n, "spawned")
    /\ pidfile' = [pidfile EXCEPT ![PidPath[j][n]] = <<j, n>>]
    /\ LaneGoto(j, n, "recorded")
    /\ UNCHANGED <<vars, procVars, child>>

ChildExit(j, n) ==
    /\ child[j][n] = "alive"
    /\ child' = [child EXCEPT ![j][n] = "exited"]
    /\ UNCHANGED <<vars, procVars, lane, pidfile>>

\* The child ended by itself, or it is killed (at the timeout, or because the
\* breadcrumb cannot be written); the breadcrumb is unlinked, whoever wrote it
\* last; validation and the artifact gates decide.
MutReap(p, j, n) ==                       \* mutant: gives up without a kill
    /\ At(p, j, n, "recorded")
    /\ pidfile' = [pidfile EXCEPT ![PidPath[j][n]] = NoPid]
    /\ LaneGoto(j, n, "passed") \/ LaneGoto(j, n, "erred")
    /\ UNCHANGED <<vars, procVars, child>>
Reap(p, j, n) ==
    /\ At(p, j, n, "spawned") \/ At(p, j, n, "recorded")
    /\ child' = [child EXCEPT ![j][n] = "exited"]
    /\ pidfile' = [pidfile EXCEPT ![PidPath[j][n]] = NoPid]
    /\ \/ /\ child[j][n] = "exited"
          /\ At(p, j, n, "recorded")
          /\ LaneGoto(j, n, "passed")
       \/ LaneGoto(j, n, "erred")
    /\ UNCHANGED <<vars, procVars>>

\* The outcome the lane asks for: success, a retry when the error class allows
\* it and the packet lists more attempts than this attempt's number, or failure.
Outcomes(j, n, passed) ==
    IF passed THEN {"completed"}
    ELSE {"failed"} \cup (IF HasSpec(j, n) /\ n < PacketLen[j] THEN {"retry"} ELSE {})

\* A retry always carries a delay (the exponential backoff).
Backoffs(outcome, d) ==
    IF outcome = "retry" THEN {r - d : r \in RetryDelays} ELSE {Null}

Finish(p, j, n, d) ==
    /\ At(p, j, n, "passed") \/ At(p, j, n, "erred")
    /\ \E outcome \in Outcomes(j, n, lane[j][n].state = "passed") :
          \E r \in Backoffs(outcome, d) :
             CompleteJob(j, n, OwnerOf[p], fence[p], d, outcome, r)
    /\ LaneEnds(j, n)
    /\ UNCHANGED <<procVars, child, pidfile>>

\* complete_job raises, and so does the second try of execute_claim_safely:
\* the lane ends with completion_error and the row is left for recovery.
FinishFenced(p, j, n, d) ==
    /\ At(p, j, n, "passed") \/ At(p, j, n, "erred")
    /\ ~(Holds(p, d) /\ Claimed(j, n, OwnerOf[p], fence[p]))
    /\ LaneEnds(j, n)
    /\ UNCHANGED <<vars, procVars, child, pidfile>>

-----------------------------------------------------------------------------
(* Heartbeat threads and time *)

Running(p) == pc[p] \notin {"off", "closing", "gone"}

BeatLease(p, d) ==
    /\ Running(p)
    /\ HeartbeatLease(OwnerOf[p], fence[p], d)
    /\ UNCHANGED <<procVars, execVars>>

BeatJob(p, j, n, d) ==
    /\ \E s \in OpenStates : At(p, j, n, s)
    /\ HeartbeatJob(j, n, OwnerOf[p], fence[p], d)
    /\ UNCHANGED <<procVars, execVars>>

\* With punctual heartbeats the lease of a running process and of its lanes is
\* renewed before its last unit of time passes.
BeatDue ==
    \/ \E p \in Procs : Running(p) /\ Holds(p, 0) /\ lease.left <= 1
    \/ \E p \in Procs : \E j \in Jobs, n \in AttemptNos :
          /\ pc[p] = "exec" /\ lane[j][n].proc = p
          /\ jobs[j].status = "running" /\ jobs[j].left <= 1
CTick ==
    /\ Punctual => ~BeatDue
    /\ Tick
    /\ UNCHANGED <<procVars, execVars>>

-----------------------------------------------------------------------------
ProcessStep(p, d) ==
    \/ Start(p, d) \/ Close(p) \/ Unwind(p, d)
    \/ Enqueue(p, d)
    \/ CollectEvidence(p) \/ Recover(p, d)
    \/ BeginPass(p) \/ ReserveLane(p, d) \/ PassOver(p, d)
    \/ ClaimRest(p, d) \/ NoneLeft(p, d) \/ BatchDone(p)

LaneStep(p, j, n, d) ==
    \/ Spawn(p, j, n) \/ LaunchFails(p, j, n) \/ WritePid(p, j, n)
    \/ Reap(p, j, n) \/ Finish(p, j, n, d) \/ FinishFenced(p, j, n, d)

CNext ==
    \/ \E p \in Procs, d \in Delays :
          \/ ProcessStep(p, d)
          \/ BeatLease(p, d)
          \/ \E j \in Jobs, n \in AttemptNos :
                LaneStep(p, j, n, d) \/ BeatJob(p, j, n, d)
    \/ \E p \in Procs : Refuse(p) \/ Crash(p)
    \/ \E j \in Jobs, n \in AttemptNos : ChildExit(j, n)
    \/ CTick

CSpec == CInit /\ [][CNext]_cvars

\* Fairness: a process that can take a step takes one, its heartbeat threads
\* run, children end (or are killed at their timeout), time passes, and the
\* governor does not refuse a lane for ever.  Nothing is assumed of crashes.
CFairness ==
    /\ \A p \in Procs :
          /\ WF_cvars(\E d \in Delays : ProcessStep(p, d))
          /\ SF_cvars(\E d \in Delays : ReserveLane(p, d))
          /\ WF_cvars(\E d \in Delays : BeatLease(p, d) /\ lease' # lease)
          /\ \A j \in Jobs, n \in AttemptNos :
                /\ WF_cvars(\E d \in Delays : LaneStep(p, j, n, d))
                /\ WF_cvars(\E d \in Delays : BeatJob(p, j, n, d) /\ jobs' # jobs)
    /\ \A j \in Jobs, n \in AttemptNos : WF_cvars(ChildExit(j, n))
    /\ WF_cvars(CTick /\ cvars' # cvars)

FairSpec == CSpec /\ CFairness

-----------------------------------------------------------------------------
(* Properties *)

\* A job never has two live child processes: recovery retries a job only on
\* evidence that its process is gone and "blocks them rather than risking
\* duplicate writes" (_recovery_liveness, recover_expired_jobs).
AtMostOneLiveChild ==
    \A j \in Jobs : Cardinality({n \in AttemptNos : child[j][n] = "alive"}) <= 1

\* A slot is held exactly as long as it is needed: a resource-bearing job that
\* runs under a live job lease holds an active reservation of its own claimant
\* (--enforce-reservations), and no job that is not running holds one, so
\* neither completion, retry, recovery nor requeue leaks a slot (heartbeat_job,
\* complete_job, recover_expired_jobs, requeue_job).
SlotsFollowJobs ==
    /\ \A j \in NeedsReservation :
          jobs[j].status = "running" /\ jobs[j].left > 0 =>
              OwnActive(reservations, j, jobs[j].claimed_by, jobs[j].claim_fence)
    /\ \A j \in Jobs : reservations[j].status = "active" => jobs[j].status = "running"

\* A job is completed only by the attempt that is current, after its own child
\* has ended, and no older child of the job is still alive to write to the
\* artifacts that were just validated (_execute_claim).
CompletionIsFinal ==
    [][\A j \in Jobs :
          jobs[j].status # "completed" /\ jobs'[j].status = "completed" =>
              /\ child[j][jobs[j].attempt_count] = "exited"
              /\ ~Alive(j)]_cvars

\* Every queued job is eventually settled: with punctual heartbeats and no
\* crash, the run loop reaches a final status for it.
QueueDrains ==
    \A j \in Jobs :
        jobs[j].status = "queued" ~> jobs[j].status \in {"completed", "failed"}

\* "stale-job recovery" (docs/architecture.md): while a durable worker that
\* does not crash is up, a job whose claimant is gone does not stay running.
StaleJobIsRecovered ==
    \A j \in Jobs :
        (jobs[j].status = "running" /\ Expired(jobs[j].left, 0)
            /\ \E p \in Durable \ Crashes : pc[p] \in {"loop", "reserve"})
        ~> jobs[j].status # "running"
=============================================================================
