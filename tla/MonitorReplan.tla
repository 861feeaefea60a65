---------------------------- MODULE MonitorReplan ----------------------------
(***************************************************************************)
(* Observation, feedback and replanning.  dispatch_monitor observes every   *)
(* worker where its agent runs and where its workload runs, writes what it  *)
(* learnt into the planner's state and reports; replan_controller turns the *)
(* report into constraints and merges them into the jobs and the state of   *)
(* the next plan (src/scripts/dispatch_monitor.py, replan_controller.py).   *)
(*                                                                          *)
(* What a log, a pid or a file may show is a fact; the thresholds of host   *)
(* pressure and the burn rates of quota are left out.  Error classes with   *)
(* the same effect share one name ("auth" stands as "network",              *)
(* "location_restricted" as "capability").                                  *)
(***************************************************************************)
EXTENDS Naturals, FiniteSets, TLC

CONSTANTS
    Agents,         \* workers: job, pool, model, execution, workload, telemetry
    Jobs,           \* jobs of the planner's input
    Hosts,
    RemoteHosts,    \* hosts observed over ssh
    Pools,
    Models,
    Facts,          \* what one placement may show: alive, artifact, log, moved
    Controls,       \* what the controller's rows say: status, error, verified
    Inputs,         \* job rows a plan may start from, by job
    MaxCycles       \* bound: monitor and replan cycles

\* What a row says of its job, and what the next plan must leave out.
RowFields == {"status", "pools", "models", "execution", "workload"}

\* Every job of the input has its row; a list that is missing counts as empty.
ASSUME MonitorAssumption ==
    \A input \in Inputs :
        DOMAIN input = Jobs /\ \A j \in Jobs : RowFields \subseteq DOMAIN input[j]

VARIABLES
    up,             \* hosts that can be reached, in truth
    hosts,          \* state.compute_hosts: reachable, launchAllowed
    pools,          \* state.pools: health
    models,         \* state.model_state
    observed,       \* the last observation of each worker in this cycle
    suspects,       \* hosts that gave evidence of trouble in this cycle
    report,         \* alerts by host, once the monitor has finished
    planned,        \* job -> status and what the next plan must leave out
    decision,       \* of the last replan
    cycle           \* cycles so far

monitorVars == <<up, hosts, pools, models, observed, suspects, report, planned, decision, cycle>>

NotSeen == [status |-> "unseen", class |-> "none", origin |-> "none", failedHost |-> "none"]
NoReport == << >>

-----------------------------------------------------------------------------
(* One observation: observe_worker, observe_remote_worker, observe_placement *)

Outcome(status, class, origin) ==
    [status |-> status, class |-> class, origin |-> origin, failedHost |-> "none"]

\* durable_controller_status: what the controller knows outweighs a missing pid.
Durable(c, artifact) ==
    CASE c.status = "completed" ->
            IF c.verified THEN "completed"
            ELSE IF artifact THEN "artifact_ready_needs_validation" ELSE "unknown"
      [] c.status = "failed" -> "failed"
      [] c.status = "running" -> "unknown"
      [] OTHER -> "none"

Shown(f, c, first) ==
    LET class == IF f.log # "none" THEN f.log ELSE c.error
    IN  CASE Durable(c, f.artifact) # "none" -> Durable(c, f.artifact)
          [] class # "none" -> "failed"
          [] f.alive = "no" -> IF f.artifact THEN "artifact_ready_needs_validation" ELSE "failed"
          [] f.artifact -> "artifact_ready"
          [] first \/ f.moved -> "healthy"
          [] OTHER -> "no_progress"

OnHost(h, f, c, first) ==
    IF h \in RemoteHosts \ up THEN Outcome("failed", "host_unreachable", "compute_host")
    ELSE IF f.outside THEN Outcome("failed", "path", "monitor_security")
    ELSE Outcome(Shown(f, c, first),
                 IF f.log # "none" THEN f.log ELSE c.error,
                 IF f.log # "none" THEN "worker_log"
                 ELSE IF c.error # "none" THEN "controller_state" ELSE "none")

Bad(o) == o.status \in {"failed", "stalled"}

\* A split placement is judged agent first, then workload.
Placement(w, f, g, c, first) ==
    LET agent == OnHost(w.execution, f, c, first)
        workload == IF w.telemetry THEN OnHost(w.workload, g, c, first)
                    ELSE Outcome("unknown", "none", "workload_observation_unavailable")
        some(s) == agent.status = s \/ workload.status = s
    IN  IF w.execution = w.workload THEN agent
        ELSE IF Bad(agent) THEN
            [agent EXCEPT !.failedHost = w.execution,
                          !.origin = IF @ = "none" THEN "provider" ELSE @]
        ELSE IF Bad(workload) THEN
            [status |-> workload.status, origin |-> "compute_host", failedHost |-> w.workload,
             class |-> IF workload.class = "none" THEN "host_unreachable" ELSE workload.class]
        ELSE IF some("unknown") THEN Outcome("unknown", "none", "workload_observation_unavailable")
        ELSE IF agent.status = "completed" /\ workload.status = "completed"
             THEN Outcome("completed", "none", "none")
        ELSE IF some("artifact_ready_needs_validation")
             THEN Outcome("artifact_ready_needs_validation", "none", "completion_evidence")
        ELSE IF some("no_progress") THEN Outcome("no_progress", "none", "none")
        ELSE Outcome("healthy", "none", "none")

-----------------------------------------------------------------------------
(* The monitor's loop *)

\* apply_feedback: what an observation changes in the planner's state.
BlamedHost(w, o) == w.workload
ApplyFeedback(w, o) ==
    LET class == o.class
        compute == o.origin = "compute_host"
    IN  /\ hosts' =
              IF compute THEN [hosts EXCEPT ![BlamedHost(w, o)].reachable = FALSE]
              ELSE IF class = "resource" THEN [hosts EXCEPT ![w.execution].launchAllowed = FALSE]
              ELSE hosts
        /\ pools' =
              IF compute \/ class \notin {"quota", "network"} THEN pools
              ELSE [pools EXCEPT ![w.pool] = IF class = "quota" THEN "cooldown" ELSE "degraded"]
        /\ models' =
              IF ~compute /\ class = "capability" THEN [models EXCEPT ![w.model] = "rejected"]
              ELSE models

\* Where an observation really points at a host.
Evidence(w, o) ==
    CASE o.origin = "compute_host" -> {IF o.failedHost = "none" THEN w.execution ELSE o.failedHost}
      [] o.class = "resource" -> {w.execution}
      [] OTHER -> {}

\* One worker in one tick; time without progress may reach the stall limit.
Observe(w, f, g, c, waited) ==
    /\ report = NoReport /\ cycle < MaxCycles
    /\ LET first == observed[w].status = "unseen"
           seen == Placement(w, f, g, c, first)
           o == IF waited THEN [seen EXCEPT !.status = "stalled"]
                ELSE seen
       IN  /\ waited => seen.status = "no_progress"
           /\ observed' = [observed EXCEPT ![w] = o]
           /\ suspects' = suspects \cup Evidence(w, o)
           /\ ApplyFeedback(w, o)
    /\ UNCHANGED <<up, report, planned, decision, cycle>>

\* merge_compute_hosts of a fresh probe.
Probed == [h \in Hosts |-> [reachable |-> h \in up, launchAllowed |-> TRUE]]

\* compute_alerts over the state's hosts; pressure stands for memory, cgroup,
\* PSI and disk thresholds.
Busy(h) == \E w \in Agents : w.workload = h /\ observed[w].status \notin {"completed", "failed"}
Alert(h, known, pressure) ==
    CASE ~known[h].reachable /\ Busy(h) -> "stop"
      [] h \notin RemoteHosts /\ ~known[h].launchAllowed -> "stop"
      [] OTHER -> pressure[h]

FinishMonitor(refresh, pressure) ==
    /\ report = NoReport
    /\ \A w \in Agents : observed[w].status # "unseen"
    /\ LET known == IF refresh THEN Probed ELSE hosts
       IN  /\ hosts' = known
           /\ report' = [h \in Hosts |-> Alert(h, known, pressure)]
    /\ suspects' = suspects \cup {h \in Hosts : pressure[h] = "stop"}
                   \cup (IF refresh THEN Hosts \ up ELSE {})
    /\ UNCHANGED <<up, pools, models, observed, planned, decision, cycle>>

-----------------------------------------------------------------------------
(* classify_failure and the constraints it leads to *)

IsFailure(w) == Bad(observed[w]) \/ observed[w].class # "none" \/ observed[w].origin # "none"

FailureOrigin(o) ==
    CASE o.origin = "compute_host" -> "compute"
      [] o.origin \in {"provider", "worker_log"} -> "provider"
      [] o.class \in {"host_unreachable"} -> "compute"
      [] o.class \in {"quota", "capability", "network"} -> "provider"
      [] OTHER -> "unknown"

\* The hosts a compute failure excludes, for the agent and for the workload.
ExecutionOut(w) ==
    IF FailureOrigin(observed[w]) = "compute"
       /\ (w.execution = w.workload \/ observed[w].failedHost # w.workload)
    THEN {w.execution} ELSE {}
WorkloadOut(w) ==
    IF FailureOrigin(observed[w]) = "compute"
       /\ (w.execution = w.workload \/ observed[w].failedHost = w.workload)
    THEN {w.workload} ELSE {}
PoolOut(w) ==
    IF FailureOrigin(observed[w]) = "provider" /\ observed[w].class \in {"quota", "network"}
    THEN {w.pool} ELSE {}
ModelOut(w) ==
    IF FailureOrigin(observed[w]) = "provider" /\ observed[w].class = "capability"
    THEN {w.model} ELSE {}

\* _failure_action: what no constraint answers is for a human.
Inspect(w) ==
    \/ FailureOrigin(observed[w]) = "unknown"
    \/ /\ FailureOrigin(observed[w]) = "provider"
       /\ observed[w].class \notin {"quota", "network", "capability"}

Failing == {w \in Agents : IsFailure(w)}
Stopped == {h \in Hosts : report[h] = "stop"}
Shared(quotaBlocked) ==
    [pools |-> UNION {PoolOut(w) : w \in Failing} \cup quotaBlocked,
     models |-> UNION {ModelOut(w) : w \in Failing},
     execution |-> UNION {ExecutionOut(w) : w \in Failing} \cup Stopped,
     workload |-> UNION {WorkloadOut(w) : w \in Failing} \cup Stopped]

Decision(quotaBlocked) ==
    IF Failing = {} /\ \A h \in Hosts : report[h] = "none" THEN "keep"
    ELSE IF \E w \in Failing : Inspect(w) THEN "pause"
    ELSE IF Shared(quotaBlocked).execution \cup Shared(quotaBlocked).workload # {} THEN "reroute"
    ELSE "replan"

-----------------------------------------------------------------------------
(* build_replan_decision followed by merge_replan_constraints *)

Left(job, out) ==
    [job EXCEPT !.pools = @ \cup out.pools, !.models = @ \cup out.models,
                !.execution = @ \cup out.execution, !.workload = @ \cup out.workload]

\* _replan_jobs: the job of a failing worker is put back and keeps its own
\* constraints; merge_replan_constraints spreads the shared ones to every job
\* that has not completed.
Patched(j) ==
    LET mine == {w \in Failing : w.job = j}
        own == [pools |-> UNION {PoolOut(w) : w \in mine}, models |-> UNION {ModelOut(w) : w \in mine},
                execution |-> UNION {ExecutionOut(w) : w \in mine},
                workload |-> UNION {WorkloadOut(w) : w \in mine}]
        back == IF planned[j].status \in {"failed", "running"} THEN "pending" ELSE planned[j].status
    IN  IF mine = {} THEN planned[j] ELSE Left([planned[j] EXCEPT !.status = back], own)

MutMerged(j, quotaBlocked) ==             \* mutant: only the failing job is constrained
    Patched(j)
Merged(j, quotaBlocked) ==
    IF Patched(j).status = "completed" THEN Patched(j) ELSE Left(Patched(j), Shared(quotaBlocked))

Replan(quotaBlocked) ==
    /\ report # NoReport
    /\ decision' = Decision(quotaBlocked)
    /\ planned' = [j \in Jobs |-> Merged(j, quotaBlocked)]
    /\ pools' = [p \in Pools |->
          IF \E w \in Failing : p \in PoolOut(w) /\ observed[w].class = "quota" THEN "cooldown" ELSE pools[p]]
    /\ models' = [m \in Models |->
          IF \E w \in Failing : m \in ModelOut(w) THEN "rejected" ELSE models[m]]
    /\ report' = NoReport
    /\ observed' = [w \in Agents |-> NotSeen]
    /\ suspects' = {}
    /\ cycle' = cycle + 1
    /\ UNCHANGED <<up, hosts>>

-----------------------------------------------------------------------------
(* Environment *)

HostChanges(h) ==
    /\ report = NoReport /\ cycle < MaxCycles
    /\ up' = IF h \in up THEN up \ {h} ELSE up \cup {h}
    /\ UNCHANGED <<hosts, pools, models, observed, suspects, report, planned, decision, cycle>>

\* The controller runs the plan between two cycles.
JobMoves(j, status) ==
    /\ cycle > 0 /\ \A w \in Agents : observed[w].status = "unseen"
    /\ <<planned[j].status, status>> \in
          {<<"pending", "running">>, <<"running", "failed">>, <<"running", "completed">>}
    /\ planned' = [planned EXCEPT ![j].status = status]
    /\ UNCHANGED <<up, hosts, pools, models, observed, suspects, report, decision, cycle>>

MonitorInit ==
    /\ up = Hosts
    /\ hosts = Probed
    /\ pools = [p \in Pools |-> "healthy"]
    /\ models = [m \in Models |-> "ready"]
    /\ observed = [w \in Agents |-> NotSeen]
    /\ suspects = {}
    /\ report = NoReport
    /\ planned \in Inputs
    /\ decision = "keep"
    /\ cycle = 0

MonitorNext ==
    \/ \E w \in Agents, f \in Facts, g \in Facts, c \in Controls, waited \in BOOLEAN :
          /\ w.execution = w.workload => g = f
          /\ Observe(w, f, g, c, waited)
    \/ \E refresh \in BOOLEAN, pressure \in [Hosts -> {"none", "stop"}] :
          FinishMonitor(refresh, pressure)
    \/ \E quotaBlocked \in SUBSET Pools : Replan(quotaBlocked)
    \/ \E h \in RemoteHosts : HostChanges(h)
    \/ \E j \in Jobs, status \in {"running", "failed", "completed"} : JobMoves(j, status)

MonitorSpec == MonitorInit /\ [][MonitorNext]_monitorVars

-----------------------------------------------------------------------------
(* Properties *)

Replanned == report # NoReport /\ report' = NoReport
MayUse(job, w) ==
    /\ w.pool \notin job.pools /\ w.model \notin job.models
    /\ w.execution \notin job.execution /\ w.workload \notin job.workload

\* A failure the monitor still sees when it reports is not repeated: after the
\* replan no job that has not completed may go where that worker ran, to its
\* pool, its model, its agent's host and its workload's host together, unless a
\* human is asked to look; and a completed job is left as it was, and a
\* constraint once merged stays (build_replan_decision, merge_replan_constraints).
FailureIsNotRepeated ==
    [][Replanned =>
          /\ \A w \in Failing, j \in Jobs :
                decision' = "pause" \/ planned'[j].status = "completed" \/ ~MayUse(planned'[j], w)
          /\ \A j \in Jobs :
                /\ planned[j].pools \subseteq planned'[j].pools
                /\ planned[j].models \subseteq planned'[j].models
                /\ planned[j].execution \subseteq planned'[j].execution
                /\ planned[j].workload \subseteq planned'[j].workload
                /\ planned[j].status = "completed" => planned'[j].status = "completed"]_monitorVars

\* "compute failures constrain the affected execution_host and/or
\* workload_host independently": a replan excludes only hosts that gave
\* evidence of trouble in the cycle (apply_feedback, compute_alerts).
OnlyAffectedHostsExcluded ==
    [][Replanned => \A j \in Jobs :
          (planned'[j].execution \cup planned'[j].workload)
             \ (planned[j].execution \cup planned[j].workload) \subseteq suspects]_monitorVars
=============================================================================
