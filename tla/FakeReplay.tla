----------------------------- MODULE FakeReplay -----------------------------
(***************************************************************************)
(* The fake-cluster replay of a manifest                                    *)
(* (research/simulator/fake_cluster.py, fake_clock.py): run_replay() moves  *)
(* a clock in ticks; in each it plans the jobs that arrived, injects faults *)
(* and runs the planned jobs, which take quota, time and a human review.    *)
(* The draws of its random generator are nondeterministic choices; a tick   *)
(* of 60 s is one unit of time.                                             *)
(***************************************************************************)
EXTENDS Naturals, SequencesExt

CONSTANTS
    SimJobs, SimModels, \* 1..n, in the order of the manifest
    Arrival,            \* [SimJobs -> Nat]
    NeedsReview,        \* the jobs that require review
    PoolOf, Cost,       \* functions on SimModels
    WindowOf,           \* [pools -> [kind, cap, length]], the window charged
    Displayed,          \* the pools with quota_display_known
    SimHosts, WorkersOf,
    PressedHosts,       \* the hosts with vram_pressure
    CooldownLength, LeaseLength, Horizon,
    Amounts, Latencies, Waits, \* draws: quota taken, run time, review time
    MaxFaults           \* bound on the faults of a manifest

ASSUME SimAssumption ==
    /\ SimJobs \subseteq Nat \ {0} /\ SimModels \subseteq Nat \ {0}
    /\ Displayed \subseteq DOMAIN WindowOf
    /\ \A h \in SimHosts : WorkersOf[h] # {}

VARIABLES
    policy,     \* "greedy" or "quota_aware"
    stage,      \* "arrive", "faults", "run" or "ended"
    loopNow,    \* run_replay's now, read before the clock's last tick
    clock,      \* clock.now()
    tickNow,    \* _run_one_tick's now
    tries,      \* _plan_job's attempt
    turn,       \* the first job this tick has not run
    jobs, pools, hosts, workers, rejected,
    faults      \* faults injected

replayVars == <<policy, stage, loopNow, clock, tickNow, tries, turn,
                jobs, pools, hosts, workers, rejected, faults>>

SimPools == DOMAIN WindowOf
SimWorkers == UNION {WorkersOf[h] : h \in SimHosts}

NewJob == [state |-> "created", model |-> 0, host |-> "none", failure |-> "none",
           charges |-> 0, validated |-> FALSE, reviewDone |-> FALSE,
           missed |-> FALSE, forced |-> FALSE, redelivered |-> 0]

ReplayInit ==
    /\ policy \in {"greedy", "quota_aware"}
    /\ stage = "arrive"
    /\ loopNow = 0 /\ clock = 0 /\ tickNow = 0
    /\ tries = 0 /\ turn = 1 /\ faults = 0
    /\ jobs = [j \in SimJobs |-> NewJob]
    /\ pools = [p \in SimPools |-> [health |-> "ready", until |-> 0,
                                    failures |-> 0, used |-> <<>>]]
    /\ hosts = [h \in SimHosts |-> [route |-> TRUE, mounted |-> TRUE]]
    /\ workers = [w \in SimWorkers |-> [alive |-> TRUE, busy |-> 0, lease |-> 0]]
    /\ rejected = {}

-----------------------------------------------------------------------------
\* Quota windows.  Rolling usage expires by age, calendar usage is cleared by
\* the clock when it crosses a boundary.

LiveUsage(p, t) ==
    LET Counts(e) == WindowOf[p].kind = "rolling" => e.at + WindowOf[p].length > t
    IN  SelectSeq(pools[p].used, Counts)

WindowUsage(p, t) ==
    FoldLeft(LAMBDA sum, e : sum + e.amount, 0, LiveUsage(p, t))

Exhausted(p, t) == WindowOf[p].kind # "none" /\ WindowUsage(p, t) >= WindowOf[p].cap

Remaining(p, t) ==
    IF WindowOf[p].kind = "none" THEN 1
    ELSE IF WindowUsage(p, t) >= WindowOf[p].cap THEN 0 ELSE WindowOf[p].cap - WindowUsage(p, t)

\* The pools after the clock moved from t to u.
Cleared(ps, t, u) ==
    [p \in SimPools |->
        IF WindowOf[p].kind = "calendar" /\ t \div WindowOf[p].length < u \div WindowOf[p].length
        THEN [ps[p] EXCEPT !.used = <<>>] ELSE ps[p]]

-----------------------------------------------------------------------------
\* Planning.

Routable == {m \in SimModels : /\ m \notin rejected
                               /\ pools[PoolOf[m]].health \notin {"blocked", "cooldown"}}

Greedy == {m \in Routable : \A n \in Routable :
              Cost[m] < Cost[n] \/ (Cost[m] = Cost[n] /\ m <= n)}

\* The largest of the keys (remaining, cost, ids).
QuotaAware ==
    LET open == {m \in Routable : PoolOf[m] \in Displayed}
        left == [p \in SimPools |-> Remaining(p, loopNow)]
        Key(m) == <<left[PoolOf[m]], Cost[m], m>>
        Before(k, l) == \/ k[1] < l[1]
                        \/ k[1] = l[1] /\ k[2] < l[2]
                        \/ k[1] = l[1] /\ k[2] = l[2] /\ k[3] <= l[3]
    IN  {m \in open : \A n \in open : Before(Key(n), Key(m))}

Choice == IF policy = "greedy" THEN Greedy ELSE QuotaAware

\* The first job that has arrived and is not planned.
DueJob(j) ==
    LET waiting == {i \in SimJobs : jobs[i].state = "created" /\ Arrival[i] <= loopNow}
    IN  stage = "arrive" /\ j \in waiting /\ \A i \in waiting : j <= i

Unplanned(j, reason) ==
    jobs' = [jobs EXCEPT ![j].state = "failed", ![j].failure = reason]

\* A failed attempt is repeated while should_retry() says so.
AttemptFails(j, reason) ==
    \/ /\ tries + 1 < 2
       /\ tries' = tries + 1
       /\ UNCHANGED jobs
    \/ /\ tries + 1 >= 2
       /\ tries' = 0
       /\ Unplanned(j, reason)

KeepTime == UNCHANGED <<policy, loopNow, clock, tickNow, turn>>

PlanNoRoute(j) ==
    /\ DueJob(j) /\ Choice = {}
    /\ Unplanned(j, "no_route")
    /\ tries' = 0
    /\ KeepTime
    /\ UNCHANGED <<stage, pools, hosts, workers, rejected, faults>>

PlanQuotaUnknown(j) ==
    /\ DueJob(j)
    /\ \E m \in Choice :
          /\ PoolOf[m] \notin Displayed
          /\ pools' = [pools EXCEPT ![PoolOf[m]].health = "unknown"]
    /\ AttemptFails(j, "quota_unknown")
    /\ KeepTime
    /\ UNCHANGED <<stage, hosts, workers, rejected, faults>>

PlanRateLimited(j) ==
    /\ DueJob(j)
    /\ \E m \in Choice :
          /\ PoolOf[m] \in Displayed
          /\ pools[PoolOf[m]].failures > 0
          /\ pools' = [pools EXCEPT ![PoolOf[m]].health = "cooldown",
                                    ![PoolOf[m]].until = loopNow + CooldownLength]
    /\ AttemptFails(j, "rate_limited")
    /\ KeepTime
    /\ UNCHANGED <<stage, hosts, workers, rejected, faults>>

PlanRouteLost(j) ==
    /\ DueJob(j)
    /\ \E m \in Choice : PoolOf[m] \in Displayed
    /\ \E h \in SimHosts : ~hosts[h].route
    /\ AttemptFails(j, "route_lost")
    /\ KeepTime
    /\ UNCHANGED <<stage, pools, hosts, workers, rejected, faults>>

\* Any worker of the host, alive or not, busy or not.
PlanJob(j) ==
    /\ DueJob(j)
    /\ \E m \in Choice, h \in SimHosts : \E w \in WorkersOf[h] :
          /\ PoolOf[m] \in Displayed
          /\ hosts[h].route
          /\ workers' = [workers EXCEPT ![w].lease = loopNow + LeaseLength, ![w].busy = j]
          /\ jobs' = [jobs EXCEPT ![j].state = "planned", ![j].model = m, ![j].host = h]
    /\ tries' = 0
    /\ KeepTime
    /\ UNCHANGED <<stage, pools, hosts, rejected, faults>>

Arrived ==
    /\ stage = "arrive"
    /\ ~\E j \in SimJobs : DueJob(j)
    /\ stage' = "faults"
    /\ KeepTime
    /\ UNCHANGED <<tries, jobs, pools, hosts, workers, rejected, faults>>

-----------------------------------------------------------------------------
\* Faults.

Inject ==
    /\ stage = "faults" /\ faults < MaxFaults
    /\ faults' = faults + 1
    /\ KeepTime
    /\ UNCHANGED <<stage, tries>>

\* A worker never forgets its job: a finished one is marked, too.
Crash(ws) ==
    /\ Inject
    /\ workers' = [w \in SimWorkers |-> [workers[w] EXCEPT !.alive = @ /\ w \notin ws]]
    /\ jobs' = [j \in SimJobs |->
                  IF \E w \in ws : workers[w].alive /\ workers[w].busy = j
                  THEN [jobs[j] EXCEPT !.failure = "crash"] ELSE jobs[j]]
    /\ UNCHANGED <<pools, hosts, rejected>>

\* A delivery that a receiver without receipts would run again.
MutDuplicateDelivery(j) ==
    /\ Inject
    /\ jobs' = [jobs EXCEPT ![j].redelivered = @ + 1,
                            ![j].state = IF @ = "done" THEN "planned" ELSE @]
    /\ UNCHANGED <<pools, hosts, workers, rejected>>

DuplicateDelivery(j) ==
    /\ Inject
    /\ jobs' = [jobs EXCEPT ![j].redelivered = @ + 1]
    /\ UNCHANGED <<pools, hosts, workers, rejected>>

SshDisconnect(h) ==
    /\ Inject /\ hosts[h].route
    /\ hosts' = [hosts EXCEPT ![h].route = FALSE]
    /\ UNCHANGED <<jobs, pools, workers, rejected>>

MountLoss(h) ==
    /\ Inject /\ hosts[h].mounted
    /\ hosts' = [hosts EXCEPT ![h].mounted = FALSE]
    /\ UNCHANGED <<jobs, pools, workers, rejected>>

QuotaExhaustion(p) ==
    /\ Inject
    /\ pools' = [pools EXCEPT ![p].health = "blocked"]
    /\ UNCHANGED <<jobs, hosts, workers, rejected>>

QuotaReset(p) ==
    /\ Inject
    /\ pools' = [pools EXCEPT ![p].used = <<>>, ![p].failures = 0,
                              ![p].health = IF @ \in {"blocked", "cooldown"} THEN "ready" ELSE @]
    /\ UNCHANGED <<jobs, hosts, workers, rejected>>

CapabilityRejection(ps) ==
    /\ Inject
    /\ rejected' = rejected \cup {m \in SimModels : PoolOf[m] \in ps}
    /\ UNCHANGED <<jobs, pools, hosts, workers>>

MissingHumanReview(j) ==
    /\ Inject /\ ~jobs[j].reviewDone
    /\ jobs' = [jobs EXCEPT ![j].forced = TRUE]
    /\ UNCHANGED <<pools, hosts, workers, rejected>>

-----------------------------------------------------------------------------
\* One tick of the cluster.

BeginTick ==
    /\ stage = "faults"
    /\ stage' = "run"
    /\ tickNow' = clock
    /\ turn' = 1
    /\ pools' = [p \in SimPools |->
         LET cool == pools[p].until # 0 /\ pools[p].until <= clock
             health == IF cool /\ pools[p].health = "cooldown" THEN "ready"
                       ELSE pools[p].health
         IN  [pools[p] EXCEPT
                 !.until = IF cool THEN 0 ELSE @,
                 !.health = IF health = "blocked" /\ WindowOf[p].kind = "none"
                            THEN "ready" ELSE health]]
    /\ workers' = [w \in SimWorkers |->
         [workers[w] EXCEPT !.lease = IF @ <= clock THEN 0 ELSE @]]
    /\ UNCHANGED <<policy, loopNow, clock, tries, jobs, hosts, rejected, faults>>

OnTurn(j) ==
    LET left == {i \in SimJobs : i >= turn /\ jobs[i].state = "planned"}
    IN  stage = "run" /\ j \in left /\ \A i \in left : j <= i

Runners(j) == {w \in SimWorkers : workers[w].busy = j}
Runs(j) == \E w \in Runners(j) : workers[w].alive /\ workers[w].lease > tickNow

\* A job whose worker died, lost its lease or took another job stays planned.
RunInterrupted(j) ==
    /\ OnTurn(j) /\ ~Runs(j)
    /\ turn' = j + 1
    /\ jobs' = [jobs EXCEPT ![j].failure =
         IF \E w \in Runners(j) : ~workers[w].alive THEN "worker_lost"
         ELSE IF Runners(j) # {} THEN "lease_expired" ELSE @]
    /\ UNCHANGED <<policy, stage, loopNow, clock, tickNow, tries, pools, hosts, workers,
                   rejected, faults>>

PoolOfJob(j) == PoolOf[jobs[j].model]

HostFailure(h) ==
    IF ~hosts[h].route THEN "route_lost"
    ELSE IF ~hosts[h].mounted THEN "mount_lost"
    ELSE IF h \in PressedHosts THEN "vram_pressure" ELSE "none"

\* _fail_job(): what became of the job, beside the pool's count of failures.
Failed(job, reason) == [job EXCEPT !.state = "failed", !.failure = reason]
Blamed(ps, p) == [ps EXCEPT ![p].failures = @ + 1]

RunOnBadHost(j) ==
    /\ OnTurn(j) /\ Runs(j)
    /\ HostFailure(jobs[j].host) # "none"
    /\ jobs' = [jobs EXCEPT ![j] = Failed(@, HostFailure(jobs[j].host))]
    /\ pools' = Blamed(pools, PoolOfJob(j))
    /\ turn' = j + 1
    /\ UNCHANGED <<policy, stage, loopNow, clock, tickNow, tries, hosts, workers, rejected, faults>>

RunExhausted(j) ==
    /\ OnTurn(j) /\ Runs(j)
    /\ HostFailure(jobs[j].host) = "none"
    /\ Exhausted(PoolOfJob(j), tickNow)
    /\ jobs' = [jobs EXCEPT ![j] = Failed(@, "quota_exhausted")]
    /\ pools' = [Blamed(pools, PoolOfJob(j)) EXCEPT ![PoolOfJob(j)].health = "blocked"]
    /\ turn' = j + 1
    /\ UNCHANGED <<policy, stage, loopNow, clock, tickNow, tries, hosts, workers, rejected, faults>>

\* The part every run shares: quota is taken, then time passes.
Charged(j, amount) ==
    IF WindowOf[PoolOfJob(j)].kind = "none" THEN pools
    ELSE [pools EXCEPT ![PoolOfJob(j)].used =
             Append(@, [at |-> tickNow, amount |-> amount])]

Execute(j, latency) ==
    /\ OnTurn(j) /\ Runs(j)
    /\ HostFailure(jobs[j].host) = "none"
    /\ ~Exhausted(PoolOfJob(j), tickNow)
    /\ turn' = j + 1
    /\ tickNow' = clock + latency
    /\ UNCHANGED <<policy, stage, loopNow, tries, hosts, workers, rejected, faults>>

RunInvalid(j, amount, latency) ==
    /\ Execute(j, latency)
    /\ clock' = clock + latency
    /\ pools' = Blamed(Cleared(Charged(j, amount), clock, clock'), PoolOfJob(j))
    /\ jobs' = [jobs EXCEPT ![j] = [Failed(jobs[j], "artifact_invalid") EXCEPT
                                      !.charges = @ + 1]]

RunUnreviewed(j, amount, latency) ==
    /\ Execute(j, latency)
    /\ j \notin NeedsReview
    /\ clock' = clock + latency
    /\ pools' = Cleared(Charged(j, amount), clock, clock')
    /\ jobs' = [jobs EXCEPT ![j].charges = @ + 1, ![j].validated = TRUE,
                            ![j].state = "done"]

RunReviewed(j, amount, latency, wait) ==
    /\ Execute(j, latency)
    /\ j \in NeedsReview /\ ~jobs[j].forced
    /\ clock' = clock + latency + wait
    /\ pools' = Cleared(Charged(j, amount), clock, clock')
    /\ jobs' = [jobs EXCEPT ![j].charges = @ + 1, ![j].validated = TRUE,
                            ![j].reviewDone = TRUE, ![j].state = "done"]

RunReviewMissed(j, amount, latency) ==
    /\ Execute(j, latency)
    /\ j \in NeedsReview
    /\ clock' = clock + latency
    /\ pools' = Blamed(Cleared(Charged(j, amount), clock, clock'), PoolOfJob(j))
    /\ jobs' = [jobs EXCEPT ![j] = [Failed(jobs[j], "human_review_missed") EXCEPT
                   !.charges = @ + 1, !.validated = TRUE, !.missed = TRUE]]

-----------------------------------------------------------------------------
\* The end of a tick and of the replay.

RunEnds ==
    /\ stage = "run"
    /\ ~\E j \in SimJobs : OnTurn(j)
    /\ loopNow' = clock

NextTick ==
    /\ RunEnds /\ clock < Horizon
    /\ stage' = "arrive"
    /\ clock' = clock + 1
    /\ pools' = Cleared(pools, clock, clock + 1)
    /\ turn' = 1 /\ tickNow' = 0
    /\ UNCHANGED <<policy, tries, jobs, hosts, workers, rejected, faults>>

\* What the horizon makes of a job that is neither done nor failed.
Censored(j) ==
    IF Arrival[j] > Horizon THEN Failed(jobs[j], "not_arrived")
    ELSE IF /\ jobs[j].state \in {"created", "planned"}
            /\ ~jobs[j].validated /\ jobs[j].failure = "none"
         THEN [jobs[j] EXCEPT !.failure = "censored_at_horizon"] ELSE jobs[j]

Censor ==
    /\ RunEnds /\ clock >= Horizon
    /\ stage' = "ended"
    /\ jobs' = [j \in SimJobs |-> Censored(j)]
    /\ UNCHANGED <<policy, clock, tickNow, tries, turn, pools, hosts, workers, rejected, faults>>

ReplayNext ==
    \/ \E j \in SimJobs :
          \/ PlanNoRoute(j) \/ PlanQuotaUnknown(j) \/ PlanRateLimited(j)
          \/ PlanRouteLost(j) \/ PlanJob(j)
          \/ DuplicateDelivery(j) \/ MissingHumanReview(j)
          \/ RunInterrupted(j) \/ RunOnBadHost(j) \/ RunExhausted(j)
          \/ \E a \in Amounts, l \in Latencies :
                \/ RunInvalid(j, a, l) \/ RunUnreviewed(j, a, l) \/ RunReviewMissed(j, a, l)
                \/ \E wait \in Waits : RunReviewed(j, a, l, wait)
    \/ \E h \in SimHosts : SshDisconnect(h) \/ MountLoss(h)
    \/ \E p \in SimPools : QuotaExhaustion(p) \/ QuotaReset(p)
    \/ \E ps \in {{p} : p \in SimPools} \cup {SimPools} : CapabilityRejection(ps)
    \/ \E ws \in {{w} : w \in SimWorkers} \cup {SimWorkers} : Crash(ws)
    \/ Arrived \/ BeginTick \/ NextTick \/ Censor

ReplaySpec == ReplayInit /\ [][ReplayNext]_replayVars

-----------------------------------------------------------------------------
\* Whatever is delivered twice, crashes, loses its lease, its worker or its
\* reviewer: a job takes effect at most once, a job that is done took effect,
\* was validated and was reviewed where it must be, a job whose reviewer the
\* manifest withholds is never done after that, and when the replay ends each
\* job is done or says why it is not (run_replay, _run_one_tick,
\* fault_duplicate_delivery: "it must not create a second irreversible effect").
EveryJobAccounted ==
    \A j \in SimJobs :
        /\ jobs[j].charges <= 1
        /\ jobs[j].state = "done" =>
              /\ jobs[j].charges = 1 /\ jobs[j].validated
              /\ j \in NeedsReview => jobs[j].reviewDone /\ ~jobs[j].forced
        /\ stage = "ended" /\ jobs[j].state # "done" => jobs[j].failure # "none"
=============================================================================
