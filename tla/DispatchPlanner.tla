--------------------------- MODULE DispatchPlanner ---------------------------
(***************************************************************************)
(* One plan of the rolling horizon (src/scripts/dynamic_dispatch_planner):  *)
(* ready jobs are ordered and cut to the horizon, pools and hosts that may  *)
(* take them are filtered by evidence, and a search over all of them        *)
(* chooses the assignments with the highest total score that fit together.  *)
(*                                                                          *)
(* Scores are given numbers (candidate_score is arithmetic), amounts are    *)
(* whole units, a model and its variant are one name, a timestamp is fresh, *)
(* stale or missing.  Hosts, pools, models are numbered in the given order. *)
(***************************************************************************)
EXTENDS Integers, Sequences, FiniteSets, FiniteSetsExt, SequencesExt

CONSTANTS
    PlanInputs,     \* what plan may be given: tasks, active, done, pools, hosts, scores
    MaxLanes,       \* --max-lanes
    Horizon         \* --horizon

Missing == -1       \* a number, name or host that is not there
AtLaptop == 0       \* data whose location is "local" and no host's id
NoPlan == [decision |-> "none"]

\* A jobs file lists a job once, and what plan reads as a number is one: numeric
\* and resource_estimate let no amount of a job be negative.
ASSUME PlannerAssumption ==
    /\ MaxLanes \in Nat /\ Horizon \in Int
    /\ \A input \in PlanInputs :
          /\ IsFiniteSet(input.tasks)
          /\ LET ids == DOMAIN input.pools \cup DOMAIN input.hosts
             IN  IsFiniteSet(ids) /\ ids \subseteq Nat \ {0}
          /\ \A j, k \in input.tasks : j.id = k.id => j = k
          /\ \A j \in input.tasks :
                /\ {j.id, j.priority, j.difficulty} \subseteq Int
                /\ {j.minutes, j.cpu, j.ram, j.disk, j.gpu, j.cost} \cup j.approved \subseteq Nat
                /\ \A p \in DOMAIN input.pools : input.scores[<<j.id, p>>] \in Int
          /\ \A p \in DOMAIN input.pools :
                LET pool == input.pools[p]
                IN  /\ {pool.remaining, pool.reserve, pool.pilotCap, pool.maxConcurrency,
                        pool.inflight} \subseteq Int
                    /\ pool.roleModels \in Seq(Nat)
          /\ \A h \in DOMAIN input.hosts :
                LET host == input.hosts[h]
                IN  /\ {host.cpu, host.ram, host.disk, host.maxConcurrency, host.inflight,
                        host.score} \subseteq Int
                    /\ IsFiniteSet(host.mounts) /\ \A m \in host.mounts : m.free \in Int
                    /\ host.gpus \in Seq(Int)

VARIABLES
    asked,          \* the state and jobs files
    planOut         \* the plan

plannerVars == <<asked, planOut>>

PoolIds == DOMAIN asked.pools
HostIds == DOMAIN asked.hosts
PoolAt(p) == asked.pools[p]
HostAt(h) == asked.hosts[h]

-----------------------------------------------------------------------------
(* Ready jobs, in order *)

Ready ==
    {j \in asked.tasks : j.id \notin asked.done \cup asked.active /\ j.needs \subseteq asked.done}

\* Priority, then short workloads (one of no length last), then difficulty.
Shorter(j, k) == j.minutes # 0 /\ (k.minutes = 0 \/ j.minutes < k.minutes)
Before(j, k) ==
    \/ j.priority > k.priority
    \/ /\ j.priority = k.priority
       /\ \/ Shorter(j, k)
          \/ /\ j.minutes = k.minutes
             /\ \/ j.difficulty > k.difficulty
                \/ j.difficulty = k.difficulty /\ j.id < k.id
FirstJob(todo) == CHOOSE j \in todo : \A k \in todo \ {j} : Before(j, k)
Considered == {j \in Ready : Cardinality({k \in Ready : Before(k, j)}) < Max({1, Horizon})}

\* Path prefixes by component; an absent scope conflicts with nothing.
ScopesConflict(j, k) ==
    /\ j.scope # << >> /\ k.scope # << >>
    /\ IsPrefix(j.scope, k.scope) \/ IsPrefix(k.scope, j.scope)

-----------------------------------------------------------------------------
(* Pools: budgets in tenths of a percent, slots, and the model to ask for *)

\* Unknown quota is blocked by default and otherwise a small pilot.
UnknownPolicy(p) == PoolAt(p).unknownPolicy
Open(p) ==
    /\ PoolAt(p).health # "blocked"
    /\ PoolAt(p).reserve # Missing
    /\ PoolAt(p).remaining = Missing => UnknownPolicy(p) # "block" /\ PoolAt(p).pilotCap > 0
Budget(p) ==
    IF PoolAt(p).remaining = Missing THEN PoolAt(p).pilotCap
    ELSE Max({0, PoolAt(p).remaining - PoolAt(p).reserve})
PoolSlots(p) ==
    LET free == Max({0, PoolAt(p).maxConcurrency - PoolAt(p).inflight})
    IN  IF PoolAt(p).remaining = Missing /\ UnknownPolicy(p) = "pilot" THEN Min({1, free}) ELSE free

\* select_pool_model: eligible, and whose word it takes to ask for a model.
EligibleModel(j, p, model) ==
    LET catalog == PoolAt(p).catalog \cup (PoolAt(p).policyExcluded \cap j.optIn)
    IN  model # Missing /\ model \notin PoolAt(p).rejected /\ (catalog = {} \/ model \in catalog)
Preferred(j, p) ==
    IF p \in DOMAIN j.exact THEN <<j.exact[p]>>
    ELSE IF PoolAt(p).roleModels # << >> THEN PoolAt(p).roleModels ELSE <<PoolAt(p).default>>
MustApprove(j, p) == PoolAt(p).provider = "opencode" /\ p \notin DOMAIN j.exact
Model(j, p) ==
    LET preferred == Preferred(j, p)
        fit == {i \in DOMAIN preferred : /\ EligibleModel(j, p, preferred[i])
                                         /\ MustApprove(j, p) => preferred[i] \in j.approved}
        others == {m \in j.approved \ Range(preferred) : EligibleModel(j, p, m)}
    IN  IF fit # {} THEN preferred[Min(fit)]
        ELSE IF MustApprove(j, p) /\ others # {} THEN Min(others) ELSE Missing
NeedsApproval(j, p) == MustApprove(j, p) /\ j.approved = {}

Cost(j, p) == IF PoolAt(p).provider = "server_local" THEN 1 ELSE Max({1, j.cost})
MayDrawReserve(j) == j.allowReserve \/ j.priority = 4
AllowedPools(j) ==
    (IF j.pools # {} THEN j.pools
     ELSE IF DOMAIN j.exact # {} THEN DOMAIN j.exact ELSE PoolIds) \ j.notPools

\* Unreviewed work of a server's own model is bounded.
ServerLocalAllowed(j, p) ==
    /\ j.serverLocal
    /\ j.unreviewed \/ (j.difficulty <= PoolAt(p).maxDifficulty /\ ~j.highStakes)

\* agent_host_id: where the provider's command line is signed in.
AgentHost(p) ==
    LET locals == {h \in HostIds : HostAt(h).reachable /\ HostAt(h).local}
    IN  IF PoolAt(p).provider = "server_local"
             THEN (IF PoolAt(p).host \in HostIds THEN PoolAt(p).host ELSE Missing)
        ELSE IF PoolAt(p).cliHost # Missing
             THEN (IF PoolAt(p).cliHost \in locals THEN PoolAt(p).cliHost ELSE Missing)
        ELSE IF locals = {} THEN Missing ELSE Min(locals)

PoolTakes(j, p) ==
    /\ Open(p)
    /\ p \in AllowedPools(j)
    /\ PoolSlots(p) > 0
    /\ Model(j, p) # Missing
    /\ PoolAt(p).provider = "server_local" => ServerLocalAllowed(j, p)
    /\ Cost(j, p) <= Budget(p) \/ MayDrawReserve(j)
    /\ AgentHost(p) # Missing
    /\ AgentHost(p) \notin j.notExecution

-----------------------------------------------------------------------------
(* Hosts: host_fit *)

\* Mounts that were probed outweigh the legacy field; a read-only one is none.
Writable(h) == {m \in HostAt(h).mounts : m.writable}
PreferredOf(mounts) == CHOOSE m \in mounts : m.preferred
DiskFree(h) ==
    IF HostAt(h).mounts = {} THEN HostAt(h).disk
    ELSE IF \E m \in Writable(h) : m.preferred THEN PreferredOf(Writable(h)).free
    ELSE IF Writable(h) = {} THEN Missing ELSE Max({m.free : m \in Writable(h)})
StorageFresh(h) ==
    HostAt(h).mounts # {} =>
        \/ HostAt(h).probed = "fresh"
        \/ HostAt(h).probed = "unknown" /\ (HostAt(h).local \/ ~HostAt(h).requireFresh)

\* kernel_evidence_status, external_network_evidence_status, clock_evidence_status:
\* only current evidence about this very host counts, and a synchronisation
\* service that is off or was not asked lately outweighs a measured clock.
EvidenceStatus(evidence) ==
    CASE evidence.age = "missing" -> "unknown"
      [] evidence.age = "stale" -> "stale"
      [] OTHER -> evidence.status
ClockStatus(h) ==
    IF EvidenceStatus(HostAt(h).sync) \in {"unsynchronized", "stale"}
    THEN EvidenceStatus(HostAt(h).sync) ELSE EvidenceStatus(HostAt(h).clock)
EvidenceFor(j, h) ==
    /\ "kernel" \in j.requires => EvidenceStatus(HostAt(h).kernel) = "verified"
    /\ "network" \in j.requires => EvidenceStatus(HostAt(h).network) = "verified"
    /\ "clock" \in j.requires => ClockStatus(h) = "verified"

\* resource_estimate's headroom: a fifth on memory, a quarter on disk.
MemoryNeeded(j) == Max({1, (6 * j.ram + 4) \div 5})
DiskNeeded(j) == Max({1, (5 * j.disk + 3) \div 4})
CapacityKnown(h) ==
    /\ HostAt(h).cpu # Missing
    /\ HostAt(h).ram # Missing
    /\ DiskFree(h) # Missing
EnoughFor(j, h) ==
    /\ CapacityKnown(h) \/ j.allowUnknown
    /\ HostAt(h).cpu # Missing => j.cpu <= HostAt(h).cpu
    /\ HostAt(h).ram # Missing => MemoryNeeded(j) <= HostAt(h).ram
    /\ DiskFree(h) # Missing => DiskNeeded(j) <= DiskFree(h)
    /\ j.gpu > 0 => Cardinality({g \in DOMAIN HostAt(h).gpus : HostAt(h).gpus[g] >= j.vram}) >= j.gpu

\* data_route: bulk data never passes through the laptop.
RouteOpen(j, h) ==
    \/ HostAt(h).local
    \/ j.data.at = h
    \/ j.data.public
    \/ j.data.size = "none"
    \/ /\ j.data.at = AtLaptop => j.data.size # "bulk"
       /\ ~j.private
       /\ j.data.authorized

HostFits(j, h) ==
    /\ HostAt(h).reachable
    /\ j.measured                                \* else a pilot comes first
    /\ j.commands \subseteq HostAt(h).commands   \* commands, Python, Apple
    /\ StorageFresh(h)
    /\ HostAt(h).projectWritable \/ Writable(h) # {} \/ HostAt(h).mounts = {}
    /\ EvidenceFor(j, h)
    /\ j.private => HostAt(h).local
    /\ j.serverFirst /\ HostAt(h).local => j.private \/ j.allowLocal
    /\ HostAt(h).local =>
          HostAt(h).calm /\ HostAt(h).launchAllowed /\ (HostAt(h).roomy \/ j.disk = 0)
    /\ EnoughFor(j, h)
    /\ RouteOpen(j, h)

HostSlots(h) ==
    IF HostAt(h).local /\ ~HostAt(h).launchAllowed THEN 0
    ELSE Max({0, HostAt(h).maxConcurrency - HostAt(h).inflight})
AllowedHosts(j) == (IF j.hosts = {} THEN HostIds ELSE j.hosts) \ j.notHosts

\* A desktop agent works where it is unless the job is for a server.
Assignable(j, p, h) ==
    /\ PoolTakes(j, p)
    /\ h \in AllowedHosts(j) /\ h \notin j.notWorkload
    /\ HostFits(j, h) /\ HostSlots(h) > 0
    /\ IF PoolAt(p).provider = "server_local" THEN h = PoolAt(p).host
       ELSE j.serverFirst \/ j.separate \/ h = AgentHost(p)
Options(j) == {o \in PoolIds \X HostIds : Assignable(j, o[1], o[2])}
Value(j, o) == asked.scores[<<j.id, o[1]>>] + HostAt(o[2]).score

-----------------------------------------------------------------------------
(* solve: what is left after each choice *)

Stock ==
    [budget |-> [p \in PoolIds |-> IF Open(p) THEN Budget(p) ELSE 0],
     pool |-> [p \in PoolIds |-> IF Open(p) THEN PoolSlots(p) ELSE 0],
     lane |-> [h \in HostIds |-> HostSlots(h)],
     cpu |-> [h \in HostIds |-> Max({0, HostAt(h).cpu})],
     ram |-> [h \in HostIds |-> Max({1, HostAt(h).ram})],
     disk |-> [h \in HostIds |-> Max({1, DiskFree(h)})],
     gpu |-> [h \in HostIds |-> Len(HostAt(h).gpus)]]

Room(left, j, o) ==
    LET p == o[1]
        h == o[2]
    IN  /\ left.pool[p] > 0
        /\ left.lane[h] > 0 /\ left.lane[AgentHost(p)] > 0
        /\ j.cpu <= left.cpu[h]
        /\ Max({1, j.ram}) <= left.ram[h]
        /\ Max({1, j.disk}) <= left.disk[h]
        /\ j.gpu <= left.gpu[h]
        /\ Cost(j, p) <= left.budget[p] \/ MayDrawReserve(j)

\* The agent takes a lane of its own host as well.
MutLanesOf(p, h) == {h}                   \* mutant: the agent's lane is free
LanesOf(p, h) == {h, AgentHost(p)}
Spent(left, j, o) ==
    LET p == o[1]
        h == o[2]
    IN  [budget |-> [left.budget EXCEPT ![p] = Max({0, @ - Cost(j, p)})],
         pool |-> [left.pool EXCEPT ![p] = @ - 1],
         lane |-> [k \in HostIds |-> IF k \in LanesOf(p, h) THEN left.lane[k] - 1 ELSE left.lane[k]],
         cpu |-> [left.cpu EXCEPT ![h] = @ - j.cpu],
         ram |-> [left.ram EXCEPT ![h] = @ - Max({1, j.ram})],
         disk |-> [left.disk EXCEPT ![h] = @ - Max({1, j.disk})],
         gpu |-> [left.gpu EXCEPT ![h] = @ - j.gpu]]

\* A call of solve: the jobs that are left, what is left of the rest, the jobs
\* chosen and the lanes left; and the call after a job is left out or takes an option.
Stocks ==
    [budget : [PoolIds -> Nat], pool : [PoolIds -> Nat], lane : [HostIds -> Nat], cpu : [HostIds -> Nat],
     ram : [HostIds -> Nat], disk : [HostIds -> Nat], gpu : [HostIds -> Nat]]
Calls ==
    [todo : SUBSET Considered, left : Stocks, chosen : SUBSET Considered, lanes : 0..MaxLanes]
Taking(call, j, o) ==
    [todo |-> call.todo \ {j}, left |-> Spent(call.left, j, o),
     chosen |-> call.chosen \cup {j}, lanes |-> call.lanes - 1]
OpenTo(call, j) ==
    {o \in Options(j) : Room(call.left, j, o) /\ \A k \in call.chosen : ~ScopesConflict(j, k)}

Skipping(call, j) == [call EXCEPT !.todo = @ \ {j}]
Adding(j, o, rest) ==
    [score |-> Value(j, o) + rest.score,
     picks |-> {[task |-> j, pool |-> o[1], host |-> o[2]]} \cup rest.picks]
Highest(found) == CHOOSE best \in found : \A other \in found : best.score >= other.score

SolveStep(call, solve) ==
    IF call.todo = {} \/ call.lanes = 0 THEN [score |-> 0, picks |-> {}]
    ELSE LET j == FirstJob(call.todo)
         IN  Highest({solve[Skipping(call, j)]}
                     \cup {Adding(j, o, solve[Taking(call, j, o)]) : o \in OpenTo(call, j)})
Solve ==
    LET solve[call \in Calls] == SolveStep(call, solve)
    IN  solve
AllOpen == [todo |-> Considered, left |-> Stock, chosen |-> {}, lanes |-> MaxLanes]

-----------------------------------------------------------------------------
(* plan *)

\* Why a considered job is not in the plan.
Reason(j) ==
    IF \E p \in PoolIds \cap AllowedPools(j) : Open(p) /\ PoolSlots(p) > 0 /\ NeedsApproval(j, p) THEN "needs_approval"
    ELSE IF Options(j) # {} THEN "capacity_or_better_global_assignment"
    ELSE IF \A p \in PoolIds : ~PoolTakes(j, p) THEN "no_eligible_model_pool"
    ELSE "no_eligible_compute_host"

\* The quota windows a plan with nothing to dispatch may sleep for.
Resets == {PoolAt(p).reset : p \in {q \in PoolIds : PoolAt(q).exhausted /\ PoolAt(q).reset > 0}}
NextReplan(picks, reasons) ==
    IF picks = {} /\ "no_eligible_model_pool" \in reasons
       /\ "no_eligible_compute_host" \notin reasons /\ Resets # {}
    THEN Min(Resets) ELSE 0

MakePlan ==
    /\ planOut = NoPlan
    /\ LET best == Solve[AllOpen]
           left == Considered \ {a.task : a \in best.picks}
           reasons == {Reason(j) : j \in left}
       IN  planOut' = [decision |-> IF best.picks = {} THEN "pause" ELSE "dispatch",
                       score |-> best.score, picks |-> best.picks,
                       deferred |-> [j \in left |-> Reason(j)],
                       replanAt |-> NextReplan(best.picks, reasons)]
    /\ UNCHANGED asked

PlannerInit == asked \in PlanInputs /\ planOut = NoPlan
PlannerNext == MakePlan
PlannerSpec == PlannerInit /\ [][PlannerNext]_plannerVars

-----------------------------------------------------------------------------
(* Properties *)

\* Do these assignments fit together?  Stated by sums over all of them, not by
\* what is left after each.
FitTogether(S) ==
    /\ Cardinality(S) <= MaxLanes
    /\ \A a, b \in S : a # b => ~ScopesConflict(a.task, b.task)
    /\ \A h \in HostIds :
          LET here == {a \in S : a.host = h}
          IN  /\ SumFunctionOnSet([a \in S |-> a.task.cpu], here) <= Max({0, HostAt(h).cpu})
              /\ SumFunctionOnSet([a \in S |-> Max({1, a.task.ram})], here) <= Max({1, HostAt(h).ram})
              /\ SumFunctionOnSet([a \in S |-> Max({1, a.task.disk})], here) <= Max({1, DiskFree(h)})
              /\ SumFunctionOnSet([a \in S |-> a.task.gpu], here) <= Len(HostAt(h).gpus)
              /\ Cardinality({a \in S : h \in {a.host, AgentHost(a.pool)}}) <= HostSlots(h)
    /\ \A p \in PoolIds : Cardinality({a \in S : a.pool = p}) <= PoolSlots(p)
    /\ \A a \in S :
          \/ MayDrawReserve(a.task)
          \/ SumFunctionOnSet([b \in S |-> Cost(b.task, b.pool)],
                  {b \in S : b.pool = a.pool /\ ~Before(a.task, b.task)}) <= Budget(a.pool)

Worth(S) == SumFunctionOnSet([a \in S |-> Value(a.task, <<a.pool, a.host>>)], S)

\* All ways of giving considered jobs an option each, whether they fit or not.
Selections ==
    LET none == <<0, 0>>
        all == [Considered -> (PoolIds \X HostIds) \cup {none}]
    IN  {{[task |-> j, pool |-> f[j][1], host |-> f[j][2]] : j \in {k \in Considered : f[k] # none}} :
            f \in {g \in all : \A j \in Considered : g[j] \in Options(j) \cup {none}}}

\* A plan fits the machines it was made from and wastes nothing: its
\* assignments together stay within every host, pool, quota budget and lane and
\* never share a write scope, however a job's agent and its workload are split;
\* no other selection that fits scores higher; and what it spends of a shared
\* subscription names a model the task approved (plan, solve, select_pool_model).
PlanIsBestFit ==
    planOut # NoPlan =>
        /\ planOut.picks \in Selections /\ FitTogether(planOut.picks)
        /\ planOut.score = Worth(planOut.picks)
        /\ \A S \in Selections : FitTogether(S) => Worth(S) <= planOut.score
        /\ \A a \in planOut.picks :
              /\ a.task.needs \subseteq asked.done
              /\ PoolAt(a.pool).provider = "opencode" =>
                    Model(a.task, a.pool) \in a.task.approved \cup Range(a.task.exact)
              /\ PoolAt(a.pool).remaining = Missing => PoolAt(a.pool).pilotCap > 0
=============================================================================
