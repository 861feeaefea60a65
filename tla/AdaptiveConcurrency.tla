------------------------ MODULE AdaptiveConcurrency ------------------------
(***************************************************************************)
(* The concurrency limit of one provider, adapted evaluation by evaluation  *)
(* (src/local_agent_dispatch/scheduler/policy.py): resolve_policy lays the  *)
(* safety, organization and task layers over each other, _resource_cap      *)
(* turns one snapshot into slots, and adapt_concurrency takes one decision  *)
(* and returns the state the caller passes in again.                        *)
(*                                                                          *)
(* The caller may pass any evidence it has, late or twice: a reading is     *)
(* tagged with the sequence numbers of its three streams.  Ratios, seconds  *)
(* and bytes are small numbers.  Freshness, confidence, identity, fence and *)
(* completeness of a reading are its boolean `trusted`.                     *)
(***************************************************************************)
EXTENDS Integers, Sequences, FiniteSets, FiniteSetsExt, SequencesExt

CONSTANTS
    Safety,         \* SafetyInvariants: hardMax, ramReserve, diskReserve
    Organizations,  \* OrganizationPolicy revisions, first to last
    Task,           \* TaskPreferences; None inherits
    Estimate,       \* TaskResourceEstimate: amount per slot and dimension
    Snapshots,      \* what a reading may say, sequences apart
    MaxStamp        \* bound: sequence numbers of a stream

None == -1          \* an absent or unknown number
Dimensions == {"cpu", "ram", "swap", "gpu", "disk", "inodes", "rss"}
Streams == {"resource", "heartbeat", "provider"}
Stamps == [Streams -> 1..MaxStamp]
\* Memory and disk are always asked for, and CPU where it is known; every layer,
\* estimate and reading has amounts, or None where it may be silent.
Quantities == Nat \cup {None}
\* What the records of policy.py must be when they are built.
SafetyInvariants(s) == {s.hardMax, s.ramReserve, s.diskReserve} \subseteq Nat
OrganizationPolicy(o) ==
    /\ {o.min, o.max} \subseteq Nat /\ {o.windows, o.increase} \subseteq Nat \ {0}
    /\ {o.ramReserve, o.diskReserve} \subseteq Quantities
    /\ o.decrease[1] \in Nat \ {0} /\ o.decrease[2] \in Nat /\ o.decrease[1] < o.decrease[2]
TaskPreferences(t) == {t.min, t.max, t.ramReserve, t.diskReserve} \subseteq Quantities
SchedulingPolicyBundle ==
    /\ SafetyInvariants(Safety)
    /\ Len(Organizations) \in Nat \ {0}
    /\ \A i \in 1..Len(Organizations) : OrganizationPolicy(Organizations[i])
    /\ TaskPreferences(Task)
TaskResourceEstimate(estimate) ==
    /\ \A d \in Dimensions : estimate[d] \in Quantities
    /\ \A d \in {"cpu", "ram", "disk"} : estimate[d] # 0
ProviderSignals(r) ==
    /\ r.trusted => r.providerMax \in Nat
    /\ {r.quotaLeft, r.outage, r.errors, r.slow} \subseteq BOOLEAN

\* What a worker reports in a ResourceSnapshot and a WorkerHeartbeat: its CPU
\* and RAM under the ceilings of its cgroup, its mount, devices and own
\* processes, and the amounts reserved and in use.
CpuMemoryAndCgroup(r) ==
    /\ {r.free["cpu"], r.free["ram"], r.free["swap"]} \subseteq Quantities
    /\ {r.cpuQuota, r.ramLimit, r.ramUsed} \subseteq Quantities
MountGpusAndProcesses(r) ==
    /\ {r.free["disk"], r.free["inodes"], r.free["rss"]} \subseteq Quantities
    /\ r.writable \in BOOLEAN
    /\ r.gpus \in Seq(Quantities)
ResourceUsage(usage) == \A d \in Dimensions : usage[d] \in Quantities

\* One evaluation's evidence.
SchedulerDecisionInput(r) ==
    /\ CpuMemoryAndCgroup(r) /\ MountGpusAndProcesses(r)
    /\ ResourceUsage(r.reserved) /\ ResourceUsage(r.actual)
    /\ r.worker \in {"ready", "busy", "closed"} /\ r.active \in Nat
    /\ ProviderSignals(r)

ASSUME AdaptAssumption ==
    /\ MaxStamp \in Nat
    /\ SchedulingPolicyBundle
    /\ TaskResourceEstimate(Estimate)
    /\ \A r \in Snapshots : SchedulerDecisionInput(r)

NoStamp == [s \in Streams |-> None]
Nothing == [reading |-> None, stamp |-> NoStamp]

VARIABLES
    revision,       \* the organization policy in force
    limit,          \* current_limit
    healthy,        \* healthy_windows
    last,           \* last_*_sequence
    cooling,        \* has the cooldown since last_adjusted_at not elapsed?
    witnessed,      \* stamps of healthy evaluations since the last other one
    given           \* the evidence of the last step, if it raised the limit

adaptVars == <<revision, limit, healthy, last, cooling, witnessed, given>>

-----------------------------------------------------------------------------
(* resolve_policy *)

Organization == Organizations[revision]

\* A ceiling only comes down, and a floor only goes up, from layer to layer.
Lowered(inherited, wish) == IF wish = None THEN inherited ELSE Min({inherited, wish})
Raised(inherited, wish) == IF wish = None THEN inherited ELSE Max({inherited, wish})

PolicyValid == Organization.min <= Lowered(Safety.hardMax, Organization.max)
Effective ==
    LET max == Lowered(Lowered(Safety.hardMax, Organization.max), Task.max)
    IN  [max |-> max,
         min |-> Min({Lowered(Organization.min, Task.min), max}),
         ramReserve |-> Raised(Raised(Safety.ramReserve, Organization.ramReserve), Task.ramReserve),
         diskReserve |-> Raised(Raised(Safety.diskReserve, Organization.diskReserve), Task.diskReserve)]

-----------------------------------------------------------------------------
(* _resource_cap and _usage_status *)

\* Free capacity under a cgroup's ceiling; half an evidence is none.
UnderCeiling(free, ceiling, used) ==
    IF ceiling = None /\ used = None THEN free
    ELSE IF None \in {free, ceiling, used} THEN None
    ELSE Min({free, Max({0, ceiling - used})})
CpuFree(r) == IF r.cpuQuota = None THEN r.free["cpu"]
              ELSE UnderCeiling(r.free["cpu"], r.cpuQuota, r.actual["cpu"])
RamFree(r) == UnderCeiling(r.free["ram"], r.ramLimit, r.ramUsed)
Wanted(d) == Estimate[d] > 0

\* Every dimension the task consumes is known and reconciled.
Evident(r) ==
    /\ \A d \in Dimensions : Estimate[d] # None
    /\ \A d \in Dimensions : Wanted(d) => r.reserved[d] # None /\ r.actual[d] # None
    /\ CpuFree(r) # None /\ RamFree(r) # None
    /\ r.writable /\ r.free["disk"] # None
    /\ \A d \in {"swap", "inodes"} : Wanted(d) => r.free[d] # None
    /\ Wanted("gpu") => r.gpus # << >> /\ None \notin Range(r.gpus)
    /\ Wanted("rss") => r.free["rss"] # None /\ r.actual["rss"] = r.free["rss"]

\* Slots beyond the running ones, dimension by dimension; GPU memory is
\* counted device by device, and a slot's resident set comes out of the RAM.
FreeFor(r, d) ==
    IF d = "cpu" THEN CpuFree(r)
    ELSE IF d \in {"ram", "rss"} THEN RamFree(r) - Effective.ramReserve
    ELSE IF d = "disk" THEN r.free["disk"] - Effective.diskReserve
    ELSE r.free[d]
SlotsOf(r, d) ==
    IF d = "gpu" THEN SumFunction([i \in DOMAIN r.gpus |-> r.gpus[i] \div Estimate["gpu"]])
    ELSE FreeFor(r, d) \div Estimate[d]
ReservesHold(r) ==
    /\ RamFree(r) >= Effective.ramReserve
    /\ r.free["disk"] >= Effective.diskReserve
ResourceCap(r) ==
    IF ReservesHold(r)
    THEN r.active + Min({SlotsOf(r, d) : d \in {e \in Dimensions : Wanted(e)}})
    ELSE 0

Compared(r) == {d \in Dimensions : r.reserved[d] # None /\ r.actual[d] # None}
HalfKnown(r) == {d \in Dimensions : (r.reserved[d] = None) # (r.actual[d] = None)}
Exceeded(r) == \E d \in Compared(r) : r.actual[d] > r.reserved[d]
UsageUnknown(r) == ~Exceeded(r) /\ (HalfKnown(r) # {} \/ Compared(r) = {})

-----------------------------------------------------------------------------
(* adapt_concurrency: each outcome is an action, in the code's order *)

Regressed(stamp) == \E s \in Streams : stamp[s] < last[s]
SameWindow(stamp) == stamp = last

\* The gates that close admission, whatever the limit was.
Shut(r, stamp) ==
    \/ ~PolicyValid
    \/ Regressed(stamp)
    \/ ~r.trusted
    \/ r.worker = "closed"
    \/ ~Evident(r)
    \/ r.outage

HardCap(r) ==
    IF r.quotaLeft THEN Min({Effective.max, r.providerMax, ResourceCap(r)}) ELSE 0
Strained(r) == Exceeded(r) \/ r.errors \/ r.slow

\* _decision: the next state; a change of the limit starts the cooldown.
Decide(r, stamp, target, windows) ==
    /\ limit' = target
    /\ healthy' = windows
    /\ last' = IF PolicyValid /\ Regressed(stamp) THEN last ELSE stamp
    /\ cooling' = (cooling \/ target # limit)
    /\ given' = IF target > limit THEN [reading |-> r, stamp |-> stamp] ELSE Nothing
    /\ UNCHANGED revision
Unhealthy == witnessed' = {}

CloseAdmission(r, stamp) ==
    /\ Decide(r, stamp, 0, 0)
    /\ Unhealthy

\* A hard cap below the limit takes effect at once.
FollowCap(r, stamp, cap) ==
    /\ Decide(r, stamp, cap, 0)
    /\ Unhealthy

CloseOnUnknownUsage(r, stamp) ==
    /\ UsageUnknown(r)
    /\ Decide(r, stamp, 0, 0)
    /\ Unhealthy

\* Multiplicative decrease, but never below the minimum.
BackOff(r, stamp, cap) ==
    /\ ~UsageUnknown(r)
    /\ Strained(r)
    /\ LET halved == (limit * Organization.decrease[1]) \div Organization.decrease[2]
       IN  Decide(r, stamp, Min({Max({Effective.min, halved}), cap}), 0)
    /\ Unhealthy

Calm(r) == ~UsageUnknown(r) /\ ~Strained(r)

HoldWhileBusy(r, stamp) ==
    /\ Calm(r)
    /\ r.worker = "busy"
    /\ Decide(r, stamp, limit, 0)
    /\ Unhealthy

AdmitMinimum(r, stamp, cap) ==
    /\ Calm(r)
    /\ r.worker = "ready"
    /\ limit < Effective.min
    /\ Decide(r, stamp, Min({Effective.min, cap}), 0)
    /\ Unhealthy

\* Healthy windows are counted once per stamp.
MutWindows(stamp) ==                      \* mutant: a repeated reading counts again
    Min({Organization.windows, healthy + 1})
Windows(stamp) ==
    IF SameWindow(stamp) THEN healthy ELSE Min({Organization.windows, healthy + 1})
Ripe(stamp, cap) ==
    /\ limit < cap
    /\ Windows(stamp) >= Organization.windows
    /\ ~cooling

Healthy(r) == Calm(r) /\ r.worker = "ready" /\ limit >= Effective.min

Grow(r, stamp, cap) ==
    /\ Healthy(r)
    /\ Ripe(stamp, cap)
    /\ Decide(r, stamp, Min({cap, limit + Organization.increase}), 0)
    /\ witnessed' = {}

Hold(r, stamp, cap) ==
    /\ Healthy(r)
    /\ ~Ripe(stamp, cap)
    /\ Decide(r, stamp, limit, Windows(stamp))
    /\ witnessed' = witnessed \cup {stamp}

Evaluate(r, stamp) ==
    IF Shut(r, stamp) THEN CloseAdmission(r, stamp)
    ELSE LET cap == HardCap(r)
         IN  IF cap < limit \/ cap = 0 THEN FollowCap(r, stamp, cap)
             ELSE \/ CloseOnUnknownUsage(r, stamp) \/ BackOff(r, stamp, cap)
                  \/ HoldWhileBusy(r, stamp) \/ AdmitMinimum(r, stamp, cap)
                  \/ Grow(r, stamp, cap) \/ Hold(r, stamp, cap)

\* with_organization: a hot reload only moves to a later revision.
Reload ==
    /\ revision < Len(Organizations)
    /\ revision' = revision + 1
    /\ UNCHANGED <<limit, healthy, last, cooling, witnessed, given>>

CooldownElapses ==
    /\ cooling
    /\ cooling' = FALSE
    /\ UNCHANGED <<revision, limit, healthy, last, witnessed, given>>

\* A caller starts from a limit of its own choice and no evidence.
AdaptInit ==
    /\ revision = 1
    /\ limit \in 0..Organizations[1].max
    /\ healthy = 0
    /\ last = NoStamp
    /\ cooling = FALSE
    /\ witnessed = {}
    /\ given = Nothing

AdaptNext ==
    \/ \E r \in Snapshots, stamp \in Stamps : Evaluate(r, stamp)
    \/ Reload
    \/ CooldownElapses

AdaptSpec == AdaptInit /\ [][AdaptNext]_adaptVars

-----------------------------------------------------------------------------
(* Properties *)

\* Does a number of slots beyond the running ones fit into a reading, in every
\* dimension at once and with the reserves of the safety layer kept?
Fits(r, slots) ==
    /\ slots * Estimate["cpu"] <= r.free["cpu"]
    /\ \A d \in {"ram", "rss"} : slots * Estimate[d] <= r.free["ram"] - Safety.ramReserve
    /\ slots * Estimate["disk"] <= r.free["disk"] - Safety.diskReserve
    /\ \A d \in {"swap", "inodes"} : Wanted(d) => slots * Estimate[d] <= r.free[d]
    /\ Wanted("gpu") => \E pack \in [DOMAIN r.gpus -> 0..slots] :
          /\ \A i \in DOMAIN r.gpus : pack[i] * Estimate["gpu"] <= r.gpus[i]
          /\ SumFunction(pack) = slots

\* A limit grows only on evidence that earns it.  What is new fits the machine
\* and stays below the deployment's ceiling and the provider's, whichever
\* layers, revisions and readings came before; and beyond the minimum it takes
\* as many different healthy readings as the policy asks for, no cooldown, and
\* at most one increment, so that no late, repeated or reordered reading helps (adapt_concurrency against resolve_policy and _resource_cap).
GrowthIsEarned ==
    [][limit' > limit =>
          LET r == given'.reading
          IN  /\ r.trusted /\ r.worker # "closed" /\ ~r.outage
              /\ \A s \in Streams : given'.stamp[s] >= last[s]
              /\ limit' <= Safety.hardMax
              /\ limit' <= r.providerMax
              /\ limit' > r.active => Fits(r, limit' - r.active)
              /\ \/ limit' <= Organization.min
                 \/ /\ Cardinality(witnessed \cup {given'.stamp}) >= Organization.windows
                    /\ ~cooling
                    /\ limit' - limit <= Organization.increase]_adaptVars
=============================================================================
