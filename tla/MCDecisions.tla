----------------------------- MODULE MCDecisions -----------------------------
(***************************************************************************)
(* Small instances of the machines that decide where and how much work may  *)
(* run.  They share no state: a behaviour is one machine's own, the rest    *)
(* keep their initial state.                                                *)
(***************************************************************************)
EXTENDS AdaptiveConcurrency, ReservationBook, WorkerProjection, MCMonitorReplan,
        MCDispatchPlanner, QuotaWake, QuotaEvidence, PacketIntake,
        PlacedLaunch, SkillEvolution, TLC

VARIABLE machine    \* the machine this behaviour is about

Machines == {"concurrency", "book", "projection", "monitor", "planner", "quota",
             "evidence", "intake", "launch", "skills"}
vars == <<adaptVars, bookVars, projectionVars, monitorVars, plannerVars, quotaVars,
          evidenceVars, intakeVars, placedVars, skillVars, machine>>

MCInit ==
    /\ machine \in Machines
    /\ AdaptInit /\ BookInit /\ ProjectionInit /\ MonitorInit
    /\ QuotaInit /\ EvidenceInit /\ IntakeInit /\ PlacedInit
    /\ SkillInit
    /\ machine # "concurrency" => limit = 0
    /\ IF machine = "planner" THEN PlannerInit ELSE asked = NoPlan /\ planOut = NoPlan

MCNext ==
    \/ /\ machine = "concurrency" /\ AdaptNext
       /\ UNCHANGED <<bookVars, projectionVars, monitorVars, plannerVars, quotaVars,
                      evidenceVars, intakeVars, placedVars,
                      skillVars, machine>>
    \/ /\ machine = "book" /\ BookNext
       /\ UNCHANGED <<adaptVars, projectionVars, monitorVars, plannerVars, quotaVars,
                      evidenceVars, intakeVars, placedVars,
                      skillVars, machine>>
    \/ /\ machine = "projection" /\ ProjectionNext
       /\ UNCHANGED <<adaptVars, bookVars, monitorVars, plannerVars, quotaVars,
                      evidenceVars, intakeVars, placedVars,
                      skillVars, machine>>
    \/ /\ machine = "monitor" /\ MonitorNext
       /\ UNCHANGED <<adaptVars, bookVars, projectionVars, plannerVars, quotaVars,
                      evidenceVars, intakeVars, placedVars,
                      skillVars, machine>>
    \/ /\ machine = "planner" /\ PlannerNext
       /\ UNCHANGED <<adaptVars, bookVars, projectionVars, monitorVars, quotaVars,
                      evidenceVars, intakeVars, placedVars,
                      skillVars, machine>>
    \/ /\ machine = "quota" /\ QuotaNext
       /\ UNCHANGED <<adaptVars, bookVars, projectionVars, monitorVars, plannerVars,
                      evidenceVars, intakeVars, placedVars,
                      skillVars, machine>>
    \/ /\ machine = "evidence" /\ EvidenceNext
       /\ UNCHANGED <<adaptVars, bookVars, projectionVars, monitorVars, plannerVars,
                      quotaVars, intakeVars, placedVars,
                      skillVars, machine>>
    \/ /\ machine = "intake" /\ IntakeNext
       /\ UNCHANGED <<adaptVars, bookVars, projectionVars, monitorVars, plannerVars,
                      quotaVars, evidenceVars, placedVars,
                      skillVars, machine>>
    \/ /\ machine = "launch" /\ PlacedNext
       /\ UNCHANGED <<adaptVars, bookVars, projectionVars, monitorVars, plannerVars,
                      quotaVars, evidenceVars, intakeVars,
                      skillVars, machine>>
    \/ /\ machine = "skills" /\ SkillNext
       /\ UNCHANGED <<adaptVars, bookVars, projectionVars, monitorVars, plannerVars,
                      quotaVars, evidenceVars, intakeVars,
                      placedVars, machine>>

MCSpec == MCInit /\ [][MCNext]_vars

-----------------------------------------------------------------------------
\* AdaptiveConcurrency: the organization first lowers, then raises the maximum;
\* the task asks for more than either allows.
MCSafety == [hardMax |-> 5, ramReserve |-> 1, diskReserve |-> 1]
MCOrganizations == <<
    [min |-> 1, max |-> 3, increase |-> 2, decrease |-> <<1, 2>>, windows |-> 2,
     ramReserve |-> 2, diskReserve |-> None],
    [min |-> 2, max |-> 4, increase |-> 1, decrease |-> <<1, 2>>, windows |-> 2,
     ramReserve |-> None, diskReserve |-> 2]>>
MCTask == [min |-> None, max |-> 6, ramReserve |-> 0, diskReserve |-> 1]
MCEstimate == "cpu" :> 1 @@ "ram" :> 2 @@ "swap" :> 0 @@ "gpu" :> 2 @@
              "disk" :> 1 @@ "inodes" :> 1 @@ "rss" :> 0
MCSnapshot ==
    [trusted |-> TRUE, worker |-> "ready", outage |-> FALSE, errors |-> FALSE, slow |-> FALSE,
     quotaLeft |-> TRUE, providerMax |-> 5, active |-> 1,
     free |-> "cpu" :> 6 @@ "ram" :> 12 @@ "swap" :> 0 @@ "disk" :> 8 @@ "inodes" :> 9 @@ "rss" :> 0,
     gpus |-> <<4, 4>>, cpuQuota |-> None, ramLimit |-> None, ramUsed |-> None, writable |-> TRUE,
     reserved |-> [d \in Dimensions |-> 2], actual |-> [d \in Dimensions |-> IF d = "rss" THEN 0 ELSE 1]]
Crowded == [MCSnapshot EXCEPT !.active = 2, !.gpus = <<3, 3>>, !.free["ram"] = 7]
MCSnapshots ==
    {MCSnapshot, Crowded, [Crowded EXCEPT !.errors = TRUE],
     [MCSnapshot EXCEPT !.active = 0, !.cpuQuota = 4, !.ramLimit = 8, !.ramUsed = 2],
     [MCSnapshot EXCEPT !.trusted = FALSE], [MCSnapshot EXCEPT !.worker = "busy"],
     [MCSnapshot EXCEPT !.quotaLeft = FALSE], [MCSnapshot EXCEPT !.free["disk"] = 1],
     [MCSnapshot EXCEPT !.providerMax = 2], [MCSnapshot EXCEPT !.gpus = <<4, None>>],
     [MCSnapshot EXCEPT !.reserved["swap"] = None]}

\* ReservationBook: two workers, the second with a root mount only; the first
\* one's evidence is once without headroom, once stale in one respect or other.
MCWorkloads ==
    {[amount |-> "cpu" :> 1 @@ "ram" :> 2 @@ "disk" :> 2 @@ "inodes" :> 1 @@ "gpu" :> Unknown,
      headroom |-> 50, capabilities |-> {"git"}],
     [amount |-> "cpu" :> Unknown @@ "ram" :> 2 @@ "disk" :> 1 @@ "inodes" :> Unknown @@ "gpu" :> 2,
      headroom |-> 0, capabilities |-> {}]}
MCMount == [path |-> <<"srv">>, probed |-> TRUE, fresh |-> TRUE, writable |-> TRUE, bytes |-> 9,
            quota |-> "none", quotaFree |-> Unknown, inodes |-> 3, reserved |-> 0]
MCTarget == [host |-> "h1", path |-> <<"srv", "work">>, ready |-> "yes", remote |-> TRUE, route |-> "yes",
             capabilities |-> {"git"}, maxLanes |-> 3, activeLanes |-> 0, threads |-> 3,
             ramFresh |-> TRUE, ram |-> 9, ramReserved |-> 1, cgroup |-> "none", cgroupFree |-> Unknown,
             gpus |-> {[free |-> 4, reserved |-> 0, fresh |-> TRUE], [free |-> 9, reserved |-> 0, fresh |-> FALSE]},
             mounts |-> {MCMount, [MCMount EXCEPT !.path = << >>]}]
Tight == [MCTarget EXCEPT !.cgroup = "known", !.cgroupFree = 6, !.maxLanes = 2,
             !.mounts = {[MCMount EXCEPT !.quota = "known", !.quotaFree = 6, !.reserved = 1],
                         [MCMount EXCEPT !.path = <<"srv", "old">>, !.bytes = 99]}]
RootOnly == [MCTarget EXCEPT !.mounts = {[MCMount EXCEPT !.path = << >>]}]
MCOffers ==
    {"t1" :> MCTarget @@ "t2" :> Tight, "t1" :> Tight, "t1" :> RootOnly @@ "t2" :> MCTarget,
     "t1" :> [MCTarget EXCEPT !.route = "unknown"] @@ "t2" :> [MCTarget EXCEPT !.capabilities = {}],
     "t1" :> [MCTarget EXCEPT !.cgroup = "half"] @@ "t2" :> [Tight EXCEPT !.gpus = {}]}
MCActuals ==
    {"cpu" :> 1 @@ "ram" :> 1 @@ "disk" :> 2 @@ "inodes" :> 1 @@ "gpu" :> 0 @@ "lanes" :> 1,
     "cpu" :> 2 @@ "ram" :> 5 @@ "disk" :> 4 @@ "inodes" :> 2 @@ "gpu" :> 3 @@ "lanes" :> 1}
-----------------------------------------------------------------------------
\* QuotaWake: both pools exhausted, one of them seen earlier with quota; a ready
\* one beside one that cools down; one in drain whose login conflicts beside a
\* stale snapshot.
Snap(p, age, left, resets) ==
    [pool |-> p, age |-> age, left |-> left, resets |-> resets,
     conflict |-> FALSE, configured |-> resets # {}, cooling |-> FALSE]
QuotaReadings ==
    {<<Snap(1, 1, 2, {5}), Snap(1, 0, 0, {5}), Snap(2, 0, 0, {4})>>,
     <<Snap(1, 0, 2, {4}), [Snap(2, 0, 2, {4}) EXCEPT !.cooling = TRUE]>>,
     <<[Snap(1, 0, 1, {3}) EXCEPT !.conflict = TRUE], Snap(2, 2, 0, {4})>>}
-----------------------------------------------------------------------------
\* QuotaEvidence: two windows, reports of both or of one of them.
MCWindowLength == <<2, 3>>
MCReports == {<<"good", "good">>, <<"missing", "good">>}
-----------------------------------------------------------------------------
\* PacketIntake: plans without a flaw, one with an assignment that cannot be
\* translated, and bundles that are not all fake or hold a Foundry packet.
IntakeAdapter(name, desktop) == [adapter |-> name, desktop |-> desktop, split |-> desktop,
                           loopback |-> TRUE, authorized |-> FALSE]
MCAdapterOf == "codex.spark" :> IntakeAdapter("codex", TRUE) @@ "cli" :> IntakeAdapter("remote_cli", FALSE)
               @@ "cursor" :> IntakeAdapter("cursor", TRUE) @@ "fake" :> IntakeAdapter("fake", FALSE)
IntakeAssign(j, pool, runs, agentHost, workHost, placement) ==
    [job |-> j, pool |-> pool, runs |-> runs, execution |-> agentHost, workload |-> workHost,
     contract |-> placement, wrapper |-> TRUE, confined |-> TRUE, scope |-> j, foundry |-> FALSE]
FakeAssign(j) == IntakeAssign(j, "fake", "local", "mac", "mac", "none")
IntakePlan(digest, assignments) ==
    [digest |-> digest, assignments |-> assignments, jobs |-> 1 :> "pending" @@ 2 :> "pending"]
MCIntakePlans == {
    IntakePlan(1, <<IntakeAssign(1, "codex.spark", "local", "mac", "srv", "split")>>),
    IntakePlan(2, <<FakeAssign(1), IntakeAssign(2, "codex.spark", "ssh", "srv", "srv", "none")>>),
    IntakePlan(4, <<FakeAssign(2)>>)}
MCBundles == {<<Packet(IntakePlan(4, << >>), FakeAssign(2)), Packet(IntakePlan(4, << >>), FakeAssign(1))>>,
              <<Packet(IntakePlan(4, << >>), FakeAssign(2)),
                Packet(IntakePlan(1, << >>), IntakeAssign(1, "codex.spark", "local", "mac", "srv", "split"))>>,
              <<Packet(IntakePlan(4, << >>), [FakeAssign(2) EXCEPT !.foundry = TRUE])>>}
-----------------------------------------------------------------------------
\* PlacedLaunch: assignments on the server and split ones, exact and not;
\* evidence of each host, fresh, old or incomplete.
CliAssignment == [kind |-> "cli", pool |-> "spark", exact |-> TRUE, confined |-> TRUE,
            execution |-> "srv", workload |-> "srv", workspace |-> "ws", ram |-> 1]
SplitAssignment == [CliAssignment EXCEPT !.kind = "split", !.execution = "desk"]
MCAssignments ==
    {CliAssignment, SplitAssignment,
     [CliAssignment EXCEPT !.pool = "luna"], [SplitAssignment EXCEPT !.pool = "luna"],
     [CliAssignment EXCEPT !.exact = FALSE], [SplitAssignment EXCEPT !.workload = "desk"]}
MCProbe(host, at) ==
    [auth |-> [host |-> host, at |-> 0], route |-> [host |-> "srv", at |-> 0],
     resource |-> [host |-> "srv", at |-> at, workspace |-> "ws", ram |-> 1]]
MCProbes == {MCProbe("srv", 0), MCProbe("desk", 0), MCProbe("desk", 1), MCProbe("none", 0)}
MCCapacity(at) == [at |-> at, absent |-> FALSE, required |-> TRUE, bound |-> TRUE, enough |-> TRUE]
MCQuota(at) == [at |-> at, pool |-> "spark", required |-> TRUE, enough |-> TRUE]
MCReceipts ==
    {[capacity |-> MCCapacity(1), quota |-> MCQuota(0)],
     [capacity |-> MCCapacity(0), quota |-> MCQuota(1)],
     [capacity |-> [MCCapacity(0) EXCEPT !.absent = TRUE, !.required = FALSE],
      quota |-> [MCQuota(0) EXCEPT !.pool = "absent", !.required = FALSE]],
     [capacity |-> [MCCapacity(0) EXCEPT !.absent = TRUE], quota |-> MCQuota(0)]}
MCRewrites(p) ==
    {[p EXCEPT !.plan.workload = "srv2"], [p EXCEPT !.plan.exact = FALSE],
     [p EXCEPT !.resource.host = "srv2"], [p EXCEPT !.resource.at = 1],
     [p EXCEPT !.contract.auth.at = 1], [p EXCEPT !.contract.route.at = 1, !.sealed.route.at = 1],
     [p EXCEPT !.contract.confined = FALSE, !.sealed.confined = FALSE, !.plan.confined = FALSE]}
-----------------------------------------------------------------------------
\* SkillEvolution: every assignment of two capabilities to five skills, and
\* every graph of similar ones; the plans of one index have outcomes.
MCIndex(caps, cost, similar) ==
    [skills |-> [s \in 1..5 |-> [caps |-> caps[s], cost |-> cost[s], usable |-> TRUE,
                                appeal |-> <<5, 9, 4, 7, 8>>[s], version |-> 1]],
     similar |-> similar]
MCReportedIndexes == {MCIndex(<<{"a"}, {"b"}, {}, {}, {}>>, <<1, 1, 2, 2, 3>>, {})}
MCIndexes ==
    MCReportedIndexes
    \cup {MCIndex(caps, <<1, 1, 2, 2, 3>>, {{1, 2}, {3, 4}}) :
             caps \in [1..5 -> {{}, {"a"}, {"b"}, {"a", "b"}}]}
    \cup {MCIndex(caps, <<3, 1, 2, 1, 1>>, {}) : caps \in [1..5 -> {{}, {"a"}, {"b"}}]}
    \cup {MCIndex([s \in 1..5 |-> {"a"}], <<1, 1, 1, 1, 1>>, edges) :
             edges \in SUBSET {pair \in SUBSET (1..5) : Cardinality(pair) = 2}}
MCRequests == {[k |-> 3, required |-> {"a", "b"}, budget |-> 5]}
MCOutcomeReports ==
    {[skills |-> skills, age |-> age, status |-> found[1], quality |-> found[2], refs |-> {ref}] :
        skills \in {{1}, {1, 2}}, age \in {0, 1}, ref \in {"e1", "e2"},
        found \in {<<"failure", "none">>, <<"success", "poor">>}}
=============================================================================
