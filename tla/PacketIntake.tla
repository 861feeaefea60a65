---------------------------- MODULE PacketIntake ----------------------------
(***************************************************************************)
(* How approved work enters the ledger.  The bridge                         *)
(* (scripts/plan_packet_bridge.py) turns each assignment of a dispatch plan *)
(* into a task packet or an error, reports, and on request enqueues the     *)
(* packets of a report without errors one by one; the closed loop           *)
(* (scripts/dispatch_closed_loop.py) takes an approved bundle of packets,   *)
(* checks all of them, enqueues them one by one into the same ledger and    *)
(* runs one wave of whatever is queued there.  Both may be under way at     *)
(* once, and a controller works on the queued jobs meanwhile.               *)
(***************************************************************************)
EXTENDS Naturals, Sequences, FiniteSets

CONSTANTS
    IntakeJobs,     \* job ids
    AdapterOf,      \* the adapter registry: a contract for each known pool
    DesktopPools,   \* the pools of desktop models
    IntakeHosts,    \* the hosts of the planner's state
    Plans,          \* plans: assignments, and the status of each job they may name
    Bundles,        \* bundles of packets an operator may hand to the closed loop
    WaveLanes,      \* lanes of the closed loop's wave
    NoIntake        \* no report, no packet

\* Assignments and bundles are lists.
IsList(s) == s \in Seq({s[n] : n \in DOMAIN s})

ASSUME IntakeAssumption ==
    /\ \A plan \in Plans : IsList(plan.assignments)
    /\ \A bundle \in Bundles : IsList(bundle)

VARIABLES
    bridgeReport,   \* the bridge's last report: its plan and mode
    bridging,       \* the packets enqueue_packets still has to enqueue
    wave,           \* the closed loop: its place, its bundle and the packets left
    ledger          \* the ledger: a job's status, packet and the way it came in

intakeVars == <<bridgeReport, bridging, wave, ledger>>

IntakeInit ==
    /\ bridgeReport = NoIntake
    /\ bridging = << >>
    /\ wave = [at |-> "idle", left |-> << >>, bundle |-> << >>]
    /\ ledger = [j \in IntakeJobs |-> [status |-> "none", packet |-> NoIntake, via |-> "none",
                                       reviewed |-> << >>]]

-----------------------------------------------------------------------------
(* assignment_to_packet: the checks, in the order the code makes them *)

Contract(a) == AdapterOf[a.pool]

RemoteCli(a) == Contract(a).adapter = "remote_cli"

\* A desktop model whose work is on another host than its CLI.
SplitPlaced(a) ==
    a.pool \in DesktopPools /\ a.runs = "local" /\ a.workload # a.execution

HostsKnown(a) == {a.execution, a.workload} \subseteq IntakeHosts

CliHasContract(a) == RemoteCli(a) => a.contract = "cli" /\ a.runs = "ssh"

DesktopStaysLocal(a) ==
    (~RemoteCli(a) /\ (Contract(a).desktop \/ a.pool \in DesktopPools)) =>
        /\ a.runs = "local"
        /\ a.workload # a.execution =>
              Contract(a).split /\ a.wrapper /\ a.contract = "split"

ServerOnOneHost(a) ==
    Contract(a).adapter = "server_local" => a.workload = a.execution /\ a.runs = "ssh"

EndpointAllowed(a) ==
    /\ Contract(a).adapter = "server_openai" => Contract(a).loopback
    /\ Contract(a).adapter = "cursor" => Contract(a).authorized

\* bridge_foundry_packet wants the packet's plan digest, which its schema gives
\* the prefix "sha256:", to equal the bare digest bridge_plan computes: no
\* Foundry packet passes.
Bridges(a) ==
    /\ ~a.foundry
    /\ a.pool \in DOMAIN AdapterOf
    /\ HostsKnown(a) /\ CliHasContract(a) /\ DesktopStaysLocal(a)
    /\ ServerOnOneHost(a) /\ EndpointAllowed(a)
    /\ a.confined      \* workspace, prompt, artifacts, result and validator
    /\ a.scope # NoIntake
    /\ SplitPlaced(a) => a.contract = "split"

Packet(plan, a) ==
    [job |-> a.job, plan |-> plan.digest, scope |-> a.scope,
     foundry |-> a.foundry, runs |-> a.runs, workload |-> a.workload,
     remote |-> a.runs = "ssh" \/ SplitPlaced(a),
     fake |-> a.pool \in DOMAIN AdapterOf /\ Contract(a).adapter = "fake",
     desktop |-> a.pool \in DOMAIN AdapterOf
                   /\ ~RemoteCli(a) /\ (Contract(a).desktop \/ a.pool \in DesktopPools)]

-----------------------------------------------------------------------------
(* bridge_plan and enqueue_packets *)

Enqueueable(plan, a) ==
    /\ a.job \in DOMAIN plan.jobs
    /\ plan.jobs[a.job] \notin {"active", "running", "completed", "blocked"}

Translates(plan, a) == Enqueueable(plan, a) /\ Bridges(a)

\* The packets of a report without errors: one for each assignment.
PacketsOf(plan) ==
    [n \in DOMAIN plan.assignments |-> Packet(plan, plan.assignments[n])]

MutReportOk(plan) ==                    \* mutant: one packet is enough
    \E n \in DOMAIN plan.assignments : Translates(plan, plan.assignments[n])

ReportOk(plan) ==
    /\ \A n \in DOMAIN plan.assignments : Translates(plan, plan.assignments[n])
    /\ PacketsOf(plan) # << >>

BridgePlan(plan, mode) ==
    /\ bridgeReport' = [plan |-> plan, mode |-> mode]
    /\ UNCHANGED <<bridging, wave, ledger>>

EnqueuePackets ==
    /\ bridgeReport # NoIntake /\ bridging = << >>
    /\ bridgeReport.mode = "enqueue-ready" /\ ReportOk(bridgeReport.plan)
    /\ bridging' = PacketsOf(bridgeReport.plan)
    /\ bridgeReport' = NoIntake
    /\ UNCHANGED <<wave, ledger>>

\* SQLiteController.enqueue of packet p: a failed, blocked or pending job is
\* requeued with it, a job that exists otherwise keeps its own.
Admits(p) ==
    \/ ledger[p.job].status \in {"none", "failed", "blocked", "pending"}
    \/ ledger[p.job].packet = p

Entered(p, via, reviewed) ==
    IF ledger[p.job].status \in {"none", "failed", "blocked", "pending"}
    THEN [ledger EXCEPT ![p.job] = [status |-> "queued", packet |-> p, via |-> via,
                                    reviewed |-> reviewed]]
    ELSE ledger

\* One packet: an error of one does not keep the next from being enqueued.
EnqueueNext ==
    /\ bridging # << >>
    /\ LET p == Head(bridging)
       IN  IF ~p.foundry /\ Admits(p)
           THEN ledger' = Entered(p, "bridge", << >>)
           ELSE UNCHANGED ledger
    /\ bridging' = Tail(bridging)
    /\ UNCHANGED <<bridgeReport, wave>>

\* Another controller holds the lease: the packet is an error in the report.
EnqueueMeetsLease ==
    /\ bridging # << >>
    /\ bridging' = Tail(bridging)
    /\ UNCHANGED <<bridgeReport, wave, ledger>>

-----------------------------------------------------------------------------
(* run_closed_loop *)

MutFakeOnly(bundle) == bundle[1].fake

\* _fake_attempt_allowed, of every packet before the first is enqueued.
FakeOnly(bundle) ==
    \A n \in DOMAIN bundle : bundle[n].fake /\ bundle[n].runs = "local"

\* _validate_packets: no Foundry packet, one packet per job and write scope.
Distinct(bundle) ==
    /\ \A n \in DOMAIN bundle : ~bundle[n].foundry
    /\ \A m, n \in DOMAIN bundle :
         m # n => bundle[m].job # bundle[n].job /\ bundle[m].scope # bundle[n].scope

StartWave(bundle) ==
    /\ wave.at = "idle"
    /\ bundle # << >> /\ Distinct(bundle) /\ FakeOnly(bundle)
    /\ wave' = [at |-> "enqueue", left |-> bundle, bundle |-> bundle]
    /\ UNCHANGED <<bridgeReport, bridging, ledger>>

\* The bridge's own report may be the bundle, once it is approved.
StartReportedWave ==
    /\ bridgeReport # NoIntake
    /\ bridgeReport.mode = "enqueue-ready" /\ ReportOk(bridgeReport.plan)
    /\ StartWave(PacketsOf(bridgeReport.plan))

\* A refused packet ends the loop; the ones before it stay queued.
WaveNext ==
    /\ wave.at = "enqueue" /\ wave.left # << >>
    /\ LET p == Head(wave.left)
       IN  IF Admits(p)
           THEN /\ ledger' = Entered(p, "loop", wave.bundle)
                /\ wave' = [wave EXCEPT !.left = Tail(@)]
           ELSE /\ UNCHANGED ledger
                /\ wave' = [at |-> "idle", left |-> << >>, bundle |-> << >>]
    /\ UNCHANGED <<bridgeReport, bridging>>

WaveMeetsLease ==
    /\ wave.at = "enqueue"
    /\ wave' = [at |-> "idle", left |-> << >>, bundle |-> << >>]
    /\ UNCHANGED <<bridgeReport, bridging, ledger>>

\* run(once): up to the bundle's number of lanes, of whatever is queued.
RunWave(jobs) ==
    /\ wave.at = "enqueue" /\ wave.left = << >>
    /\ Cardinality(jobs) <= WaveLanes /\ Cardinality(jobs) <= Len(wave.bundle)
    /\ \A j \in jobs : ledger[j].status = "queued"
    /\ \E ended \in [jobs -> {"completed", "failed"}] :
         ledger' = [j \in IntakeJobs |->
                      IF j \in jobs THEN [ledger[j] EXCEPT !.status = ended[j]] ELSE ledger[j]]
    /\ wave' = [at |-> "idle", left |-> << >>, bundle |-> << >>]
    /\ UNCHANGED <<bridgeReport, bridging>>

\* A controller beside them.
ControllerMoves(j, s) ==
    /\ <<ledger[j].status, s>> \in {<<"queued", "running">>, <<"running", "completed">>,
                                    <<"running", "failed">>, <<"queued", "blocked">>}
    /\ ledger' = [ledger EXCEPT ![j].status = s]
    /\ UNCHANGED <<bridgeReport, bridging, wave>>

IntakeNext ==
    \/ \E plan \in Plans, mode \in {"dry-run", "enqueue-ready"} : BridgePlan(plan, mode)
    \/ EnqueuePackets \/ EnqueueNext \/ EnqueueMeetsLease
    \/ \E bundle \in Bundles : StartWave(bundle)
    \/ StartReportedWave \/ WaveNext \/ WaveMeetsLease
    \/ \E jobs \in SUBSET IntakeJobs : RunWave(jobs)
    \/ \E j \in IntakeJobs, s \in {"running", "completed", "failed", "blocked"} :
         ControllerMoves(j, s)

IntakeSpec == IntakeInit /\ [][IntakeNext]_intakeVars

-----------------------------------------------------------------------------
\* Nothing of a plan is in the ledger unless all of it could be translated,
\* nothing of a bundle unless all of it is fake, local and of distinct jobs and
\* scopes, although packets enter one by one beside another intake and a
\* controller; and a desktop model never runs over ssh.
QueuedWorkWasReviewed ==
    \A j \in IntakeJobs : ledger[j].status # "none" =>
        LET p == ledger[j].packet IN
        /\ p.job = j /\ ~p.foundry
        /\ p.desktop => p.runs = "local"
        /\ ledger[j].via = "bridge" =>
             \E plan \in Plans :
                /\ plan.digest = p.plan
                /\ \A n \in DOMAIN plan.assignments :
                     LET a == plan.assignments[n] IN
                     a.job \in DOMAIN plan.jobs /\ Bridges(a)
        /\ ledger[j].via = "loop" =>
             LET bundle == ledger[j].reviewed IN
             /\ Cardinality({bundle[n].job : n \in DOMAIN bundle}) = Len(bundle)
             /\ Cardinality({bundle[n].scope : n \in DOMAIN bundle}) = Len(bundle)
             /\ \A n \in DOMAIN bundle : bundle[n].fake /\ bundle[n].runs = "local"
=============================================================================
