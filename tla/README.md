# Local Agent Dispatch: TLA+ models and proofs

This directory is a verification development of `local-agent-dispatch`: TLA+
modules translated from the Python source, TLC configurations that check them on
small instances, and TLAPS proofs of the central safety properties for every
value of the constants. `PROJECT.json` maps every definition to the source lines
it stands for, lists the runs, one mutant per checked property, the hazards of
the code and the theorems.

Contents: 1 inventory, 2 modules and code, 3 how things are modelled, 4 runs,
5 fairness, 6 divergences and observations, 7 proofs, 8 what is not modelled, and
the plan.

## 1. Inventory

The system lets one operator dispatch "packets" (a task with an ordered list of
attempts, each a command, model or remote target) to local processes and remote
workers, and keeps a durable ledger of what was started and how it ended.

### 1.1 Components, state, operations

| Component | State | Operations | Modelled in |
|---|---|---|---|
| **Dispatch ledger** `scripts/sqlite_store.py` | tables `leases`, `jobs`, `attempts`, `reservations` | acquire / heartbeat / release the controller lease; create, requeue, import a job; reserve, heartbeat, release resources; claim one, several, or reserve-and-claim; heartbeat, complete, recover jobs | DispatchStore; partly (migration, audits and row projections are left out) |
| **Transport outbox** (same file) | `transport_outbox`: one row per remote request | enqueue with the job, bind to an attempt, record a receipt, record and complete | TransportStore |
| **SQLite controller** `scripts/sqlite_controller.py`, `scripts/process_group_run.py` | process memory (fence, candidates, lanes), child processes, PID breadcrumb files | `enqueue`, `run`, `resume`; admission passes, lanes, heartbeat threads, recovery evidence | SQLiteController; partly (packet validation enters by its outcome) |
| **PBS bridge and wrapper** `scripts/pbs_controller_bridge.py`, `pbs_worker_wrapper.py`, `remote_outbox.py`, `remote_envelope.py` | outbox row, worker spool (inbox, receipts), PBS run root (intent, submission, receipt files), PBS queue | deliver, poll, submit, reconcile | PBSBridge |
| **Run segments, durable supervisor** `sqlite_segment_controller.py`, `durable_controller.py`, `durable_run_loop.py`, `checkpoint_receipt.py`, tables of `sqlite_store.py` | `run_segments`, checkpoints, cleanup intents, sidecar files, PBS jobs | begin, checkpoint, finish, adopt, roll over, submit, reconcile | RunSegments, DurableSupervisor |
| **Provenance ledger** `src/local_agent_dispatch/ledger`, `domain/lifecycle.py` | append-only causal events, claims, JSONL file | append, reload, reconcile, promote | ProvenanceLedger |
| **Remote worker spool** `remote_worker.py`, `remote_worker_client.py`, `remote_prepare_orchestrator.py`, `reverse_envelope_service.py` | `manifest.json`, leases, children, artifacts; envelopes | prepare, claim, heartbeat, complete, recover, resume; prepare over ssh and record a receipt | WorkerSpool, PrepareTransport |
| **Reverse tunnel supervisor** `reverse_tunnel_supervisor.py` | child process, attempts, status file | start, wait, back off, stop | TunnelSupervisor |
| **JSON continuity controller** `continuity_controller.py` | JSON queue under a file lock, runtime state file | init, enqueue, run, resume, record evidence | ContinuityQueue |
| **Scheduler core and policy** `src/local_agent_dispatch/scheduler` | reservations in memory, adaptive limits | filter, reserve, reconcile, release; adapt the limit | ReservationBook, AdaptiveConcurrency |
| **Resource governor and admission** `resource_governor.py`, `resource_admission.py` | memory tier with hysteresis | observe, admit, refuse | ResourceGovernor; partly |
| **Quota evidence** `quota/evidence.py`, `attempt_evidence_ledger.py`, `quota_window_watcher.py` | reports, receipts, evidence rows, wake hint | decide, bound, record; watch and wake | QuotaEvidence, QuotaWake; partly |
| **Package store** `src/local_agent_dispatch/packages` | installed packages, lock generations | install, activate, roll back, uninstall; resolve | PackageStore, PackageCatalog |
| **Monitor, replan, closed loop** `dispatch_monitor.py`, `replan_controller.py`, `dispatch_closed_loop.py` | planner state, report, constraints; a wave | observe, report, replan, merge; enqueue and run a bundle | MonitorReplan, PacketIntake; partly |
| **Planner and packet bridge** `dynamic_dispatch_planner.py`, `plan_packet_bridge.py`, ... | none of their own | place; translate and enqueue | DispatchPlanner, PacketIntake; partly |
| **Placement evidence and launch** `remote_cli_placement.py`, `desktop_split_placement.py`, `remote_cli_execution.py`, ... | contracts, packets, results | attach, queue, claim, launch, execute | PlacedLaunch |
| **Controller/worker API** `src/local_agent_dispatch/{api,worker}` | projection of one worker | register, snapshot, heartbeat, handle | WorkerProjection |
| **Skills** `src/local_agent_dispatch/skills` | none of their own; callers keep the answers | compose, analyse, propose a revision | SkillEvolution; partly |
| **Server git integrator** `server_git_integrator.py` | proposals, target branch, its remote | propose, apply, push | ProjectIntegrator; partly |
| **Fake cluster replay** `research/simulator` | clock, jobs, leases, quota windows | plan, inject faults, run | FakeReplay |
| **Mission compiler and domain, plugins and harness adapters** | value objects | compile, validate | no |
| **Probes, scans, CLI, export and release tooling** | none of their own | read the machine, parse, print | no |

### 1.2 Interactions

* Every command that changes the ledger is a process of its own. It enters the
  context manager `controller_lease`, which acquires the single lease row,
  starts a heartbeat thread, and releases the lease at the end. The fencing
  token the acquisition returned goes with every later call; a call under a
  token that is no longer current raises `FencingError` and rolls back.
* `run` recovers expired jobs once, then loops: a pass over the waiting jobs
  reserves and claims (one transaction per job), `claim_jobs` fills the
  remaining lanes, the batch is executed by a thread per lane. A lane starts a
  child in a process group of its own, writes the child's PID to a breadcrumb
  file, waits, and records the outcome. The child outlives a controller crash;
  a later controller decides from the breadcrumb whether it is gone.
* A remote job is queued together with an outbox row. `remote_outbox` delivers
  the row to the worker's spool over SSH, `pbs_controller_bridge` asks the
  wrapper on the login node to `qsub` it, and both poll for receipts. Each of
  these is: read the row under the lease, one SSH call, record the answer under
  the lease. Between the first and the last the lease may have changed hands,
  and the remote command may live on without its caller.
* The planner, replan loop and monitor read the ledger's projections and
  produce packets for `enqueue`; the governor and the admission gates are asked
  in the reservation pass and before a launch.

### 1.3 What is hard here

* **Fencing and stale clocks.** The clock is read before the write lock is
  obtained; a lease judged live may have run out, but cannot have been taken
  over with effect on the same row in between.
* **Independent deadlines** of lease, job, attempt and reservation, renewed by
  different heartbeats.
* **Crash between launch and breadcrumb**, breadcrumbs of earlier attempts,
  children that survive their controller.
* **Lost answers** of non-idempotent remote commands (`qsub`).
* **Several channels for one fact**: worker poll, PBS reconciliation, direct
  completion and recovery all want to decide how one attempt ended.
* **Files replaced one after the other**: sidecars, manifests, lock generations,
  proposals beside git; a crash between two of them.
* **Evidence that ages** between the step that checked it and the one that uses it.
* **Liveness**: retry gates, refused reservations, one recovery pass per
  process, a lease that a durable worker never gives up.

### 1.4 What makes each modelled component correct

* *Ledger*: at most one running attempt per job, the one its counter names
  (`SingleFlight`); no two controllers share an epoch (`FenceOrder`); a claim
  finds its attempt number free (`NextAttemptIsFresh`); a running attempt is ended
  only by its claimant under the current fence or after its lease ran out
  (`EndsByClaimantOrExpiry`); no group is oversubscribed (`CapacityRespected`);
  the whole behaves like a fenced exclusive queue (`ImplementsLedger`).
* *Outbox*: a reported promotion has an attempt with an outcome behind it
  (`PromotedHasOutcome`), and with the outbox the ledger keeps all its promises
  (`ImplementsStore`).
* *Controller*: never two live children of one job (`AtMostOneLiveChild`),
  nothing completes beside a live child (`CompletionIsFinal`), reservations and
  running jobs go together (`SlotsFollowJobs`), the queue drains (`QueueDrains`).
* *Bridge*: one `qsub` per request (`AtMostOneQsub`), every recorded receipt and
  outcome has its evidence at the worker (`OutcomeHasEvidence`), accepted requests
  settle (`AcceptedSettles`).
* *Durable loop*: one submission per segment (`SubmittedOnce`), memory that agrees
  with the table (`SupervisorKnowsSegment`), no use of the table outside its
  methods (`ImplementsSegments`), checkpoints that form one chain
  (`CheckpointChain`).
* The smaller components have one property each; section 2 names it with its
  module.

## 2. Modules and the code

```
            JobLedger (abstract)
                ^  refinement mapping: StoreRefinement
            DispatchStore  <---- SQLiteController   (processes, lanes, children)
                ^---------------- TransportStore    (outbox, receipts, promotion)
            RunSegments    <---- DurableSupervisor  (the durable run loop)
            PBSBridge           (one request across controller, spool, PBS)

   MCMachines:  RunSegments WorkerSpool ContinuityQueue PackageStore PackageCatalog
                ProvenanceLedger ResourceGovernor PrepareTransport TunnelSupervisor
                ProjectIntegrator FakeReplay
   MCDecisions: AdaptiveConcurrency ReservationBook WorkerProjection MonitorReplan
                DispatchPlanner QuotaWake QuotaEvidence PacketIntake PlacedLaunch
                SkillEvolution
```

### 2.1 The ledger and its controllers

**DispatchStore** models `sqlite_store.py`. A variable is a table: `lease`,
`jobs`, `attempts`, `reservations`; a record field is a column the methods
decide on (`left` for `lease_expires_at_utc`, `retry_left` for `retry_at_utc`,
`base` for the `_lad_replan_base_attempt_count` marker in the payload). Every public
method is one `BEGIN IMMEDIATE` transaction and therefore one action with its
name (`Acquire`, `CreateJob`, `RequeueJob`, `ImportLegacyJob`,
`ReserveResources`, `ClaimJob`, `ClaimJobs`, `ReserveAndClaimJob`,
`HeartbeatJob`, `CompleteJob`, `RecoverExpiredJobs`, ...). A method that raises
rolls back, so it is not a step. Only the latest reservation row of a job is
kept; an older one is never active and never read. The uniqueness constraint
`UNIQUE(job_id, attempt_no)` is the guard in `ClaimRows`. `claim_jobs`'s
`LIMIT` window and its order are `Window` and `Selected`.

**JobLedger** is what the ledger promises to somebody who does not care about
clocks and rows: epochs, phases, an exclusive holder. **StoreRefinement** is the
mapping: the epoch is the lease's fence, the holder the claim's fence, a phase
one or more values of `jobs.status`.

**SQLiteController** extends DispatchStore with processes. `pc[p]` says where
`enqueue`, `run` or `resume` is; each store call of the process is the store's
action conjoined with the process's own step, so nothing of the store is
re-modelled. `lane[j][n]` is the thread that executes attempt `n` of job `j`,
`child[j][n]` the operating system process, `pidfile` the breadcrumb. Packet
validation, the launch checks and the local admission enter by their outcomes
(`LaunchFails`, `Refuse`); the memory governor's refusal may happen at any time.

**TransportStore** extends DispatchStore with `transport_outbox`: envelope
ingress, binding, receipts, and `record_transport_receipt_and_complete`, whose
two branches are `Settled` (replay) and `Promoted`. The history variable
`reported` is the value the method returned to its caller.

**PBSBridge** stands alone. It follows one request through the outbox row, the
spool, the wrapper's run root and the PBS queue. The four controller commands
share the skeleton `Acquire`, `Read`, an SSH call, `Record` or `GiveUp`,
`Close`; the wrapper's `submit` runs in steps between which it can die
(`Check`, `WriteIntent`, `Qsub`, `WriteSubmission`, `ConfirmIntent`). The fence
is abstracted to `epoch`, the set of calls that hold the lease row's owner and
fence, which is enough because a superseded fence never returns. Rows bound to
an attempt are left to TransportStore.

**RunSegments** is the segment, checkpoint and cleanup tables of the store, one
action per method, over a lease that is reduced to owner, fence and open or not.
**DurableSupervisor** extends it with the processes of `durable_run_loop`: memory
(`sup`), the two sidecar files of a segment (`intent`, `receipt`) and PBS. A
process may die before every step and an answer of PBS may be lost.
`ImplementsSegments` says that the loop touches the segment tables only through
the methods.

### 2.2 Machines that share no state

The other components neither share variables with the above nor with each other.
Each is a module with its own `Init` and `Next`; `MCMachines` and `MCDecisions`
put them side by side, one machine per behaviour: the variable `machine` chooses
it in the initial state, and the others keep their initial state. This is a
device for running many small state spaces in one TLC run and says nothing about
interactions.

| Module | Models | Property |
|---|---|---|
| WorkerSpool | the manifest of one job, workers that lease it, their children and artifacts; every command of `remote_worker.py`, answers that are lost; a resuming controller brings a new owner when the handoff says to claim | `SpoolEndsOnce` |
| PrepareTransport | orchestrators that list pending rows, prepare over ssh, deliver an envelope and record under their lease; the worker's `prepare_job`, the bootstrap of its files | `ReceiptFollowsPreparation` |
| ContinuityQueue | `state.json` under the file lock, commands that may die, children that live on, artifacts and where they came from | `AttemptsRunOnce` |
| TunnelSupervisor | `run()` between its status writes, the stop request, the deadline, a child that obeys or not | `NoTunnelLeftBehind` |
| ProvenanceLedger | the chain in memory and on file, a promoter that prepares and appends later, other authors, reload | `PromotionBacked` |
| PackageStore | install, activate, rollback, uninstall as the sequence of their writes, with crashes | `RollbackReady` |
| PackageCatalog | the backtracking search against every catalogue that is small enough | `ResolutionComplete` |
| ResourceGovernor | rounds of admission on one reading each, the hysteresis and its stored tier | `LanesFitTheReading` |
| ProjectIntegrator | propose, apply and push as git step and file write, people who commit | `OriginIsReviewed` |
| FakeReplay | ticks of the fake cluster, quota windows, both policies, faults | `EveryJobAccounted` |
| AdaptiveConcurrency | the policy layers and one provider's limit under readings of any order | `GrowthIsEarned` |
| ReservationBook | reserve, reconcile, release over execution targets | `PromisesFit` |
| WorkerProjection | every message of the worker contracts in any order | `ProjectionMovesForward` |
| MonitorReplan | one observation cycle, the report, the replan decision and its merge | `FailureIsNotRepeated` |
| DispatchPlanner | readiness, horizon, pool and host filters, the exact search | `PlanIsBestFit` |
| QuotaWake | watch, saved hint, worker that waits in bounded slices | `QuotaReturnsInTime` |
| QuotaEvidence | decisions from the endpoint, the console file and the text of a failure, spend bounds and attempt deltas, beside the provider's account | `EvidenceIsTrue` |
| PacketIntake | the bridge and the fake loop enqueueing packet by packet, a controller beside them | `QueuedWorkWasReviewed` |
| PlacedLaunch | contract, packet, queue, claim, launch and remote execution, with time and rewrites in between | `LaunchesAreBacked` |
| SkillEvolution | composition, redundancy groups, proposals and lineages, with indexes that are replaced | `SkillAnswersHold` |

The pure algorithms (resolution, planning, skill composition, redundancy groups)
are written as the code computes them and compared with a reference definition
that quantifies over all candidates.

The `MC*` modules give the constants values for TLC. Operators named `Mut...`
are plausible bugs of the definition below them; no specification uses them.

## 3. Modelling decisions

* **Time.** A deadline is the time left until it, which `Tick` counts down;
  below `-LockWait` it is not counted any further, because from there on every
  reading finds it expired. A method takes a reading `d` units old,
  `0 <= d <= LockWait`, because `utc_now` is called before the lock wait.
  `LockWait < TTL` is assumed: the busy timeout (30 s by default) is shorter
  than the lease. The small machines that depend on ages (QuotaWake,
  QuotaEvidence, PlacedLaunch, FakeReplay, SkillEvolution) have a clock of
  their own; in WorkerSpool and RunSegments a lease is open or has run out.
* **Bounds.** `MaxFence` (controller epochs), `MaxAttempts` (attempts of a job),
  `MaxQsub` (PBS jobs), `MaxSequence` (segments), `MaxCheckpoints`, `MaxClaims`
  (claims of a spool job), `MaxGenerations` (package locks), `MaxEvents`,
  `MaxLines` (provenance), `MaxEpochs` (orchestrator leases), `AttemptBound` and
  `MaxRefusals` (tunnel), `MaxFaults` and `Horizon` (replay), `MaxRevision` (changes of the reservation book),
  `MaxFenceToken`, `MaxSeq`, `MaxRemembered` (projection), `MaxCycles` (monitor),
  `LastMoment`, `LastHour`, `LastDay`, `MaxTime` (clocks), `MaxOutcomes` stand in
  guards of the actions that would exceed them.
* **Symmetry.** Owners, and processes that may all crash, are interchangeable;
  packets, receipt digests and submissions under fresh owner ids too. Symmetry
  is used in runs without liveness properties only.
* **Deadlock** is checked in the store and outbox runs: `Tick` is always
  possible there, so the check adds little, but a mistake in a guard would show.
  The other runs turn it off: a command that has ended stays ended, and a machine
  that has reached its bound stops.
* **Records.** The records of `models.py`, `evolution.py`, `contracts.py` and
  `policy.py` are sets of records named for the source's classes
  (`SkillDescriptors`, `SkillOutcome`, `TaskResourceEstimate`,
  `ProviderSignals`, ...), cut down to the fields the operators read; the type
  assumptions on the constants refer to them.
* **Data.** Payloads, receipts, digests and PIDs are names. The conversions that
  matter are kept: which fields of a PBS receipt survive
  `_normalize_transport_receipt`, what a status read makes of a foreign owner,
  what a packet projects to at the worker, which digest a contract is checked with.

## 4. Runs

Each finishes within a few minutes on two workers.

| Run | Instance | Shows |
|---|---|---|
| `store_attempts` | 1 job, 2 owners, 3 epochs, 2 attempts, TTL 3, readings up to 1 old | `TypeOK`, `SingleFlight`, `FenceOrder`, `NextAttemptIsFresh`, `EndsByClaimantOrExpiry` |
| `store_pool` | 2 jobs (one legacy import), 1 host slot and 1 pool slot, 2 epochs, 2 attempts each | `CapacityRespected`, `ImplementsLedger` |
| `transport_receipts` | 1 remote job, 2 packets, 2 digests, 2 epochs, 2 attempts | `PromotedHasOutcome`, `ImplementsStore` |
| `transport_replay` | the same | violation of `PromotedAgrees` |
| `ctl_children` | 2 processes that crash and stall, 2 jobs, 1 slot, 2 attempts, own breadcrumbs | `AtMostOneLiveChild`, `SlotsFollowJobs`, `CompletionIsFinal` |
| `ctl_shared_pid` | 3 processes, 1 job, 3 attempts, one breadcrumb for the job | violation of `AtMostOneLiveChild` |
| `ctl_drains` | a durable worker, another process, an enqueue, 2 jobs, one without a resource request | `QueueDrains` |
| `bridge_races` | a delivery, 2 submissions, a poll, a reconciliation (the two readers under one owner id), all faults | `AtMostOneQsub`, `OutcomeHasEvidence` |
| `bridge_settles` | 2 submissions under one `--owner-id`, the first may crash or lose its answer | `AcceptedSettles` |
| `durable_segments` | 2 supervisors, one after the other, 2 identities, 2 epochs, 2 segments | `SubmittedOnce`, `SupervisorKnowsSegment`, `ImplementsSegments` |
| `machines` | 11 machines, see below | the 11 properties of the modules in `MCMachines` (`CheckpointChain` of RunSegments among them) |
| `decisions` | 10 machines, see below | the 10 properties of the modules in `MCDecisions` |

Why these bounds are enough to be interesting. Three epochs let a controller be
superseded twice, so a claim can be two fences old. Two attempts are the least for
a stale execution beside a fresh one, and an attempt number to be reused; the
theorems of section 7 cover any number of them. A time to
live of 3 with a lock wait of 1 separates a lease that is open, one that only
the current clock finds expired, and one that every reading finds expired. One slot
and two jobs make every admission decision a contest. Two processes and two
attempts are what a second live child needs, and the second job is what sweeps
the first one's reservation. In the controller runs the lock wait is 0, which
keeps them small; stale readings are exercised in `store_attempts`. `MaxQsub = 2`
is one more than the property allows. Two segments and two epochs let a process
take over in the middle of a segment and roll over to the next; a receipt of
another identity needs the second identity.

The machines of `machines`: 2 owners, 2 epochs and 2 checkpoints (a superseded
controller that appends after its successor); 2 workers with 2 claims of a spool
job and one artifact; a queue of 3 jobs, one of them with an artifact that was there
before; 2 packages of 2 versions and 3 lock generations (so that an inactive
generation and a rollback to it exist); catalogues over 3 names and 2 versions;
5 provenance events and a file of up to 10 lines that is read again; 3 candidates
for 2 lanes, one twice as large; 2 orchestrators, 4 leases and 2 packets of one
job; 2 tunnel attempts and one refused status write; 4 commits, one made by hand,
and 2 integrators; a replay of 3 jobs with one fault.

The machines of `decisions`: 2 organization policies and readings with stamps up to 2,
which come late or twice; 3 reservation keys, 2 workloads and 2 targets; a
projection with 2 generations and 2 sequence numbers; one cycle over 2 workers,
3 jobs and 2 hosts; plans over 3 jobs, up to 3 pools and 2 hosts with every kind of
missing, stale and blocking evidence; a watch of 2 pools; one pool of 2 windows
with one attempt; 2 jobs with 3 plans and 3 bundles, flawed and sound; 3 hosts,
2 routes and evidence of different ages; every assignment of 2 capabilities to 5
skills and every graph of similar ones. Each is large enough for its mutant, listed
in `PROJECT.json`, to be found.

`bridge_races` and `durable_segments` are checked under an assumption, the constant
`Overlap = FALSE`: the controller lease does not change hands while a submission has not yet
written its intent file, and a durable loop is not started while another is up.
Section 6 says what happens without it.

## 5. Fairness

`SQLiteController!FairSpec` assumes weak fairness of the steps of every process
and lane (the operating system schedules them), of heartbeats that change
something, of children (each has a timeout after which `run_in_process_group`
kills it) and of time; and strong fairness of `ReserveLane`: the resource governor
and a busy host do not refuse the same candidate for ever. Without the last one
`QueueDrains` is false, and rightly so: a host that stays full never runs the job.
Nothing is assumed of crashes. `Punctual = TRUE` in the liveness run states that
a heartbeat thread beats before the lease it renews runs out; the code uses an
interval of a third of the time to live, at most 30 s.

`PBSBridge!FairSpec` assumes that remote commands and PBS jobs run to their end
once started, that a lease nobody renews expires, and strong fairness of
`Acquire`: a command that an operator or a timer repeats gets the lease now and
then. It does not assume that an answer arrives.

## 6. Divergences and observations

### 6.1 Where the code and its documentation disagree

Each has a run that ends with a counterexample; the quotations are in
`PROJECT.json`.

1. `ctl_shared_pid`: with a breadcrumb path for the job rather than for the
   attempt, the file may hold the PID of an earlier attempt while the current
   child is alive and its PID not yet written. Recovery then calls it dead and
   a second child is started beside it.
2. `transport_replay`: the replay branch of
   `record_transport_receipt_and_complete` compares the attempt's status with
   the job's, and not with the receipt's. A `completed` receipt is recorded and
   reported as promoted for an attempt that ended as `retry` or `failed`.

### 6.2 Properties that fail under other constants

The modules also define properties that no run checks because the code does not
have them, and some checked properties hold only as configured. To see a
counterexample, change the configuration as said.

| Property | Configuration | What happens |
|---|---|---|
| `NextAttemptIsFresh` | `StoreAttempts.cfg` with `Legacy = {j1}` | an imported legacy job has attempt number 1 and a counter of 0; after a requeue the next claim asks for number 1 again, the uniqueness constraint fails and the claim rolls back at every try |
| `StaleJobIsRecovered` | `ControllerDrains.cfg`, with a worker in `Crashes` beside the durable one, as the only property | recovery runs once, at the start of `run` (`sqlite_controller.py:1484`); a durable worker that starts while the crashed worker's job lease is open never looks again |
| `SlotsFollowJobs` | `ControllerChildren.cfg` with one process, `LockWait = 1`, `MaxLanes = 2` | a reservation renewed with a reading taken before the lock wait lasts less long than its job's lease, a sweep expires it, and the heartbeat renews the job alone |
| `AtMostOneQsub` | `BridgeRaces.cfg` with `Overlap = TRUE`, `OwnerOf <- SubmitOwner`, without symmetry | the wrapper checks for an intent file and writes it without an exclusive create (`pbs_worker_wrapper.py:526`), and the lease lets its own owner in again, so one `--owner-id` does not keep two calls apart |
| `AcceptedSettles` | `BridgeSettles.cfg` with `OwnerOf <- FreshOwners` | `submit_once` uses a fresh owner id by default, and the wrapper repeats a receipt only to the owner that made it; after one lost answer the row stays accepted for ever |
| `SubmittedOnce` | `DurableSegments.cfg` with `Overlap = TRUE` and one owner id | two loops under the default owner id, or a superseded one that stalled, submit twice |
| `HandoverHasWitness` | WorkerSpool with `SPECIFICATION SpoolSpec`, `Verified = TRUE` | `claim_job` (`remote_worker.py:648`) takes over a lapsed lease beside a live child, whereas `docs/remote-worker-contract.md:21-26` wants evidence |
| `RecoveryTakesReadings` | the governor's constants of `Machines.cfg` with `SPECIFICATION GovernorSpec` | two lanes asked about on one reading count as two samples (`sqlite_controller.py:1067`), `docs/research/resource-governor-v1.md:41-44` requires two consecutive ones |
| `LanesFitByP90` | the same | the controller subtracts `ram_gib` of what it promised, not the P90 it is judged by (`sqlite_controller.py:889-892`) |
| `OnlyAffectedHostsExcluded` | MonitorReplan as in `Decisions.cfg` | an agent host that cannot be reached marks the healthy workload host (`dispatch_monitor.py:1002`), against `replan_controller.py:10-11` |
| `HostPromisesFit` | ReservationBook as in `Decisions.cfg` | two targets of one host are each filled, which overcommits the host |

### 6.3 Further observations

What the models made visible in the code. None of them is a claim about intent.

*Ledger and controller.*
* `requeue_job` stores a marker in the payload, so enqueuing the identical packet
  again compares unequal and raises (`sqlite_store.py:2158`).
* A job that recovery blocked for lack of evidence may still have a live child;
  `enqueue` requeues it without asking, after which two children can be alive. The
  theorems about children assume that operators wait (`ReplanIsSafe`).
* A durable worker renews its lease while the queue is empty, so an `enqueue` by
  another process meets a lease conflict as long as the worker lives
  (`sqlite_controller.py:1148`, the comment at 1794).
* `enqueue_remote` of a failed or blocked job takes the requeue branch, which has
  no envelope parameter: the job is queued without the envelope of its new packet
  (`sqlite_controller.py:1159`).
* The retry decision compares the job's attempt number over all packets with the
  attempts of the current packet (`sqlite_controller.py:1381`).
* `claim_jobs` looks at `limit * 8` rows in priority order; rows there that can
  never be claimed hide those behind them (`sqlite_store.py:3094`).

*Outbox and bridge.*
* The worker poll records the worker's own `accepted` receipt over a PBS
  submission receipt (`remote_outbox.py:227`), after which the PBS reconciliation
  no longer selects the row.
* An outbox row bound to an attempt that was abandoned cannot be bound again
  (`sqlite_store.py:2538`).
* A worker result with an unknown status makes the wrapper's `status` raise
  (`pbs_worker_wrapper.py:710`).

*Segments and the durable loop.*
* `submission_digest` includes the owner id, so a run adopted under another owner
  id cannot continue from its sidecar.
* `reconcile` iterates only over the submissions in memory.
* `write_checkpoint` reads the latest checkpoint and replaces it without a lock.

*JSON queue.* A legacy packet without attempts is failed only in memory, so the
loop does not end (`continuity_controller.py:1277`); a job a crash left `running`
is never taken up, and its dependents stay idle; `resume` marks a job that never
ran as `artifact_ready_needs_review` when its artifact exists.

*Packages.* A crash in the atomic write leaves a temporary file in `locks/`, after
which every commit raises; one in `rmtree` leaves a directory that can be neither
installed nor uninstalled; a stale `.mutation.lock` blocks until it is removed.

*Provenance.* Opening a store appends every line to the JSONL file again; an event
whose file write failed stays in memory, and later lines refer to it; the
reconciler looks at the pid of the last event only; `validated` can be lost again.

*Workers.* A handle accepted without a process id can never become `running`
under the same id; a registration key that is used again blocks; the adaptive
limit has no fence, so after a worker registers anew its readings are regressed,
which gives 0 slots until the sequences catch up; pressure raises a limit of 0 to
`min_concurrency` (`policy.py:1526-1552`).

*Monitor and replan.* A worker that becomes `failed` drops its host from the
active ones, so its own alert is not raised; an agent with an old artifact and no
progress never counts as stalled; merging puts jobs back to pending and plans even
when the decision is `pause`; exclusions accumulate and are never lifted; a failure
seen only in an earlier cycle is not in the report.

*Planner.* Write scopes of active jobs are not compared (`SKILL.md:105`: "Never
let two workers own the same write scope"); a scope `.` conflicts with nothing but
`.`; GPU memory of a device can be promised twice; `allow_reserve` jobs overspend
without bound; high-priority jobs that cannot be placed fill the horizon; the
reset that is slept for may belong to a pool the blocked job cannot use; the agent
host's CPU and RAM are not charged.

*Quota.* `pilot_decision` raises a `TypeError` when a fresh record has an amount but
no percentage; a window at 0 % keeps its pool blocked after its reset until a new
record; all missing hints share one digest, so only the first yields a
`replan_due` event; a delta whose first snapshot lacks the reset can span one and
is still called known (the property is restricted to `dated` rows); a torn last
line of the evidence ledger makes every later load raise.

*Preparation.* A requeued job keeps its old row and envelope, so its row errs for
ever, and its new packet can never be prepared on the same host; a crash between
`mkdir` and the manifest makes the job directory unusable; rows that always err at
the head starve the rest; the bootstrap replaces files one by one.

*Tunnel.* A refused write of the status `running` orphans the live child and a
second one is started (`NoTunnelLeftBehind` counts these); a supervisor that is
killed leaves its child; one more child starts after a deadline that passed during
the backoff.

*Integrator.* A crash between the merge and the record leaves the proposal
`proposed` for ever; pushing one proposal publishes commits of another that was
applied; a commit made between check and push is pushed too.

*Intake.* The fake loop runs whatever is queued in the database, although it
reports no provider invocations (`dispatch_closed_loop.py:14-18`); write scopes are
compared by equality and within one bundle only; with fewer lanes than packets the
stage says executed while the rest is queued; Foundry packets can never pass the
bridge, because their plan digest lacks the prefix it asks for.

*Placement.* Contracts built by `remote_cli_placement` carry no `schema_version`,
so `remote_cli_execution` refuses each of them unless another program adds it
(modelled: `versioned`, `Stamped`); `codex.luna` is approved for placement and not
for execution; two overlapping runs of one contract both find no result; a run
that timed out leaves none, so its approval can be used again; route and desktop
evidence may be stale at launch, since only resource evidence is checked again.

*Replay.* A worker stays `busy` after its job; the `now` of a tick lags the clock;
a crash fault gives a done job the failure `crash`; jobs that were interrupted
appear in no count of the summary.

*Skills.* Outcomes older than their time to live are skipped before the checks on
reused evidence; the same outcomes can be proposed on again in a later call.

## 7. Proofs

| Module | Proves about |
|---|---|
| `DispatchStoreProofs` | the ledger of jobs, attempts and reservations, that it implements JobLedger, and the transport outbox on top of it |
| `SQLiteControllerProofs` | the controller's processes on top of the ledger |
| `PBSBridgeProofs` | the bridge to PBS |
| `DurableSupervisorProofs` | run segments, and the durable loop on top of them |
| `MachineProofs` | tunnel, spool, queue, preparation, intake, projection, launch, replan, integrator, package store |
| `DecisionProofs` | governor, provenance ledger, quota, book, adaptive limit, fake replay, resolver |
| `SelectionProofs` | the composition of skills and their redundancy groups, the planner's search |
| `DataProofs` | recursion, sums, least and greatest members: lemmas of the two before |

The assumptions on the constants are named and evaluated by TLC in every run:
`StoreAssumption`, `TransportAssumption`, `ControllerAssumption`,
`BridgeAssumption`, `SegmentAssumption`, `SupervisorAssumption`,
`SpoolAssumption`, `QueueAssumption`, `PrepareAssumption`, `IntakeAssumption`,
`ProjectionAssumption`, `MonitorAssumption`, `CommitAssumption`,
`PackageAssumption`, `CatalogAssumption`, `GovernorAssumption`, `LedgerAssumption`,
`EvidenceAssumption`, `BookAssumption`, `WakeAssumption`, `AdaptAssumption`,
`SimAssumption`, `SkillAssumption`, `PlannerAssumption`. They say that null values are no owners, packets, digests or
messages, that maps have the right domain, that jobs and commits are finitely many,
that ranks are distinct, that the lock wait is shorter than the time to live, that
lists are lists, that input rows have their fields, that a commit is younger
than its parent, that amounts, lengths and counts are numbers (or marked unknown,
where the code takes a missing value), that P90 sizes are not below the plain ones,
that the factor of a back-off is a fraction below 1 and an estimate of CPU, RAM or
disk is not 0, that no writer but the promoter
writes promotions, and that a simulated host has a worker. Sets, capacities,
retry delays and bounds are otherwise arbitrary. A theorem that needs more says so
in its `ASSUME`; the column "given" repeats it.

| Theorem | Statement | Given |
|---|---|---|
| `TypeCorrect` | `Spec => []TypeOK` | |
| `OneExecutionAtATime` | `Spec => []SingleFlight` | |
| `FencesAreOrdered` | `Spec => []FenceOrder` | |
| `CapacityIsRespected` | `Spec => []CapacityRespected` | |
| `AttemptsAreNumberedInOrder` | `Spec => []NumbersAreUsedInOrder` | |
| `ClaimsFindAFreshNumber` | `Spec => []NextAttemptIsFresh` | `Legacy = {}` |
| `OnlyClaimantOrExpiryEnds` | `Spec => EndsByClaimantOrExpiry` | |
| `OutcomesStand` | no recorded outcome is rewritten | |
| `StoreImplementsLedger` | `Spec => ImplementsLedger` | |
| `TransportTypeCorrect` | `TSpec => []TTypeOK` | |
| `TransportImplementsStore` | `TSpec => ImplementsStore` | |
| `TransportKeepsSingleFlight` | `TSpec => [](SingleFlight /\ FenceOrder)` | |
| `ReportedPromotionsHold` | `TSpec => []PromotedHasOutcome` | |
| `ControllerTypeCorrect` | `CSpec => []ControllerTypes` | |
| `ControllerImplementsStore` | `CSpec => Spec` (DispatchStore's) | `Preloaded = {}` |
| `OneLiveChild` | `CSpec /\ [][ReplanIsSafe]_cvars => []AtMostOneLiveChild` | `DistinctOwners`, `DistinctPidPaths` |
| `CompletionsAreFinal` | `CSpec /\ [][ReplanIsSafe]_cvars => CompletionIsFinal` | the same |
| `NoSlotLeaks` | an active reservation belongs to a running job | |
| `SlotsAreHeldAsNeeded` | `CSpec => []SlotsFollowJobs` | `LockWait = 0` |
| `BridgeTypeCorrect` | `Spec => []TypeOK` (PBSBridge) | |
| `OnePBSJob` | `Spec => []AtMostOneQsub` | `~Overlap`, `DistinctSubmitters` |
| `RecordedOutcomesHaveEvidence` | `Spec => []OutcomeHasEvidence` | the same |
| `EvidenceIsNeverRewritten` | the worker's files are written once | the same |
| `SegmentsTypeCorrect` | `SSpec => []STypeOK` | |
| `OneSegmentAtATime` | `SSpec => []OneActiveSegment` | |
| `SegmentsOnlyMoveForward` | `SSpec => SegmentsMoveForward` | |
| `CheckpointsFormAChain` | `SSpec => []CheckpointChain` | |
| `SupervisorTypeCorrect` | `Spec => []TypeOK` (DurableSupervisor) | |
| `SupervisorsUseSegments` | `Spec => ImplementsSegments` | |
| `SegmentsAreSubmittedOnce` | `Spec => []SubmittedOnce` | `~Overlap` |
| `SupervisorsKnowTheirSegment` | `Spec => []SupervisorKnowsSegment` | `~Overlap` |
| `NoTunnelIsLeft` | `TunnelSpec => []NoTunnelLeftBehind` | |
| `SpoolJobsEndOnce` | `SpoolSpec => SpoolEndsOnce` | |
| `QueueAttemptsRunOnce` | `QueueSpec => []AttemptsRunOnce` | |
| `ReceiptsFollowPreparation` | `TransportSpec => ReceiptFollowsPreparation` | |
| `WorkIsReviewed` | `IntakeSpec => []QueuedWorkWasReviewed` | |
| `PicturesMoveForward` | `ProjectionSpec => ProjectionMovesForward` | |
| `LaunchesHaveBacking` | `PlacedSpec => []LaunchesAreBacked` | |
| `FailuresAreNotRepeated` | `MonitorSpec => FailureIsNotRepeated` | |
| `OriginStaysReviewed` | `IntegratorSpec => []OriginIsReviewed` | |
| `GenerationsCanBeRestored` | `PackageSpec => []RollbackReady` | |
| `ClaimedLanesFit` | `GovernorSpec => LanesFitTheReading` | `DegradeSamples = 1` |
| `PromotionsAreBacked` | `LedgerSpec => PromotionBacked` | |
| `NoEvidenceContradictsTheAccount` | `EvidenceSpec => []EvidenceIsTrue` | |
| `PromisesAlwaysFit` | `BookSpec => PromisesFit` | |
| `QuotaAlwaysReturns` | `QuotaSpec => QuotaReturnsInTime` | |
| `LimitsAreEarned` | `AdaptSpec => GrowthIsEarned` | |
| `JobsStayAccounted` | `ReplaySpec => []EveryJobAccounted` | |
| `ResolverIsComplete` | `CatalogSpec => []ResolutionComplete` | |
| `SkillAnswersAlwaysHold` | `SkillSpec => []SkillAnswersHold` | |
| `PlanIsAlwaysBestFit` | `PlannerSpec => []PlanIsBestFit` | |

### 7.1 Why the hypotheses are needed

* `Legacy = {}`: an imported job starts with attempt 1 and counter 0 (6.2).
* `DistinctOwners`: `controller_lease` lets the owner of a live lease in again
  under the same fence. Two processes with one owner id could then act on one
  claim, one reading the evidence before the other launches. The default id is a
  fresh uuid.
* `DistinctPidPaths`: the run `ctl_shared_pid` is the counterexample without it.
* `ReplanIsSafe`: `blocked` means that recovery found no evidence that the child
  is gone, and the requeue by `enqueue` asks for none. The hypothesis says that a
  blocked job is only requeued when nothing of it runs.
* `LockWait = 0`, for the half of `SlotsFollowJobs` that says a live claim holds its
  reservation: 6.2 has the counterexample. The other half, that no reservation
  outlives its job's run, is `NoSlotLeaks` and needs no such thing.
* `Preloaded = {}`: the controller runs may start from a queue that is not empty,
  which the ledger's `Init` is not. The other theorems about the controller do not
  assume it: they use that every step is one of the store's.
* `~Overlap` and `DistinctSubmitters`: the wrapper checks for the intent file and
  then writes it; only the controller lease keeps two submissions from doing so at
  once (6.2). For the durable loop `~Overlap` is the same: the sidecar intent is
  checked, then written.
* `DegradeSamples = 1`, the default of `degrade_samples`: with more, the tier in
  force stays normal on a reading that is not, and lanes are claimed on it.

### 7.2 The ledger

* `TypeOK` is inductive. The interesting part is arithmetic: a deadline written
  from a reading `d` old is `TTL - d`, which stays in the range of timers because
  `d <= LockWait < TTL` (`TimerFacts`), and `Null` is the least timer.
* `SingleFlight` is inductive given `TypeOK`. It is stated strongly enough for
  that: not only that one attempt runs, but that it is the one numbered
  `attempt_count` with the job's claimant, fence and deadline. With the weaker
  statement a heartbeat or a completion of a running attempt with another number
  could not be excluded. A claim is the hard case: the new attempt number differs
  from every running one because a job that is not running has none
  (`ClaimRowsFlight`); for the other actions, jobs not touched keep the property
  (`FlightFrame`) and a job whose attempts no longer run has it trivially
  (`GroundedFrame`).
* `FenceOrder` is inductive given `TypeOK`: only `Acquire` changes the lease's
  owner, and then the fence grows, so that every older fence is strictly smaller
  and the clause about the current fence is vacuous; every row written carries
  the fence that `HoldsLease` has just compared.
* `CapacityRespected` is inductive given `TypeOK`. Every transaction but a
  reservation only makes the set of occupants smaller (`CapacityShrinks`); an
  admitted reservation adds one element to a finite set whose cardinality,
  measured or not, was below the capacity (`CapacityReserved`). Finiteness of
  `Jobs` is needed for cardinalities to mean anything.
* The theorems about attempts rest on one classification: what each transaction
  may do to the row of one attempt. Numbers beyond the counter of a job that was
  not imported are unused, which is inductive because a claim uses the counter plus
  one and nothing else writes an unused row.
* `StoreImplementsLedger` needs one more invariant, `AbsentIsBlank`: a job that
  does not exist has no claim and no attempts counted, so that its creation
  leaves holder and runs at 0. Then every action is one abstract step: claims
  are `Take`, completions `Settle` (the fence compared is the newest epoch),
  recovery `Reclaim`, requeue `Reopen`, create and import `Submit`; the rest
  leaves the mapped variables unchanged.
* `TransportImplementsStore` needs `TTypeOK`: the attempt bound to a row is an
  attempt number, so a promotion is the store's `CompleteJob` with a null retry
  time, and that the bound number is not 0 is the guard. The store's theorems then hold for
  `TSpec`; `TransportKeepsSingleFlight` and the use of `OutcomesStand` in
  `ReportedPromotionsHold` are such corollaries: the witness of a reported
  promotion is an attempt whose outcome no later step rewrites.

### 7.3 The controller

Every action of SQLiteController that touches the tables is a conjunction with one
of the store's, so `ControllerImplementsStore` is a case split, and the store's
invariants are used from there on. Two classifications carry the rest:
`StatusStep` (how one job's row can move, and who moved it) and `CellStep` (how
lane, child and breadcrumb of one attempt can move).

* `LanesOK`: an attempt that was not made has no lane and no child, a lane is as
  far as its child is, a breadcrumb names its own attempt. `DistinctPidPaths` makes
  the last part true.
* `CurrentOnly` and `EvidenceHolds` are the inductive invariant of `OneLiveChild`:
  an attempt that may still have a child is the job's current one, and the job is
  running or blocked; evidence that a process has gathered for recovery stays true
  as long as the job's claim is the one it looked at, because a child that is dead
  does not come back and only the claimant's own process, which is another one by
  `DistinctOwners`, could have launched it.
* `SlotNeeded` and `SlotHeld`: an active reservation belongs to the claim of the
  running job; a running job with an open lease holds one with an equal deadline.
  Both deadlines are set and renewed with the same reading only if the reading
  cannot be old.

### 7.4 The bridge and the durable loop

* Bridge: the intent file is the mutual exclusion of the run root. `IntentGuards`
  says that at most one remote command is between the intent and its end, and
  that a PBS job has an intent; `LeaseHeld` and `~Overlap` give it for the check
  before the write. `FilesTrue` and `Evidence` say what each file, row and answer
  in flight proves, and `EvidenceStays` that none of it is taken back.
* `OneActiveSegment` is inductive given `STypeOK`, because a new epoch makes the
  fence of every row strictly older and only the owner of the newest one begins
  a segment. `CheckpointChain` needs that the lease's fence never decreases.
* Durable loop: `SidecarsTrue` relates intent, receipt and PBS of a segment,
  `SubmissionKnown` the memory of the process to them, `SegmentKnown` to the
  table. That segments are numbered without gaps makes the active one unique, so
  a process that holds the lease has the right number for the next.

### 7.5 The machines

* Tunnel: `TunnelInv` adds that a child only runs while `run()` is between its
  spawn and its wait, and that each one lost cost a refused write.
* Spool: `SpoolLease` ties the lease to the newest claim and says that a job that
  has ended has none, so that no token of an older claim passes `RequireLease`.
* Queue: `JobSound` (status, number of failures, launches and artifact of each job
  fit together) and `SessionSound` (the holder of the lock knows the attempt it
  started). The proof needs that a job left running by a dead command is not
  taken up again.
* Preparation: `PassKnows` says what a pass may conclude at each of its places,
  as long as the fence it acquired is the newest. That a projection is never the
  marker of an unprepared directory is `PrepareAssumption`.
* Intake: `RowReviewed` is the property in a form that is inductive: packets still
  to be enqueued come from a plan that translates or a bundle that was approved
  (`BridgePackets`, `Approved`), also after others have changed the ledger. That
  an approved bundle has as many jobs as packets is the lemma `AsManyAsLong`.

* Projection: `ProjectionInv` says that a stored message is one of the protocol,
  carries the fence of its generation, and that a handle's binding names the
  generation and process of its message. The rest is a case split over the four
  kinds of message.
* Launch: the invariant follows a packet from its ingress to its launch and says at
  each place which of the gates it has passed, with the times of the readings.
* Replan: `JobsHaveRows`, that every job keeps its row with all fields, is all that
  must be inductive; the property is about one step and follows from what `Decision`
  and `Merged` do to a job that could still be placed with the failing worker.
* Integrator: `IntegratorInv` says that both branches hold reviewed work only, that
  a file's status is true of the branch it speaks of, and what an integrator in the
  middle of a call may rely on (`CallSound`). Histories only grow (`Onward`), which
  keeps all of it; merge and push are the steps that add to a history.
* Packages: `PackageInv` says that committed generations are ready and that a
  mutation between its steps removes nothing they pin or puts in force a generation
  that follows the current one (`MutationSound`). A new lock file changes no
  committed generation because its number is greater than every one in use.

The last two have a state of which a recursive function is taken: `Lineage` over a
history of commits and `Committed` over the chain of generations. Their induction
needs no induction theorem: every set of naturals has a least member (`LeastNat`,
from the well-foundedness of the order), so a node of least rank that violates a
claim would have a parent that does (`ChainIsLeast`); that the recursive equation
has a solution at all is `ChainExists`, by the least closed set of each node.

### 7.6 The decisions

These modules compute over data: sums of memory and of reservations, a file that is
read again, a fold over GPUs, a search. `DataProofs` has what they need of that. `LeastOf` (among things with a natural rank some are least) takes the
place of induction: a claim over all sets, prefixes or selections is proved by
looking at a least one that violates it. `RecursionDefines` gives that a recursive
equation along a rank has a solution, `SumIs`, `SumOfRest` and `SumsAgree` that the
fold of the community modules is the sum, whatever order it takes the elements in.

* Governor: `GovernorInv` says that memory is promised to local jobs only and that a
  round in progress counts at least what is promised, also when a lane ends in the
  middle of it. A claim adds its job to both.
* Provenance ledger: `LedgerInv` says that the chain in memory is what the file gives
  when it is read again (`Replay`, a recursion over lines). An event added at the end
  leaves what the earlier lines gave; ids equal places, but for promotions, so a
  repeated delivery is recognised. The gate in `Accepts` is then read on the chain as
  it is when the event is appended and not when the promoter looked.
* Quota evidence: `SampleHolds` says what a report still proves as time passes: until
  its reset, the account lost since just what was spent since. The bounds of receipts
  enclose because the account, the receipts and `spent` move together.
* Book: `BookInv` numbers rows by revision and gives each key its one row. The sum
  over the active rows of a target with the new row is the sum before and what the
  new one asks (`SumOfRest`), and eligibility compared that with the capacity.
* Quota wake: `WakeInv` bounds every wait by the moment of the hint: one that began
  before the hint was saved ends within `Longest` of it, one that began after it knows
  it. The other half, that a saved hint is for the first end of an exhausted window,
  is about `SaveDecision` alone. The attempt to prove it corrected it: of two
  snapshots of a pool that are equally old the watch takes the later file, so that
  the hint need not fit what the other says; what is said of a snapshot is now said of
  one that is alone or the youngest of its pool.
* Adaptive limit: `AdaptInv` says that there are no more healthy windows counted than
  different readings witnessed, and that none of those is newer than the last one: a
  reading that is counted must be newer in some stream, so it is another one. What the
  cap leaves is `Packing`: as many slots as the GPUs hold together can be put on them.
* Replay: `Told` relates state, charge, validation, review and failure of one job, and
  each of the faults and ticks changes one job at a time to one that is told.
* Resolver: the search calls itself with one more selected package, so it ends
  (`SearchIsDefined`) and its answers may be compared from the full selections down
  (`SearchSolves`): a conflict stays one in every extension (`ConflictEnds`), a
  resolution has an allowed version of whatever name is taken up next
  (`OpenNameIsFilled`), and a selection with nothing open is closed (`NothingOpen`).

### 7.7 The selections

`SelectionProofs` shows that the answers of three searches are right, not only that
some invariant survives their steps: what each recursion returns is compared with a
reference definition that quantifies over all selections.

* Skills: the dynamic program of `_minimum_covering_completion_cost` is `CompletionStates`,
  a function on sets of skills. `TableIsComplete` says of it that every state it holds
  is reached by some set of skills, at that cost, and that for every set of at most
  `slots` skills it holds a state that reaches the same at no higher cost; dropping
  all but the cheapest keeps this (`CheapestStates`), and one skill more is one step of
  the table (`ExtendedStates`). So `CheapestCompletion` is the least cost of a
  completion (`CheapestIs`), `CanComplete` is exact, and each round of `compose_skills`
  that starts from a selection that can be completed keeps one that can
  (`RoundsServe`): the greedy choice never runs into a dead end, and an empty answer
  means that no `k` skills serve the request.
* Redundancy groups: the union-find of `_RedundancySets` keeps a forest whose parents
  are smaller than their children (`Adopted`), and after some pairs its trees are the
  connected parts of the graph of those pairs, with their edges counted
  (`GroupIsComponent`). Path compression is left out of the model, since it changes no
  root.
* Proposals: `SkillInv` keeps that each is earned by outcomes of plans that are known,
  which stays true while plans and outcomes are only added to (`ProposalsStayEarned`).

* Planner: `Solve` is the search of `solve`, a function on calls: the jobs left, what
  is left of every host, pool, budget and lane, the jobs chosen and the lanes left. It
  is defined because each call goes on with a job less (`SolveIs`). `Fits` says what a
  selection needs of a call by sums, and the heart of the proof is `OneMoreFits`: a
  selection that gives the first job an option fits into a call exactly when the option
  is open to it and the rest fits into the call that is left after. Each kind of amount
  has its lemma: `OneMoreWithin` for CPU, memory, disk and GPUs, `OneMoreRoomFor` for
  slots and lanes, where the agent's host and the workload's each give up one and the
  same host only one, and `OneMorePaid` for budgets, which stop at 0 when a job may draw
  on the reserve: then no later job that may not finds anything left, because no job
  is free (`AmountsTyped`). By least counterexample every call returns the best that
  fits into it (`StepIsBest`, `SolveFindsBest`), and into the first call fits what fits
  together (`FitTogetherIs`).

To be proved about, the knapsack, the pairs and the search became functions on finite
sets that take out the last skill or pair or the first job, in the place of folds over
sequences built from them; a request, an index and a report are what `SkillAssumption`
says the constructors in `models.py` and `evolution.py` accept. `PlannerAssumption` says
that a jobs file lists a job once and that amounts are numbers, none of a job negative.
The planner does not look for a job listed twice itself: `plan_packet_bridge.py:82` and
`dispatch_closed_loop.py:146` refuse such a file.

### 7.8 Only model-checked

* Liveness, `QueueDrains` and `AcceptedSettles`: fairness and `ENABLED`.

## 8. Not modelled, and the plan

Out of scope by nature: the command line, probes, scans and snapshots of machine
and provider output, the mission compiler (text and JSON without state of its own),
plugin interfaces, export, release and research tooling except the fake replay.
They read or write data and keep no state that interleavings could spoil. These
files are most of the implementation lines the map does not cover.

Abstracted inside the modelled parts: the contents of packets, gates and
artifacts (their outcome is chosen), the exact retry backoff, events and
provenance rows written along with a transaction, more than one controller
scope, redaction, scores (given numbers), validation of formats (part of which
inputs are offered).

Next:

1. That the theorems about the ledger carry over to a controller that starts with
   a queue (`Preloaded`): the store's `Init` with `CreateJob` steps before it.
2. Models of the packet validation and of task capture and estimation, as
   operators with a reference definition.
