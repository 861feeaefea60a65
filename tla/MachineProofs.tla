--------------------------- MODULE MachineProofs ---------------------------
(***************************************************************************)
(* Proofs about the machines that keep a state of their own: the reverse    *)
(* tunnel's supervisor, the worker's job spool, the JSON queue of the       *)
(* continuity controller, the preparation of jobs on remote hosts, the ways *)
(* by which packets enter the ledger and are placed and started, a worker's *)
(* projected messages, the replan loop, the server's git integrator and the *)
(* generations of the package store.                                        *)
(***************************************************************************)
EXTENDS TunnelSupervisor, WorkerSpool, ContinuityQueue, PrepareTransport, PacketIntake,
        WorkerProjection, PlacedLaunch,
        MonitorReplan, ProjectIntegrator, PackageStore,
        WellFoundedInduction, FiniteSetTheorems, SequenceTheorems, TLAPS

-----------------------------------------------------------------------------
(* TunnelSupervisor *)

TunnelTyped ==
    /\ supervisor \in [at : {"head", "spawn", "spawned", "wait", "terminating", "after", "ended"},
                       attempts : Nat]
    /\ orphans \in Nat
    /\ refused \in Nat

\* The child is accounted for: outside the steps that start it and wait for it
\* none runs, and each one lost from sight cost the file a refused write.
TunnelInv ==
    /\ TunnelTyped
    /\ orphans <= refused
    /\ tunnel = "running" => supervisor.at \in {"spawned", "wait", "terminating"}

\* NoTunnelLeftBehind for every number of attempts and of refused writes: run()
\* leaves its inner part only when its child has ended or was forgotten by a
\* refused status write.
THEOREM NoTunnelIsLeft == TunnelSpec => []NoTunnelLeftBehind
<1> USE DEF At, MoveTo
<1>1. TunnelInit => TunnelInv
  BY DEF TunnelInit, TunnelInv, TunnelTyped
<1>2. TunnelInv /\ [TunnelNext]_tunnelVars => TunnelInv'
  <2> SUFFICES ASSUME TunnelInv, [TunnelNext]_tunnelVars PROVE TunnelInv'
    OBVIOUS
  <2> USE DEF TunnelInv, TunnelTyped
  <2>1. CASE StartAttempt BY <2>1 DEF StartAttempt
  <2>2. CASE LeaveLoop BY <2>2 DEF LeaveLoop
  <2>3. CASE Spawn BY <2>3 DEF Spawn
  <2>4. CASE SpawnFails BY <2>4 DEF SpawnFails
  <2>5. CASE Adopt BY <2>5 DEF Adopt
  <2>6. CASE ReportRunning BY <2>6 DEF ReportRunning
  <2>7. CASE ReportFails BY <2>7 DEF ReportFails
  <2>8. CASE StatusRefused BY <2>8 DEF StatusRefused
  <2>9. CASE SeeExit BY <2>9 DEF SeeExit
  <2>10. CASE Terminate BY <2>10 DEF Terminate
  <2>11. CASE Reap BY <2>11 DEF Reap
  <2>12. CASE AfterAttempt BY <2>12 DEF AfterAttempt
  <2>13. CASE RequestStop BY <2>13 DEF RequestStop
  <2>14. CASE ChildExitsItself BY <2>14 DEF ChildExitsItself
  <2>15. CASE DeadlinePasses BY <2>15 DEF DeadlinePasses
  <2>16. CASE UNCHANGED tunnelVars BY <2>16 DEF tunnelVars
  <2> QED BY <2>1, <2>2, <2>3, <2>4, <2>5, <2>6, <2>7, <2>8, <2>9, <2>10, <2>11, <2>12,
             <2>13, <2>14, <2>15, <2>16 DEF TunnelNext
<1>3. TunnelInv => NoTunnelLeftBehind
  BY DEF TunnelInv, TunnelTyped, NoTunnelLeftBehind
<1> QED BY <1>1, <1>2, <1>3, PTL DEF TunnelSpec
-----------------------------------------------------------------------------
(* WorkerSpool *)

LeaseRow == [owner : SpoolWorkers \cup {"none"}, token : Nat, open : BOOLEAN]
SpoolStatuses ==
    {"absent", "prepared", "running", "completed", "failed", "recovery_review", "recoverable"}
ManifestRow ==
    [packet : Packets \cup {NoPacket}, status : SpoolStatuses, lease : LeaseRow, claims : Nat,
     identity : [fence : Nat, alive : BOOLEAN, fresh : BOOLEAN],
     baseline : [Artifacts -> Contents], observed : [Artifacts -> Contents]]

SpoolTyped ==
    /\ manifest \in ManifestRow
    /\ disk \in [Artifacts -> Contents]
    /\ worker \in [SpoolWorkers -> [pc : {"down", "look", "claim", "run"}, token : Nat]]

\* The lease is the newest claim's or nobody's, and nobody's once the job ended.
SpoolLease ==
    /\ manifest.packet = NoPacket => manifest.status = "absent" /\ ~Leased
    /\ Leased => manifest.lease.token = manifest.claims
    /\ Ended => ~Leased

SpoolInv == SpoolTyped /\ SpoolLease

\* A recovery ends the lease or does nothing.
LEMMA RecoveryKeepsLease ==
    ASSUME SpoolInv, NEW strict \in BOOLEAN
    PROVE  /\ Recovered(strict) \in ManifestRow
           /\ \/ Recovered(strict) = manifest
              \/ /\ Recovered(strict).lease = NoLease
                 /\ Recovered(strict).status \in {"recovery_review", "recoverable"}
                 /\ Recovered(strict).packet = manifest.packet
                 /\ Recovered(strict).baseline = manifest.baseline
                 /\ manifest.lease # NoLease
<1>1. NoLease \in LeaseRow
  BY DEF NoLease, LeaseRow
<1>2. RecoveredStatus(strict) \in {"recovery_review", "recoverable"}
  BY DEF RecoveredStatus
<1> DEFINE s == RecoveredStatus(strict)
<1>3. s \in {"recovery_review", "recoverable"}
  BY <1>2
<1> HIDE DEF s
<1> DEFINE r == [manifest EXCEPT !.status = s, !.lease = NoLease]
<1>4. /\ r \in ManifestRow /\ r.lease = NoLease /\ r.status = s
      /\ r.packet = manifest.packet /\ r.baseline = manifest.baseline
  BY <1>1, <1>3 DEF SpoolInv, SpoolTyped, ManifestRow, SpoolStatuses
<1>5. Recovered(strict) = IF Leased /\ ~manifest.lease.open THEN r ELSE manifest
  BY DEF Recovered, s
<1> HIDE DEF r
<1> QED BY <1>3, <1>4, <1>5 DEF SpoolInv, SpoolTyped, Leased

\* A step of the spool, as far as the manifest is concerned.
SpoolStep ==
    \/ manifest' = manifest
    \/ /\ manifest.packet = NoPacket
       /\ manifest'.lease = manifest.lease /\ manifest'.claims = manifest.claims
       /\ manifest'.status = "prepared" /\ manifest'.packet \in Packets
    \/ /\ manifest.packet # NoPacket
       /\ manifest'.packet = manifest.packet /\ manifest'.baseline = manifest.baseline
       /\ ~Ended
       /\ \/ manifest'.status = "running" /\ manifest'.lease.token = manifest'.claims
          \/ /\ manifest'.lease = NoLease
             /\ manifest'.status \in {"recovery_review", "recoverable"}
          \/ /\ manifest'.lease = NoLease
             /\ manifest'.status \in {"completed", "failed"}
             /\ \E w \in SpoolWorkers : worker[w].token = manifest.claims /\ RequireLease(w)
          \/ /\ Leased /\ manifest'.status = manifest.status
             /\ manifest'.claims = manifest.claims
             /\ manifest'.lease.token = manifest.lease.token

\* Every step of the spool is such a step, and keeps the types.
LEMMA SpoolSteps ==
    ASSUME SpoolInv, [SpoolNext]_spoolVars
    PROVE  SpoolTyped' /\ SpoolStep
<1> USE DEF SpoolInv, SpoolTyped
<1>0. NoLease \in LeaseRow /\ Gone \in [pc : {"down", "look", "claim", "run"}, token : Nat]
      /\ Unseen \in [fence : Nat, alive : BOOLEAN, fresh : BOOLEAN]
      /\ Tokens \subseteq Nat
  BY SpoolAssumption DEF NoLease, LeaseRow, Gone, Unseen, Tokens
<1>1. ASSUME NEW d \in Packets, PrepareJob(d) PROVE SpoolTyped' /\ SpoolStep
  <2> DEFINE r == [manifest EXCEPT !.packet = d, !.status = "prepared",
                                   !.baseline = disk, !.observed = disk]
  <2>1. /\ r \in ManifestRow /\ r.lease = manifest.lease /\ r.claims = manifest.claims
        /\ r.status = "prepared" /\ r.packet = d
    BY DEF ManifestRow, SpoolStatuses
  <2>2. manifest' = r BY <1>1 DEF PrepareJob
  <2> HIDE DEF r
  <2> QED BY <1>1, <2>1, <2>2 DEF PrepareJob, SpoolStep
<1>2. ASSUME NEW w \in SpoolWorkers, StartWorker(w) PROVE SpoolTyped' /\ SpoolStep
  BY <1>2 DEF StartWorker, SpoolStep
<1>3. ASSUME NEW w \in SpoolWorkers, Look(w) PROVE SpoolTyped' /\ SpoolStep
  <2>1. manifest' = manifest \/ (manifest.packet # NoPacket /\ manifest' = Recovered(FALSE))
    BY <1>3 DEF Look
  <2>2. worker' \in [SpoolWorkers -> [pc : {"down", "look", "claim", "run"}, token : Nat]]
    <3> DEFINE v == CASE manifest'.status \in {"prepared", "recoverable"} -> [Gone EXCEPT !.pc = "claim"]
                      [] manifest'.status \in {"absent", "running"} -> worker[w]
                      [] OTHER -> Gone
    <3>1. v \in [pc : {"down", "look", "claim", "run"}, token : Nat]
      BY <1>0
    <3>2. worker' = [worker EXCEPT ![w] = v]
      BY <1>3 DEF Look
    <3> HIDE DEF v
    <3> QED BY <3>1, <3>2
  <2>3. disk' = disk BY <1>3 DEF Look
  <2> QED BY <2>1, <2>2, <2>3, RecoveryKeepsLease DEF SpoolStep, SpoolLease, Ended, Leased
<1>4. ASSUME NEW w \in SpoolWorkers, ClaimJob(w) PROVE SpoolTyped' /\ SpoolStep
  <2>1. CASE manifest' = manifest
    BY <1>0, <1>4, <2>1 DEF ClaimJob, SpoolStep
  <2>2. CASE manifest' # manifest
    <3> DEFINE t == manifest.claims + 1
               l == [owner |-> w, token |-> t, open |-> TRUE]
               r == [manifest EXCEPT !.status = "running", !.claims = t, !.identity = Unseen,
                                     !.lease = l]
    <3>1. t \in Nat BY DEF ManifestRow
    <3>2. Claimable /\ manifest' = r
      BY <1>4, <2>2 DEF ClaimJob
    <3>3. disk' = disk /\ worker' = [worker EXCEPT ![w] = [pc |-> "run", token |-> t]]
      BY <1>4, <2>2 DEF ClaimJob
    <3> HIDE DEF t
    <3>4. l \in LeaseRow /\ l.token = t BY <3>1 DEF LeaseRow
    <3> HIDE DEF l
    <3>5. /\ r \in ManifestRow /\ r.status = "running" /\ r.lease.token = r.claims
          /\ r.packet = manifest.packet /\ r.baseline = manifest.baseline
      BY <1>0, <3>1, <3>4 DEF ManifestRow, SpoolStatuses
    <3> HIDE DEF r
    <3>6. worker' \in [SpoolWorkers -> [pc : {"down", "look", "claim", "run"}, token : Nat]]
      BY <3>1, <3>3
    <3> QED BY <3>2, <3>3, <3>5, <3>6 DEF Claimable, SpoolStep, Ended
  <2> QED BY <2>1, <2>2
<1>5. ASSUME NEW w \in SpoolWorkers, RecordProcessIdentity(w) PROVE SpoolTyped' /\ SpoolStep
  <2> DEFINE i == [fence |-> worker[w].token, alive |-> child[worker[w].token] = "alive",
                   fresh |-> TRUE]
             r == [manifest EXCEPT !.identity = i]
  <2>1. i \in [fence : Nat, alive : BOOLEAN, fresh : BOOLEAN] OBVIOUS
  <2>2. manifest' = r BY <1>5 DEF RecordProcessIdentity
  <2> HIDE DEF i
  <2>3. /\ r \in ManifestRow /\ r.lease = manifest.lease /\ r.claims = manifest.claims
        /\ r.status = manifest.status /\ r.packet = manifest.packet
        /\ r.baseline = manifest.baseline
    BY <2>1 DEF ManifestRow
  <2> HIDE DEF r
  <2>4. Leased BY <1>5 DEF RecordProcessIdentity, RequireLease, Leased, NoLease
  <2>5. UNCHANGED <<disk, worker>> BY <1>5 DEF RecordProcessIdentity
  <2> QED BY <2>2, <2>3, <2>4, <2>5 DEF SpoolStep, SpoolLease, Ended, Leased
<1>6. ASSUME NEW w \in SpoolWorkers, RecordArtifacts(w) PROVE SpoolTyped' /\ SpoolStep
  <2> DEFINE r == [manifest EXCEPT !.observed = disk]
  <2>1. manifest' = r BY <1>6 DEF RecordArtifacts
  <2>2. /\ r \in ManifestRow /\ r.lease = manifest.lease /\ r.claims = manifest.claims
        /\ r.status = manifest.status /\ r.packet = manifest.packet
        /\ r.baseline = manifest.baseline
    BY DEF ManifestRow
  <2> HIDE DEF r
  <2>3. Leased BY <1>6 DEF RecordArtifacts, RequireLease, Leased, NoLease
  <2>4. UNCHANGED <<disk, worker>> BY <1>6 DEF RecordArtifacts
  <2> QED BY <2>1, <2>2, <2>3, <2>4 DEF SpoolStep, SpoolLease, Ended, Leased
<1>7. ASSUME NEW w \in SpoolWorkers, NEW success \in BOOLEAN, CompleteJob(w, success)
      PROVE  SpoolTyped' /\ SpoolStep
  <2> DEFINE s == IF success /\ Fresh(manifest.baseline, disk) THEN "completed" ELSE "failed"
  <2>1. s \in {"completed", "failed"} OBVIOUS
  <2> DEFINE r == [manifest EXCEPT !.status = s, !.observed = disk, !.lease = NoLease]
  <2>2. manifest' = r BY <1>7 DEF CompleteJob
  <2> HIDE DEF s
  <2>3. /\ r \in ManifestRow /\ r.lease = NoLease /\ r.status = s
        /\ r.packet = manifest.packet /\ r.baseline = manifest.baseline
    BY <1>0, <2>1 DEF ManifestRow, SpoolStatuses
  <2> HIDE DEF r
  <2>4. RequireLease(w) /\ ~Ended BY <1>7 DEF CompleteJob
  <2>5. Leased /\ worker[w].token = manifest.claims
    BY <2>4 DEF RequireLease, Leased, NoLease, SpoolLease
  <2>6. manifest.packet # NoPacket
    BY <1>7, <2>5 DEF SpoolLease
  <2>7. SpoolTyped'
    BY <1>0, <1>7, <2>2, <2>3 DEF CompleteJob
  <2> QED BY <2>1, <2>2, <2>3, <2>4, <2>5, <2>6, <2>7 DEF SpoolStep
<1>8. ASSUME NEW w \in SpoolWorkers, FencedOff(w) \/ WorkerDies(w) PROVE SpoolTyped' /\ SpoolStep
  BY <1>0, <1>8 DEF FencedOff, WorkerDies, SpoolStep
<1>9. ASSUME NEW strict \in BOOLEAN, RecoverJob(strict) PROVE SpoolTyped' /\ SpoolStep
  BY <1>9, RecoveryKeepsLease DEF RecoverJob, SpoolStep, SpoolLease, Ended, Leased
<1>17. ASSUME NEW w \in SpoolWorkers, NEW strict \in BOOLEAN, ResumeJob(w, strict)
       PROVE SpoolTyped' /\ SpoolStep
  <2>1. /\ manifest' = Recovered(strict) /\ UNCHANGED <<disk, child>>
        /\ worker' = worker \/ worker' = [worker EXCEPT ![w].pc = "claim"]
    BY <1>17 DEF ResumeJob
  <2>2. \A v \in SpoolWorkers : worker'[v].token = worker[v].token
    BY <2>1
  <2> QED BY <2>1, <2>2, RecoveryKeepsLease DEF SpoolStep, SpoolLease, Ended, Leased
<1>10. ASSUME NEW t \in Tokens, ChildExits(t) PROVE SpoolTyped' /\ SpoolStep
  BY <1>10 DEF ChildExits, SpoolStep
<1>11. ASSUME NEW t \in Tokens, NEW a \in Artifacts, ChildWrites(t, a) PROVE SpoolTyped' /\ SpoolStep
  BY <1>11 DEF ChildWrites, SpoolStep
<1>12. ASSUME NEW w \in SpoolWorkers, StartChild(w) PROVE SpoolTyped' /\ SpoolStep
  BY <1>12 DEF StartChild, SpoolStep
<1>13. CASE SpoolLeaseRunsOut
  <2> DEFINE r == [manifest EXCEPT !.lease.open = FALSE]
  <2>1. manifest' = r BY <1>13 DEF SpoolLeaseRunsOut
  <2>2. /\ r \in ManifestRow /\ r.lease.token = manifest.lease.token
        /\ r.claims = manifest.claims
        /\ r.status = manifest.status /\ r.packet = manifest.packet
        /\ r.baseline = manifest.baseline
    BY DEF ManifestRow, LeaseRow
  <2> HIDE DEF r
  <2>3. Leased BY <1>13 DEF SpoolLeaseRunsOut, Leased, NoLease
  <2>4. UNCHANGED <<disk, worker>> BY <1>13 DEF SpoolLeaseRunsOut
  <2> QED BY <2>1, <2>2, <2>3, <2>4 DEF SpoolStep, SpoolLease, Ended, Leased
<1>14. CASE ObservationAges
  <2> DEFINE r == [manifest EXCEPT !.identity.fresh = FALSE]
  <2>1. manifest' = r BY <1>14 DEF ObservationAges
  <2>2. /\ r \in ManifestRow /\ r.lease = manifest.lease /\ r.claims = manifest.claims
        /\ r.status = manifest.status /\ r.packet = manifest.packet
        /\ r.baseline = manifest.baseline
    BY DEF ManifestRow
  <2> HIDE DEF r
  <2>3. Leased /\ UNCHANGED <<disk, worker>> BY <1>14 DEF ObservationAges
  <2> QED BY <2>1, <2>2, <2>3 DEF SpoolStep, SpoolLease, Ended, Leased
<1>15. CASE UNCHANGED spoolVars
  BY <1>15 DEF spoolVars, SpoolStep
<1>16. ASSUME NEW w \in SpoolWorkers, Heartbeat(w) PROVE SpoolTyped' /\ SpoolStep
  BY <1>16 DEF Heartbeat, spoolVars, SpoolStep
<1> QED BY <1>1, <1>2, <1>3, <1>4, <1>5, <1>6, <1>7, <1>8, <1>9, <1>10, <1>11, <1>12, <1>13,
           <1>14, <1>15, <1>16, <1>17 DEF SpoolNext, WorkerStep

\* SpoolEndsOnce for any workers, packets, artifacts and claims, whether or not
\* recoveries ask for a witness: the status and the lease of manifest.json are
\* replaced together under the spool lock (remote_worker.py, complete_job).
THEOREM SpoolJobsEndOnce == SpoolSpec => SpoolEndsOnce
<1>1. SpoolInit => SpoolInv
  <2> SUFFICES ASSUME SpoolInit PROVE SpoolInv
    OBVIOUS
  <2>1. NoLease \in LeaseRow /\ Unseen \in [fence : Nat, alive : BOOLEAN, fresh : BOOLEAN]
    BY DEF NoLease, LeaseRow, Unseen
  <2>2. [a \in Artifacts |-> "missing"] \in [Artifacts -> Contents]
    BY DEF Contents
  <2>3. Blank \in ManifestRow /\ Blank.lease = NoLease /\ Blank.status = "absent"
    BY <2>1, <2>2 DEF Blank, ManifestRow, SpoolStatuses
  <2>4. SpoolTyped
    BY <2>3 DEF SpoolInit, SpoolTyped, Gone, Contents
  <2> QED BY <2>3, <2>4 DEF SpoolInit, SpoolInv, SpoolLease, Leased, Ended
<1>2. SpoolInv /\ [SpoolNext]_spoolVars => SpoolInv'
  <2> SUFFICES ASSUME SpoolInv, [SpoolNext]_spoolVars PROVE SpoolLease'
    BY SpoolSteps DEF SpoolInv
  <2>1. SpoolStep BY SpoolSteps
  <2> QED BY <2>1, SpoolAssumption DEF SpoolInv, SpoolLease, SpoolStep, Leased, Ended
<1>3. SpoolInv /\ [SpoolNext]_spoolVars =>
        [/\ Ended => manifest' = manifest
         /\ manifest.packet # NoPacket =>
               manifest'.baseline = manifest.baseline /\ manifest'.packet = manifest.packet
         /\ ~Ended /\ Ended' => \E w \in SpoolWorkers :
               worker[w].token = manifest.claims /\ RequireLease(w)]_spoolVars
  <2> SUFFICES ASSUME SpoolInv, [SpoolNext]_spoolVars
               PROVE  /\ Ended => manifest' = manifest
                      /\ manifest.packet # NoPacket =>
                            /\ manifest'.baseline = manifest.baseline
                            /\ manifest'.packet = manifest.packet
                      /\ ~Ended /\ Ended' => \E w \in SpoolWorkers :
                            worker[w].token = manifest.claims /\ RequireLease(w)
    OBVIOUS
  <2>1. SpoolStep BY SpoolSteps
  <2> QED BY <2>1 DEF SpoolInv, SpoolLease, SpoolStep, Leased, Ended
<1> QED BY <1>1, <1>2, <1>3, PTL DEF SpoolSpec, SpoolEndsOnce

-----------------------------------------------------------------------------
(* ContinuityQueue *)

JobStatuses ==
    {"absent", "queued", "running", "completed", "failed", "artifact_ready_needs_review"}
QueueFile ==
    [status : {"absent", "prepared", "queued", "attention", "completed"},
     order : Seq(Packs), job : [Packs -> [status : JobStatuses, failed : Nat]]]
SessionRow ==
    [pc : {"none", "loop", "build", "wait", "feedback", "save", "next"},
     job : Packs \cup {"none"}, leg : Nat, before : Int, error : Errors \cup {"none"}]
LegsOf(j) == 1..Len(Legs[j])

QueueTyped ==
    /\ qfile \in QueueFile
    /\ session \in SessionRow
    /\ produced \in [Packs -> Int]
    /\ running \subseteq Packs \X Nat
    /\ launches = [j \in Packs |-> launches[j]]
    /\ \A j \in Packs : launches[j] \in [LegsOf(j) -> Nat]

NoChildOf(j) == \A i \in Nat : <<j, i>> \notin running
NeedsMet(j) == \A d \in Needs[j] : Status(d) = "completed"
Failures(j) == qfile.job[j].failed

\* What is on file and on disk of a job, whether or not a command works on it.
NeverRun(j) ==
    /\ Failures(j) = 0
    /\ \A i \in LegsOf(j) : launches[j][i] = 0
    /\ NoChildOf(j)
LaunchesInOrder(j) ==
    \A i \in LegsOf(j) :
        /\ launches[j][i] \in {0, 1}
        /\ launches[j][i] = 1 =>
              /\ NeedsMet(j)
              /\ \A k \in 1..(i - 1) : <<j, k>> \notin running
              /\ Failures(j) >= i - 1
DoneByAttempt(j) ==
    /\ produced[j] \in LegsOf(j)
    /\ launches[j][produced[j]] = 1
    /\ produced[j] = Failures(j) + 1
    /\ NoChildOf(j)
JobSound(j) ==
    /\ LaunchesInOrder(j)
    /\ Status(j) \in {"absent", "queued"} => NeverRun(j)
    /\ Status(j) = "completed" => DoneByAttempt(j)
    /\ \A i \in Nat : <<j, i>> \in running => i \in LegsOf(j) /\ launches[j][i] = 1

\* The session works on a job that is running on file: its earlier attempts
\* have failed and their children are gone, its later ones were not launched,
\* and the artifact is the one found before the launch or the attempt's own.
Working == session.pc \in {"build", "wait", "feedback", "save", "next"}
SessionSound ==
    Working =>
        /\ session.job \in Packs /\ session.leg \in LegsOf(session.job)
        /\ Status(session.job) = "running" /\ NeedsMet(session.job)
        /\ \A k \in LegsOf(session.job) : k > session.leg => launches[session.job][k] = 0
        /\ session.pc = "build" => launches[session.job][session.leg] = 0
        /\ Failures(session.job) = IF session.pc = "next" THEN session.leg ELSE session.leg - 1
        /\ \A k \in Nat : <<session.job, k>> \in running => session.pc = "wait" /\ k = session.leg
        /\ session.pc = "wait" =>
              /\ launches[session.job][session.leg] = 1
              /\ produced[session.job] \in {session.before, session.leg}
        /\ session.pc \in {"feedback", "save"} /\ session.error = "none" =>
              /\ launches[session.job][session.leg] = 1
              /\ produced[session.job] = session.leg

QueueInv == QueueTyped /\ (\A j \in Packs : JobSound(j)) /\ SessionSound

\* Facts about the numbers of a job's attempts.
LEMMA LegFacts ==
    ASSUME NEW j \in Packs
    PROVE  /\ LegsOf(j) \subseteq Nat
           /\ \A i \in LegsOf(j) : i >= 1
           /\ Legs[j] # << >> => 1 \in LegsOf(j)
           /\ \A i \in LegsOf(j) : i < Len(Legs[j]) => i + 1 \in LegsOf(j)
<1>1. Legs[j] \in Seq({"local", "ssh"})
  BY QueueAssumption
<1>2. Len(Legs[j]) \in Nat /\ (Legs[j] # << >> => Len(Legs[j]) >= 1)
  BY <1>1
<1> QED BY <1>2 DEF LegsOf

\* What a step leaves alone of a job, and of every job that is completed.
Untouched(j) ==
    /\ qfile'.job[j] = qfile.job[j]
    /\ produced'[j] = produced[j]
    /\ launches'[j] = launches[j]
    /\ \A i \in Nat : <<j, i>> \in running' => <<j, i>> \in running
CompletedStay == \A d \in Packs : Status(d) = "completed" => qfile'.job[d].status = "completed"

\* A job that is left alone stays sound: its children may only end.
LEMMA UntouchedJob ==
    ASSUME NEW j \in Packs, JobSound(j), CompletedStay, Untouched(j)
    PROVE  JobSound(j)'
<1>1. NeedsMet(j) => NeedsMet(j)'
  BY QueueAssumption DEF NeedsMet, CompletedStay, Status
<1>2. NoChildOf(j) => NoChildOf(j)'
  BY DEF NoChildOf, Untouched
<1>3. Failures(j)' = Failures(j) /\ Status(j)' = Status(j)
  BY DEF Failures, Status, Untouched
<1>4. LaunchesInOrder(j)'
  <2> SUFFICES ASSUME NEW i \in LegsOf(j)
               PROVE  /\ launches'[j][i] \in {0, 1}
                      /\ launches'[j][i] = 1 =>
                            /\ NeedsMet(j)'
                            /\ \A k \in 1..(i - 1) : <<j, k>> \notin running'
                            /\ Failures(j)' >= i - 1
    BY DEF LaunchesInOrder, LegsOf
  <2>1. \A k \in 1..(i - 1) : k \in Nat
    BY LegFacts
  <2> QED BY <1>1, <1>3, <2>1 DEF Untouched, JobSound, LaunchesInOrder
<1>5. NeverRun(j) => NeverRun(j)'
  BY <1>2, <1>3 DEF NeverRun, Untouched, LegsOf
<1>6. DoneByAttempt(j) => DoneByAttempt(j)'
  BY <1>2, <1>3 DEF DoneByAttempt, Untouched, LegsOf
<1>7. \A i \in Nat : <<j, i>> \in running' => i \in LegsOf(j) /\ launches'[j][i] = 1
  BY DEF Untouched, JobSound
<1> QED BY <1>3, <1>4, <1>5, <1>6, <1>7 DEF JobSound, LegsOf

\* The commands that only rewrite the file while nobody works.
LEMMA FileCommandsKeep ==
    ASSUME QueueInv, InitRun \/ Resume \/ (\E j \in Packs : Enqueue(j))
    PROVE  QueueInv'
<1> USE DEF OnlyFile
<1>1. session' = session /\ session = NoSession /\ UNCHANGED <<produced, running, launches>>
  BY DEF InitRun, Resume, Enqueue
<1>2. SessionSound'
  BY <1>1 DEF SessionSound, Working, NoSession
<1>3. CASE InitRun
  <2>1. qfile' \in QueueFile /\ \A j \in Packs : qfile'.job[j] = qfile.job[j]
    BY <1>3 DEF InitRun, QueueInv, QueueTyped, QueueFile
  <2>2. QueueTyped' BY <1>1, <2>1 DEF QueueInv, QueueTyped, LegsOf
  <2>3. \A j \in Packs : JobSound(j)'
    BY <1>1, <2>1, UntouchedJob DEF QueueInv, Untouched, CompletedStay, Status
  <2> QED BY <1>2, <2>2, <2>3 DEF QueueInv
<1>4. CASE Resume
  <2>1. /\ qfile' \in QueueFile
        /\ \A j \in Packs : \/ qfile'.job[j] = qfile.job[j]
                            \/ /\ j \in Reviewable
                               /\ qfile'.job[j].failed = qfile.job[j].failed
                               /\ qfile'.job[j].status = "artifact_ready_needs_review"
    <3> DEFINE m == [j \in Packs |-> IF j \in Reviewable
                      THEN [qfile.job[j] EXCEPT !.status = "artifact_ready_needs_review"]
                      ELSE qfile.job[j]]
    <3>1. m \in [Packs -> [status : JobStatuses, failed : Nat]]
      BY DEF QueueInv, QueueTyped, QueueFile, JobStatuses
    <3>2. \A j \in Packs : \/ m[j] = qfile.job[j]
                           \/ /\ j \in Reviewable
                              /\ m[j].failed = qfile.job[j].failed
                              /\ m[j].status = "artifact_ready_needs_review"
      BY DEF QueueInv, QueueTyped, QueueFile
    <3>3. qfile' = [qfile EXCEPT !.status = "attention", !.job = m]
      BY <1>4 DEF Resume
    <3> HIDE DEF m
    <3> QED BY <3>1, <3>2, <3>3 DEF QueueInv, QueueTyped, QueueFile
  <2>2. QueueTyped' BY <1>1, <2>1 DEF QueueInv, QueueTyped, LegsOf
  <2>3. CompletedStay
    BY <2>1 DEF CompletedStay, Reviewable, Status
  <2>4. ASSUME NEW j \in Packs PROVE JobSound(j)'
    <3>1. CASE qfile'.job[j] = qfile.job[j]
      BY <1>1, <2>3, <3>1, UntouchedJob DEF QueueInv, Untouched
    <3>2. CASE /\ qfile'.job[j].failed = qfile.job[j].failed
               /\ qfile'.job[j].status = "artifact_ready_needs_review"
      <4>1. NeedsMet(j) => NeedsMet(j)'
        BY <2>3, QueueAssumption DEF NeedsMet, CompletedStay, Status
      <4> QED BY <1>1, <3>2, <4>1 DEF QueueInv, JobSound, LaunchesInOrder, LegsOf, Failures, Status
    <3> QED BY <2>1, <3>1, <3>2
  <2> QED BY <1>2, <2>2, <2>4 DEF QueueInv
<1>5. ASSUME NEW j \in Packs, Enqueue(j) PROVE QueueInv'
  <2> DEFINE r == [qfile.job[j] EXCEPT !.status = "queued"]
             m == [qfile.job EXCEPT ![j] = r]
  <2>1. /\ r \in [status : JobStatuses, failed : Nat]
        /\ r.status = "queued" /\ r.failed = qfile.job[j].failed
    BY DEF QueueInv, QueueTyped, QueueFile, JobStatuses
  <2> HIDE DEF r
  <2>2. m \in [Packs -> [status : JobStatuses, failed : Nat]]
        /\ m[j] = r /\ \A d \in Packs \ {j} : m[d] = qfile.job[d]
    BY <2>1 DEF QueueInv, QueueTyped, QueueFile
  <2>3. qfile' = [qfile EXCEPT !.status = "queued", !.order = Append(qfile.order, j), !.job = m]
    BY <1>5 DEF Enqueue, r, QueueInv, QueueTyped, QueueFile
  <2> HIDE DEF m
  <2>4. Append(qfile.order, j) \in Seq(Packs)
    BY DEF QueueInv, QueueTyped, QueueFile
  <2>5. qfile' \in QueueFile /\ qfile'.job = m
    BY <2>2, <2>3, <2>4 DEF QueueInv, QueueTyped, QueueFile
  <2>6. QueueTyped' BY <1>1, <2>5 DEF QueueInv, QueueTyped, LegsOf
  <2>7. CompletedStay
    BY <1>5, <2>2, <2>5 DEF CompletedStay, Enqueue, Status
  <2>8. \A d \in Packs \ {j} : JobSound(d)'
    BY <1>1, <2>2, <2>5, <2>7, UntouchedJob DEF QueueInv, Untouched
  <2>9. JobSound(j)'
    <3>1. NeverRun(j) BY <1>5 DEF Enqueue, QueueInv, JobSound
    <3>2. NeverRun(j)' BY <1>1, <2>1, <2>2, <2>5, <3>1 DEF NeverRun, NoChildOf, Failures, LegsOf
    <3>3. Status(j)' = "queued" BY <2>1, <2>2, <2>5 DEF Status
    <3> QED BY <3>2, <3>3 DEF JobSound, NeverRun, NoChildOf, LaunchesInOrder, LegsOf
  <2> QED BY <1>2, <2>6, <2>8, <2>9 DEF QueueInv
<1> QED BY <1>3, <1>4, <1>5

\* The run loop's own steps that leave every job as it is.
LEMMA LoopKeeps ==
    ASSUME QueueInv, StartRun \/ LeaveAfterOne \/ ControllerCrash \/ EndRound
    PROVE  QueueInv'
<1>1. UNCHANGED <<produced, running, launches>>
  BY DEF StartRun, LeaveAfterOne, ControllerCrash, EndRound
<1>2. session' \in SessionRow /\ ~Working'
  <2>1. NoSession \in SessionRow /\ [NoSession EXCEPT !.pc = "loop"] \in SessionRow
        /\ NoSession.pc = "none" /\ [NoSession EXCEPT !.pc = "loop"].pc = "loop"
    BY DEF NoSession, SessionRow
  <2> QED BY <2>1 DEF StartRun, LeaveAfterOne, ControllerCrash, EndRound, Working,
                      QueueInv, QueueTyped
<1>3. qfile' \in QueueFile /\ qfile'.job = qfile.job
  BY DEF StartRun, LeaveAfterOne, ControllerCrash, EndRound, QueueInv, QueueTyped, QueueFile
<1>4. QueueTyped'
  BY <1>1, <1>2, <1>3 DEF QueueInv, QueueTyped, LegsOf
<1>5. \A j \in Packs : JobSound(j)'
  BY <1>1, <1>3, UntouchedJob DEF QueueInv, Untouched, CompletedStay, Status
<1> QED BY <1>2, <1>4, <1>5 DEF QueueInv, SessionSound

\* A job is taken up as it was queued: nothing of it has run.
LEMMA BeginJobKeeps ==
    ASSUME QueueInv, BeginJob
    PROVE  QueueInv'
<1>1. PICK j \in Packs :
        /\ IsFirst(j)
        /\ IF Legs[j] = << >>
           THEN UNCHANGED <<qfile, session>>
           ELSE /\ qfile' = [qfile EXCEPT !.job[j].status = "running"]
                /\ session' = [session EXCEPT !.pc = "build", !.job = j, !.leg = 1]
  BY DEF BeginJob
<1>2. UNCHANGED <<produced, running, launches>> /\ session.pc = "loop"
  BY DEF BeginJob
<1>3. CASE Legs[j] = << >>
  <2>1. UNCHANGED <<qfile, session>> BY <1>1, <1>3
  <2>2. QueueTyped' BY <1>2, <2>1 DEF QueueInv, QueueTyped, LegsOf
  <2>3. \A d \in Packs : JobSound(d)'
    BY <1>2, <2>1, UntouchedJob DEF QueueInv, Untouched, CompletedStay, Status
  <2> QED BY <1>2, <2>1, <2>2, <2>3 DEF QueueInv, SessionSound, Working
<1>4. CASE Legs[j] # << >>
  <2> DEFINE r == [qfile.job[j] EXCEPT !.status = "running"]
             m == [qfile.job EXCEPT ![j] = r]
             s == [session EXCEPT !.pc = "build", !.job = j, !.leg = 1]
  <2>1. /\ r \in [status : JobStatuses, failed : Nat]
        /\ r.status = "running" /\ r.failed = qfile.job[j].failed
    BY DEF QueueInv, QueueTyped, QueueFile, JobStatuses
  <2>2. qfile' = [qfile EXCEPT !.job = m]
    BY <1>1, <1>4 DEF QueueInv, QueueTyped, QueueFile
  <2> HIDE DEF r
  <2>3. m \in [Packs -> [status : JobStatuses, failed : Nat]]
        /\ m[j] = r /\ \A d \in Packs \ {j} : m[d] = qfile.job[d]
    BY <2>1 DEF QueueInv, QueueTyped, QueueFile
  <2> HIDE DEF m
  <2>4. qfile' \in QueueFile /\ qfile'.job = m
    BY <2>2, <2>3 DEF QueueInv, QueueTyped, QueueFile
  <2>5. s \in SessionRow /\ s.pc = "build" /\ s.job = j /\ s.leg = 1
    BY DEF QueueInv, QueueTyped, SessionRow
  <2>6. session' = s
    BY <1>1, <1>4
  <2> HIDE DEF s
  <2>7. QueueTyped' BY <1>2, <2>4, <2>5, <2>6 DEF QueueInv, QueueTyped, LegsOf
  <2>8. NeverRun(j) /\ NeedsMet(j) /\ Status(j) # "completed"
    <3>1. Status(j) = "queued" /\ NeedsMet(j)
      BY <1>1 DEF IsFirst, Runnable, NeedsMet, QueueInv, QueueTyped, QueueFile, Status, JobStatuses
    <3> QED BY <3>1 DEF QueueInv, JobSound
  <2>9. CompletedStay
    BY <2>3, <2>4, <2>8 DEF CompletedStay, Status
  <2>10. \A d \in Packs \ {j} : JobSound(d)'
    BY <1>2, <2>3, <2>4, <2>9, UntouchedJob DEF QueueInv, Untouched
  <2>11. NeverRun(j)' /\ Status(j)' = "running"
    BY <1>2, <2>1, <2>3, <2>4, <2>8 DEF NeverRun, NoChildOf, Failures, Status, LegsOf
  <2>12. JobSound(j)'
    BY <2>11 DEF JobSound, NeverRun, NoChildOf, LaunchesInOrder, LegsOf
  <2>13. NeedsMet(j)'
    BY <2>8, <2>9, QueueAssumption DEF NeedsMet, CompletedStay, Status
  <2>14. SessionSound'
    BY <1>4, <2>5, <2>6, <2>11, <2>13, LegFacts
       DEF SessionSound, Working, NeverRun, NoChildOf, LegsOf
  <2> QED BY <2>7, <2>10, <2>12, <2>14 DEF QueueInv
<1> QED BY <1>3, <1>4

\* One attempt is launched, or its start fails.
LEMMA LaunchKeeps ==
    ASSUME QueueInv, Launch
    PROVE  QueueInv'
<1>0. PICK j \in Packs, i \in Nat : j = session.job /\ i = session.leg
  BY LegFacts DEF Launch, QueueInv, SessionSound, Working
<1>1. /\ session.pc = "build" /\ UNCHANGED <<qfile, produced>>
      /\ \/ /\ running' = running \cup {<<j, i>>}
            /\ launches' = [launches EXCEPT ![j][i] = @ + 1]
            /\ session' = [session EXCEPT !.pc = "wait", !.before = produced[j]]
         \/ /\ session' = [session EXCEPT !.pc = "feedback", !.error = "execution"]
            /\ UNCHANGED <<running, launches>>
  BY <1>0 DEF Launch
<1>2. /\ j \in Packs /\ i \in LegsOf(j) /\ Status(j) = "running" /\ NeedsMet(j)
      /\ \A k \in LegsOf(j) : k > i => launches[j][k] = 0
      /\ launches[j][i] = 0
      /\ Failures(j) = i - 1
      /\ \A k \in Nat : <<j, k>> \notin running
  BY <1>0, <1>1 DEF QueueInv, SessionSound, Working
<1>3. i \in Nat /\ i >= 1
  BY <1>2, LegFacts
<1>4. CompletedStay /\ \A d \in Packs : qfile'.job[d] = qfile.job[d]
  BY <1>1 DEF CompletedStay, Status
<1>5. CASE /\ session' = [session EXCEPT !.pc = "feedback", !.error = "execution"]
           /\ UNCHANGED <<running, launches>>
  <2>1. session' \in SessionRow /\ session'.pc = "feedback" /\ session'.error = "execution"
        /\ session'.job = j /\ session'.leg = i
    BY <1>0, <1>5 DEF QueueInv, QueueTyped, SessionRow, Errors
  <2>2. QueueTyped' BY <1>1, <1>5, <2>1 DEF QueueInv, QueueTyped, LegsOf
  <2>3. \A d \in Packs : JobSound(d)'
    BY <1>1, <1>4, <1>5, UntouchedJob DEF QueueInv, Untouched
  <2>4. SessionSound'
    BY <1>1, <1>2, <1>5, <2>1 DEF SessionSound, Working, LegsOf, Status, NeedsMet, Failures
  <2> QED BY <2>2, <2>3, <2>4 DEF QueueInv
<1>6. CASE /\ running' = running \cup {<<j, i>>}
           /\ launches' = [launches EXCEPT ![j][i] = @ + 1]
           /\ session' = [session EXCEPT !.pc = "wait", !.before = produced[j]]
  <2>1. /\ session' \in SessionRow /\ session'.pc = "wait" /\ session'.before = produced[j]
        /\ session'.job = j /\ session'.leg = i
    BY <1>0, <1>2, <1>6 DEF QueueInv, QueueTyped, SessionRow
  <2>2. launches = [d \in Packs |-> launches[d]] /\ launches[j] \in [LegsOf(j) -> Nat]
    BY <1>2 DEF QueueInv, QueueTyped
  <2>3. /\ launches' = [d \in Packs |-> launches'[d]]
        /\ \A d \in Packs \ {j} : launches'[d] = launches[d]
        /\ launches'[j] = [launches[j] EXCEPT ![i] = 1]
    <3> DEFINE row == [launches[j] EXCEPT ![i] = launches[j][i] + 1]
    <3>1. row = [launches[j] EXCEPT ![i] = 1] BY <1>2
    <3>2. launches' = [launches EXCEPT ![j] = row] BY <1>6
    <3> HIDE DEF row
    <3> QED BY <1>2, <2>2, <3>1, <3>2
  <2>4. /\ launches'[j] \in [LegsOf(j) -> Nat] /\ launches'[j][i] = 1
        /\ \A k \in LegsOf(j) \ {i} : launches'[j][k] = launches[j][k]
    BY <1>2, <2>2, <2>3
  <2>5. QueueTyped'
    BY <1>1, <1>2, <1>3, <1>6, <2>1, <2>3, <2>4 DEF QueueInv, QueueTyped, LegsOf
  <2>6. ASSUME NEW d \in Packs \ {j} PROVE JobSound(d)'
    <3>1. Untouched(d) BY <1>1, <1>6, <2>3 DEF Untouched
    <3> QED BY <1>4, <3>1, UntouchedJob DEF QueueInv
  <2>7. NeedsMet(j)' /\ Failures(j)' = Failures(j) /\ Status(j)' = "running"
    BY <1>1, <1>2 DEF NeedsMet, Failures, Status
  <2>8. LaunchesInOrder(j)'
    <3> SUFFICES ASSUME NEW k \in LegsOf(j)
                 PROVE  /\ launches'[j][k] \in {0, 1}
                        /\ launches'[j][k] = 1 =>
                              /\ NeedsMet(j)'
                              /\ \A n \in 1..(k - 1) : <<j, n>> \notin running'
                              /\ Failures(j)' >= k - 1
      BY DEF LaunchesInOrder, LegsOf
    <3>1. launches'[j][k] \in {0, 1} /\ (launches'[j][k] = 1 => k <= i)
      <4>1. launches[j][k] \in {0, 1} BY <1>2 DEF QueueInv, JobSound, LaunchesInOrder
      <4>2. k \in Nat BY <1>2, LegFacts
      <4> QED BY <1>2, <1>3, <2>4, <4>1, <4>2
    <3>2. \A n \in 1..(k - 1) : k <= i => <<j, n>> \notin running'
      <4>1. k \in Nat BY <1>2, LegFacts
      <4> QED BY <1>2, <1>3, <1>6, <4>1
    <3>3. k \in Nat BY <1>2, LegFacts
    <3> QED BY <1>2, <1>3, <2>7, <3>1, <3>2, <3>3
  <2>9. JobSound(j)'
    BY <1>2, <1>3, <1>6, <2>4, <2>7, <2>8 DEF JobSound, LegsOf
  <2>10. SessionSound'
    <3>1. \A k \in Nat : <<j, k>> \in running' => k = i
      BY <1>2, <1>6
    <3>2. \A k \in LegsOf(j) : k > i => launches'[j][k] = 0
      BY <1>2, <1>3, <2>4
    <3> QED BY <1>1, <1>2, <2>1, <2>4, <2>7, <3>1, <3>2 DEF SessionSound, Working, LegsOf
  <2> QED BY <2>5, <2>6, <2>9, <2>10 DEF QueueInv
<1> QED BY <1>1, <1>5, <1>6

\* An attempt is judged over its artifact once its child is gone; feedback
\* only passes on.
LEMMA JudgeKeeps ==
    ASSUME QueueInv, JudgeAttempt \/ Feedback
    PROVE  QueueInv'
<1>0. PICK j \in Packs, i \in Nat : j = session.job /\ i = session.leg
  BY LegFacts DEF JudgeAttempt, Feedback, QueueInv, SessionSound, Working
<1>1. /\ i \in LegsOf(j) /\ i >= 1 /\ Status(j) = "running" /\ NeedsMet(j)
      /\ \A k \in LegsOf(j) : k > i => launches[j][k] = 0
      /\ session.pc \in {"wait", "feedback"}
      /\ Failures(j) = i - 1
      /\ \A k \in Nat : <<j, k>> \in running => session.pc = "wait" /\ k = i
      /\ session.pc = "wait" => launches[j][i] = 1 /\ produced[j] \in {session.before, i}
      /\ session.pc = "feedback" /\ session.error = "none" =>
            launches[j][i] = 1 /\ produced[j] = i
  BY <1>0, LegFacts DEF JudgeAttempt, Feedback, QueueInv, SessionSound, Working
<1>2. UNCHANGED <<qfile, produced, launches>>
  BY DEF JudgeAttempt, Feedback
<1>3. /\ session' \in SessionRow /\ session'.job = j /\ session'.leg = i
      /\ \/ session.pc = "wait" /\ session'.pc = "feedback"
            /\ (session'.error = "none" => IsFresh(session.before, produced[j]))
         \/ session.pc = "feedback" /\ session'.pc = "save" /\ session'.error = session.error
  <2>1. CASE JudgeAttempt
    <3>1. PICK e \in Errors \cup {ok \in {"none"} : IsFresh(session.before, produced[j])} :
             session' = [session EXCEPT !.pc = "feedback", !.error = e]
      BY <1>0, <2>1 DEF JudgeAttempt
    <3>2. e \in Errors \cup {"none"} /\ (e = "none" => IsFresh(session.before, produced[j]))
      BY DEF Errors
    <3> QED BY <1>0, <2>1, <3>1, <3>2 DEF JudgeAttempt, QueueInv, QueueTyped, SessionRow
  <2>2. CASE Feedback
    BY <1>0, <2>2 DEF Feedback, QueueInv, QueueTyped, SessionRow
  <2> QED BY <2>1, <2>2
<1>4. /\ running' \subseteq running
      /\ \A k \in Nat : <<j, k>> \notin running'
  <2>1. CASE JudgeAttempt
    BY <1>0, <1>1, <2>1 DEF JudgeAttempt
  <2>2. CASE Feedback
    BY <1>1, <2>2 DEF Feedback
  <2> QED BY <2>1, <2>2
<1>5. QueueTyped'
  BY <1>2, <1>3, <1>4 DEF QueueInv, QueueTyped, LegsOf
<1>6. \A d \in Packs : JobSound(d)'
  BY <1>2, <1>4, UntouchedJob DEF QueueInv, Untouched, CompletedStay, Status
<1>7. Status(j)' = "running" /\ NeedsMet(j)' /\ Failures(j)' = Failures(j)
  BY <1>1, <1>2 DEF Status, NeedsMet, Failures
<1>8. session'.error = "none" => launches[j][i] = 1 /\ produced[j] = i
  BY <1>1, <1>3 DEF IsFresh
<1>9. SessionSound'
  BY <1>1, <1>2, <1>3, <1>4, <1>7, <1>8 DEF SessionSound, Working, LegsOf
<1> QED BY <1>5, <1>6, <1>9 DEF QueueInv

\* The file learns of an attempt's success or failure.
LEMMA SaveKeeps ==
    ASSUME QueueInv, SaveAttempt \/ NextAttempt
    PROVE  QueueInv'
<1>0. PICK j \in Packs, i \in Nat : j = session.job /\ i = session.leg
  BY LegFacts DEF SaveAttempt, NextAttempt, QueueInv, SessionSound, Working
<1>1. /\ i \in LegsOf(j) /\ i >= 1 /\ Status(j) = "running" /\ NeedsMet(j)
      /\ \A k \in LegsOf(j) : k > i => launches[j][k] = 0
      /\ Failures(j) = IF session.pc = "next" THEN i ELSE i - 1
      /\ NoChildOf(j)
      /\ session.pc = "save" /\ session.error = "none" => launches[j][i] = 1 /\ produced[j] = i
  BY <1>0, LegFacts DEF SaveAttempt, NextAttempt, QueueInv, SessionSound, Working, NoChildOf
<1>2. UNCHANGED <<produced, running, launches>>
  BY DEF SaveAttempt, NextAttempt
<1> DEFINE f == qfile.job[j].failed
<1>3. qfile.job[j] \in [status : JobStatuses, failed : Nat] /\ f \in Nat
      /\ qfile.job[j].status = "running"
  BY <1>1 DEF QueueInv, QueueTyped, QueueFile, Status
<1> DEFINE Saves(status, failed) ==
              /\ qfile' \in QueueFile
              /\ qfile'.job[j].status = status /\ qfile'.job[j].failed = failed
              /\ \A d \in Packs \ {j} : qfile'.job[d] = qfile.job[d]
<1>4. \/ /\ session.pc = "save" /\ session.error = "none"
         /\ Saves("completed", f) /\ session'.pc = "loop"
      \/ /\ session.pc = "save" /\ session.error # "none"
         /\ Saves("running", f + 1) /\ session'.pc = "next"
         /\ session'.job = j /\ session'.leg = i
      \/ /\ session.pc = "next" /\ i < Len(Legs[j])
         /\ Saves("running", f) /\ session'.pc = "build"
         /\ session'.job = j /\ session'.leg = i + 1
      \/ /\ session.pc = "next"
         /\ Saves("failed", f) /\ session'.pc = "loop"
  <2>0. \A r \in [status : JobStatuses, failed : Nat] :
          qfile' = [qfile EXCEPT !.job[j] = r] =>
             Saves(r.status, r.failed)
    <3> SUFFICES ASSUME NEW r \in [status : JobStatuses, failed : Nat],
                        qfile' = [qfile EXCEPT !.job[j] = r]
                 PROVE  Saves(r.status, r.failed)
      OBVIOUS
    <3> DEFINE m == [qfile.job EXCEPT ![j] = r]
    <3>1. m \in [Packs -> [status : JobStatuses, failed : Nat]] /\ m[j] = r
          /\ \A d \in Packs \ {j} : m[d] = qfile.job[d]
      BY DEF QueueInv, QueueTyped, QueueFile
    <3>2. qfile' = [qfile EXCEPT !.job = m]
      BY DEF QueueInv, QueueTyped, QueueFile
    <3> HIDE DEF m
    <3> QED BY <3>1, <3>2 DEF QueueInv, QueueTyped, QueueFile
  <2>a. \A s : [qfile EXCEPT !.job[j].status = s] =
               [qfile EXCEPT !.job[j] = [qfile.job[j] EXCEPT !.status = s]]
    BY DEF QueueInv, QueueTyped, QueueFile
  <2>b. \A n : [qfile EXCEPT !.job[j].failed = n] =
               [qfile EXCEPT !.job[j] = [qfile.job[j] EXCEPT !.failed = n]]
    BY DEF QueueInv, QueueTyped, QueueFile
  <2>1. CASE SaveAttempt /\ session.error = "none"
    <3> DEFINE r == [qfile.job[j] EXCEPT !.status = "completed"]
    <3>1. r \in [status : JobStatuses, failed : Nat] /\ r.status = "completed" /\ r.failed = f
      BY <1>3 DEF JobStatuses
    <3>2. qfile' = [qfile EXCEPT !.job[j] = r]
      BY <1>0, <2>1, <2>a DEF SaveAttempt
    <3> HIDE DEF r, f
    <3>3. Saves("completed", f) BY <2>0, <3>1, <3>2
    <3> HIDE DEF Saves
    <3> QED BY <2>1, <3>3 DEF SaveAttempt, NoSession
  <2>2. CASE SaveAttempt /\ session.error # "none"
    <3> DEFINE r == [qfile.job[j] EXCEPT !.failed = f + 1]
    <3>1. r \in [status : JobStatuses, failed : Nat] /\ r.status = "running" /\ r.failed = f + 1
      BY <1>3
    <3>2. qfile' = [qfile EXCEPT !.job[j] = r]
      BY <1>0, <2>2, <2>b DEF SaveAttempt
    <3>3. session.pc = "save" /\ session' = [session EXCEPT !.pc = "next"]
      BY <2>2 DEF SaveAttempt
    <3>4. session'.pc = "next" /\ session'.job = j /\ session'.leg = i
      BY <1>0, <3>3 DEF QueueInv, QueueTyped, SessionRow
    <3> HIDE DEF r, f
    <3>5. Saves("running", f + 1) BY <2>0, <3>1, <3>2
    <3> HIDE DEF Saves
    <3> QED BY <2>2, <3>3, <3>4, <3>5
  <2>3. CASE NextAttempt /\ MayGoOn(j, i)
    <3>1. session' = [session EXCEPT !.pc = "build", !.leg = i + 1, !.error = "none"]
          /\ qfile' = qfile /\ session.pc = "next"
      BY <1>0, <2>3 DEF NextAttempt
    <3>2. session'.pc = "build" /\ session'.job = j /\ session'.leg = i + 1
      BY <1>0, <3>1 DEF QueueInv, QueueTyped, SessionRow
    <3>3. Saves("running", f) BY <1>3, <3>1 DEF QueueInv, QueueTyped
    <3> HIDE DEF Saves
    <3> QED BY <2>3, <3>1, <3>2, <3>3 DEF MayGoOn
  <2>4. CASE NextAttempt /\ ~MayGoOn(j, i)
    <3> DEFINE r == [qfile.job[j] EXCEPT !.status = "failed"]
    <3>1. r \in [status : JobStatuses, failed : Nat] /\ r.status = "failed" /\ r.failed = f
      BY <1>3 DEF JobStatuses
    <3>2. qfile' = [qfile EXCEPT !.job[j] = r]
      BY <1>0, <2>4, <2>a DEF NextAttempt
    <3>3. session.pc = "next" /\ session'.pc = "loop"
      BY <1>0, <2>4 DEF NextAttempt, NoSession
    <3> HIDE DEF r, f
    <3>4. Saves("failed", f) BY <2>0, <3>1, <3>2
    <3> HIDE DEF Saves
    <3> QED BY <3>3, <3>4
  <2> QED BY <2>1, <2>2, <2>3, <2>4
<1>5. session' \in SessionRow
  <2>1. [NoSession EXCEPT !.pc = "loop"] \in SessionRow
    BY DEF NoSession, SessionRow
  <2>2. [session EXCEPT !.pc = "next"] \in SessionRow
    BY DEF QueueInv, QueueTyped, SessionRow
  <2>3. [session EXCEPT !.pc = "build", !.leg = i + 1, !.error = "none"] \in SessionRow
    <3> DEFINE n == i + 1
    <3>1. n \in Nat OBVIOUS
    <3> HIDE DEF n
    <3>2. [session EXCEPT !.pc = "build", !.leg = n, !.error = "none"] \in SessionRow
      BY <3>1 DEF QueueInv, QueueTyped, SessionRow
    <3> QED BY <3>2 DEF n
  <2> QED BY <1>0, <2>1, <2>2, <2>3 DEF SaveAttempt, NextAttempt
<1>6. PICK status \in {"running", "failed", "completed"}, failed \in Nat :
        Saves(status, failed) /\ failed >= f /\ (status = "completed" => f = i - 1 /\ failed = f
            /\ launches[j][i] = 1 /\ produced[j] = i)
  <2>1. f + 1 \in Nat BY <1>3
  <2>2. f = IF session.pc = "next" THEN i ELSE i - 1 BY <1>1 DEF Failures
  <2> HIDE DEF f, Saves
  <2> QED BY <1>1, <1>3, <1>4, <2>1, <2>2
<1>7. QueueTyped'
  BY <1>2, <1>5, <1>6 DEF QueueInv, QueueTyped, LegsOf
<1>8. CompletedStay
  BY <1>1, <1>6 DEF CompletedStay, Status
<1>9. \A d \in Packs \ {j} : JobSound(d)'
  BY <1>2, <1>6, <1>8, UntouchedJob DEF QueueInv, Untouched
<1>10. NeedsMet(j)' /\ NoChildOf(j)'
  BY <1>1, <1>2, <1>8, QueueAssumption DEF NeedsMet, CompletedStay, Status, NoChildOf
<1>11. LaunchesInOrder(j)'
  <2> SUFFICES ASSUME NEW k \in LegsOf(j)
               PROVE  /\ launches'[j][k] \in {0, 1}
                      /\ launches'[j][k] = 1 =>
                            /\ NeedsMet(j)'
                            /\ \A n \in 1..(k - 1) : <<j, n>> \notin running'
                            /\ Failures(j)' >= k - 1
    BY DEF LaunchesInOrder, LegsOf
  <2>1. k \in Nat /\ \A n \in 1..(k - 1) : n \in Nat
    BY LegFacts
  <2>2. Failures(j)' \in Nat /\ Failures(j) \in Nat /\ Failures(j)' >= Failures(j)
    BY <1>3, <1>6 DEF Failures
  <2>3. launches[j][k] \in {0, 1} /\ (launches[j][k] = 1 => Failures(j) >= k - 1)
    BY DEF QueueInv, JobSound, LaunchesInOrder
  <2> QED BY <1>2, <1>10, <2>1, <2>2, <2>3 DEF NoChildOf
<1>12. Status(j)' = "completed" => DoneByAttempt(j)'
  BY <1>1, <1>2, <1>6, <1>10 DEF DoneByAttempt, Status, Failures, LegsOf
<1>13. JobSound(j)'
  BY <1>6, <1>10, <1>11, <1>12 DEF JobSound, Status, NoChildOf
<1>14. SessionSound'
  <2>1. CASE session'.pc = "loop"
    BY <2>1 DEF SessionSound, Working
  <2>2. CASE /\ session.pc = "save" /\ session.error # "none"
             /\ Saves("running", f + 1) /\ session'.pc = "next"
             /\ session'.job = j /\ session'.leg = i
    BY <1>1, <1>2, <1>10, <2>2 DEF SessionSound, Working, LegsOf, Status, Failures, NoChildOf
  <2>3. CASE /\ session.pc = "next" /\ i < Len(Legs[j])
             /\ Saves("running", f) /\ session'.pc = "build"
             /\ session'.job = j /\ session'.leg = i + 1
    <3>1. i + 1 \in LegsOf(j) /\ \A k \in LegsOf(j) : k \in Nat
      BY <1>1, <2>3, LegFacts
    <3>2. launches[j][i + 1] = 0 /\ \A k \in LegsOf(j) : k > i + 1 => launches[j][k] = 0
      <4>1. i + 1 > i /\ \A k \in Nat : k > i + 1 => k > i
        OBVIOUS
      <4> QED BY <1>1, <3>1, <4>1
    <3> QED BY <1>1, <1>2, <1>10, <2>3, <3>1, <3>2
               DEF SessionSound, Working, LegsOf, Status, Failures, NoChildOf
  <2> QED BY <1>4, <2>1, <2>2, <2>3
<1> QED BY <1>7, <1>9, <1>13, <1>14 DEF QueueInv

\* A child writes its artifact or exits, with or without a session beside it.
LEMMA ChildrenKeep ==
    ASSUME QueueInv, NEW j \in Packs, NEW i \in LegsOf(j),
           ChildWritesArtifact(j, i) \/ OrphanExits(j, i)
    PROVE  QueueInv'
<1>1. UNCHANGED <<qfile, session, launches>> /\ <<j, i>> \in running /\ i \in Nat /\ i >= 1
  BY LegFacts DEF ChildWritesArtifact, OrphanExits
<1>2. CompletedStay
  BY <1>1 DEF CompletedStay, Status
<1>3. CASE ChildWritesArtifact(j, i)
  <2>1. produced' = [produced EXCEPT ![j] = i] /\ running' = running
    BY <1>3 DEF ChildWritesArtifact
  <2>2. QueueTyped' BY <1>1, <2>1 DEF QueueInv, QueueTyped, LegsOf
  <2>3. \A d \in Packs \ {j} : JobSound(d)'
    BY <1>1, <1>2, <2>1, UntouchedJob DEF QueueInv, QueueTyped, Untouched
  <2>4. ~NoChildOf(j) BY <1>1 DEF NoChildOf
  <2>5. Status(j) # "completed" BY <2>4 DEF QueueInv, JobSound, DoneByAttempt
  <2>6. JobSound(j)'
    BY <1>1, <2>1, <2>5
       DEF QueueInv, JobSound, LaunchesInOrder, NeverRun, NoChildOf, NeedsMet, Failures, Status, LegsOf
  <2>7. SessionSound'
    <3> SUFFICES ASSUME Working PROVE SessionSound'
      BY <1>1 DEF SessionSound, Working
    <3>1. CASE session.job = j
      <4>1. session.pc = "wait" /\ i = session.leg
        BY <1>1, <3>1 DEF QueueInv, SessionSound
      <4>2. produced'[session.job] = session.leg
        BY <2>1, <3>1, <4>1 DEF QueueInv, QueueTyped
      <4> QED BY <1>1, <2>1, <4>1, <4>2
                 DEF QueueInv, SessionSound, Working, Status, NeedsMet, Failures, LegsOf
    <3>2. CASE session.job # j
      <4>1. session.job \in Packs /\ produced'[session.job] = produced[session.job]
        BY <2>1, <3>2 DEF QueueInv, QueueTyped, SessionSound
      <4> QED BY <1>1, <2>1, <4>1
                 DEF QueueInv, SessionSound, Working, Status, NeedsMet, Failures, LegsOf
    <3> QED BY <3>1, <3>2
  <2> QED BY <2>2, <2>3, <2>6, <2>7 DEF QueueInv
<1>4. CASE OrphanExits(j, i)
  <2>1. produced' = produced /\ running' \subseteq running
    BY <1>4 DEF OrphanExits
  <2>2. QueueTyped' BY <1>1, <2>1 DEF QueueInv, QueueTyped, LegsOf
  <2>3. \A d \in Packs : JobSound(d)'
    BY <1>1, <1>2, <2>1, UntouchedJob DEF QueueInv, Untouched
  <2>4. SessionSound'
    BY <1>1, <2>1 DEF QueueInv, SessionSound, Working, Status, NeedsMet, Failures, LegsOf
  <2> QED BY <2>2, <2>3, <2>4 DEF QueueInv
<1> QED BY <1>3, <1>4

\* AttemptsRunOnce for every queue: whatever its dependencies and transports,
\* and wherever a controller dies, a job's attempts are launched in order and
\* once, since a job left running on file is never taken up again
\* (continuity_controller.py, _command_run_loop, run_job).
THEOREM QueueAttemptsRunOnce == QueueSpec => []AttemptsRunOnce
<1>1. QueueInit => QueueInv
  <2> SUFFICES ASSUME QueueInit PROVE QueueInv
    OBVIOUS
  <2>1. qfile \in QueueFile
    <3>1. << >> \in Seq(Packs) OBVIOUS
    <3> QED BY <3>1 DEF QueueInit, QueueFile, JobStatuses
  <2>2. session \in SessionRow /\ ~Working
    BY DEF QueueInit, NoSession, SessionRow, Working
  <2>3. QueueTyped
    <3>1. launches = [j \in Packs |-> launches[j]]
          /\ \A j \in Packs : launches[j] \in [LegsOf(j) -> Nat]
      BY DEF QueueInit, LegsOf
    <3>2. produced \in [Packs -> Int] /\ running = {}
      BY DEF QueueInit
    <3> QED BY <2>1, <2>2, <3>1, <3>2 DEF QueueTyped
  <2>4. ASSUME NEW j \in Packs PROVE JobSound(j)
    <3>1. Status(j) = "absent" /\ Failures(j) = 0
      BY DEF QueueInit, Status, Failures
    <3>2. NeverRun(j) BY <3>1 DEF QueueInit, NeverRun, NoChildOf, LegsOf
    <3> QED BY <3>1, <3>2 DEF JobSound, NeverRun, NoChildOf, LaunchesInOrder
  <2> QED BY <2>2, <2>3, <2>4 DEF QueueInv, SessionSound
<1>2. QueueInv /\ [QueueNext]_queueVars => QueueInv'
  <2> SUFFICES ASSUME QueueInv, [QueueNext]_queueVars PROVE QueueInv'
    OBVIOUS
  <2>1. ASSUME UNCHANGED <<qfile, session, produced, running, launches>> PROVE QueueInv'
    <3>1. \A j \in Packs : JobSound(j)'
      BY <2>1, UntouchedJob DEF QueueInv, Untouched, CompletedStay, Status
    <3> QED BY <2>1, <3>1
               DEF QueueInv, QueueTyped, SessionSound, Working, Status, NeedsMet, Failures, LegsOf
  <2>2. ASSUME NEW error \in Errors, RecordEvidence(error) PROVE QueueInv'
    BY <2>1, <2>2 DEF RecordEvidence
  <2>3. CASE UNCHANGED queueVars
    BY <2>1, <2>3 DEF queueVars
  <2> QED BY <2>2, <2>3, FileCommandsKeep, LoopKeeps, BeginJobKeeps, LaunchKeeps, JudgeKeeps,
             SaveKeeps, ChildrenKeep DEF QueueNext, LegsOf
<1>3. QueueInv => AttemptsRunOnce
  BY DEF QueueInv, JobSound, LaunchesInOrder, NeedsMet, Failures, DoneByAttempt, LegsOf,
         AttemptsRunOnce
<1> QED BY <1>1, <1>2, <1>3, PTL DEF QueueSpec

-----------------------------------------------------------------------------
(* PrepareTransport *)

PassRow(p) == [at |-> p.at, fence |-> p.fence, rows |-> p.rows, packet |-> p.packet,
               receipt |-> p.receipt]
TransportShape ==
    /\ pass = [o \in Orchestrators |-> pass[o]]
    /\ \A o \in Orchestrators : pass[o] = PassRow(pass[o])
    /\ prepared = [j \in RemoteJobs |-> prepared[j]]
    /\ approved = [j \in RemoteJobs |-> approved[j]]
    /\ jobStatus = [j \in RemoteJobs |-> jobStatus[j]]
    /\ rowStatus = [j \in RemoteJobs |-> rowStatus[j]]
    /\ held = [by |-> held.by, fence |-> held.fence]
    /\ \A j \in RemoteJobs : jobStatus[j] # "none" => approved[j] \in Approvals

\* What a pass knows of the row it works on: an approved packet, from the answer
\* to its prepare on also what the worker holds, and, as long as it keeps the
\* lease, that no other packet has been approved since.
PassKnows(o) ==
    pass[o].at \in {"prepare", "receive", "record"} /\ Row(o) \in RemoteJobs =>
        /\ pass[o].packet \in Approvals
        /\ pass[o].at # "prepare" => prepared[Row(o)] = Projection[pass[o].packet]
        /\ KeepsLease(o) => approved[Row(o)] = pass[o].packet

PrepareInv == TransportShape /\ \A o \in Orchestrators : PassKnows(o)

\* A pass that a step leaves alone still knows what it knew, if the step leaves
\* what workers have prepared and either the packets or the lease behind it.
PreparedStay ==
    \A j \in RemoteJobs : prepared[j] \notin {Unprepared, Broken} => prepared'[j] = prepared[j]
LEMMA OtherPassesKnow ==
    ASSUME NEW o \in Orchestrators, PassKnows(o), pass'[o] = pass[o], PreparedStay,
           approved' = approved \/ held'.by = NoHolder,
           held'.by = o => held' = held
    PROVE  PassKnows(o)'
<1> SUFFICES ASSUME pass[o].at \in {"prepare", "receive", "record"}, Row(o) \in RemoteJobs
             PROVE  /\ pass[o].packet \in Approvals
                    /\ pass[o].at # "prepare" => prepared'[Row(o)] = Projection[pass[o].packet]
                    /\ KeepsLease(o)' => approved'[Row(o)] = pass[o].packet
  BY DEF PassKnows, Row
<1>1. pass[o].packet \in Approvals
  BY DEF PassKnows
<1>2. pass[o].at # "prepare" => prepared'[Row(o)] = Projection[pass[o].packet]
  BY <1>1, PrepareAssumption DEF PassKnows, PreparedStay
<1>3. KeepsLease(o)' => approved'[Row(o)] = pass[o].packet
  BY PrepareAssumption DEF PassKnows, KeepsLease
<1> QED BY <1>1, <1>2, <1>3

\* What a step does to one pass, with the rest as it was.
PassMoves(o) ==
    /\ pass' = [q \in Orchestrators |-> pass'[q]]
    /\ \A q \in Orchestrators \ {o} : pass'[q] = pass[q]
    /\ pass'[o] = PassRow(pass'[o])

\* A step of the controller, the lease or the worker, beside the passes.
LEMMA OthersPrepare ==
    ASSUME PrepareInv,
           \/ LeaseExpires \/ Bootstrap
           \/ \E j \in RemoteJobs :
                \/ \E v \in Approvals : EnqueueRemote(j, v) \/ Requeue(j, v)
                \/ \E s \in {"completed", "failed"} : JobEnds(j, s) \/ CompleteEnvelope(j, s)
                \/ ReverseReceive(j)
    PROVE  PrepareInv' /\ \A j \in RemoteJobs : rowStatus[j] = "pending" => rowStatus'[j] = "pending"
<1> USE DEF controllerVars, workerVars
<1>1. pass' = pass /\ prepared' = prepared
  BY DEF LeaseExpires, Bootstrap, EnqueueRemote, Requeue, JobEnds, CompleteEnvelope, ReverseReceive
<1>2. /\ approved' = approved \/ held'.by = NoHolder
      /\ held'.by # NoHolder => held' = held
      /\ held' = [by |-> held'.by, fence |-> held'.fence]
  <2>1. CASE LeaseExpires
    BY <2>1 DEF LeaseExpires, PrepareInv, TransportShape
  <2>2. CASE ControllerTurn
    BY <2>2 DEF ControllerTurn, LeaseFree, PrepareInv, TransportShape
  <2>3. CASE UNCHANGED <<held, approved>>
    BY <2>3 DEF PrepareInv, TransportShape
  <2> QED BY <2>1, <2>2, <2>3 DEF Bootstrap, EnqueueRemote, Requeue, JobEnds, CompleteEnvelope, ReverseReceive
<1>3. ASSUME NEW o \in Orchestrators PROVE PassKnows(o)'
  BY <1>1, <1>2, OtherPassesKnow, PrepareAssumption DEF PrepareInv, PreparedStay
<1>4. /\ approved' = [j \in RemoteJobs |-> approved'[j]]
      /\ jobStatus' = [j \in RemoteJobs |-> jobStatus'[j]]
      /\ rowStatus' = [j \in RemoteJobs |-> rowStatus'[j]]
      /\ \A j \in RemoteJobs : jobStatus'[j] # "none" => approved'[j] \in Approvals
      /\ \A j \in RemoteJobs : rowStatus[j] = "pending" => rowStatus'[j] = "pending"
  <2>1. ASSUME NEW j \in RemoteJobs, NEW v \in Approvals, EnqueueRemote(j, v) PROVE <1>4!:
    BY <2>1 DEF EnqueueRemote, PrepareInv, TransportShape
  <2>2. ASSUME NEW j \in RemoteJobs, NEW v \in Approvals, Requeue(j, v) PROVE <1>4!:
    BY <2>2 DEF Requeue, PrepareInv, TransportShape
  <2>3. ASSUME NEW j \in RemoteJobs, NEW s \in {"completed", "failed"}, JobEnds(j, s) PROVE <1>4!:
    BY <2>3 DEF JobEnds, PrepareInv, TransportShape
  <2>4. CASE UNCHANGED <<approved, jobStatus, rowStatus>>
    BY <2>4 DEF PrepareInv, TransportShape
  <2> QED BY <2>1, <2>2, <2>3, <2>4
             DEF LeaseExpires, Bootstrap, CompleteEnvelope, ReverseReceive
<1>5. TransportShape'
  BY <1>1, <1>2, <1>4 DEF PrepareInv, TransportShape, PassRow
<1> QED BY <1>3, <1>4, <1>5 DEF PrepareInv

\* A step of one pass keeps the invariant if what it leaves of that pass is
\* known again, and the lease changes hands only to or from it.
LEMMA OnePassMoves ==
    ASSUME PrepareInv, NEW o \in Orchestrators, PassMoves(o), PassKnows(o)', PreparedStay,
           UNCHANGED <<approved, jobStatus>>,
           prepared' = [j \in RemoteJobs |-> prepared'[j]],
           rowStatus' = [j \in RemoteJobs |-> rowStatus'[j]],
           held' = [by |-> held'.by, fence |-> held'.fence],
           held' = held \/ held'.by \in {o, NoHolder}
    PROVE  PrepareInv'
<1>1. ASSUME NEW q \in Orchestrators PROVE PassKnows(q)'
  <2>1. CASE q = o
    BY <2>1
  <2>2. CASE q # o
    BY <2>2, OtherPassesKnow, PrepareAssumption DEF PrepareInv, PassMoves
  <2> QED BY <2>1, <2>2
<1>2. TransportShape'
  BY DEF PrepareInv, TransportShape, PassMoves, PassRow
<1> QED BY <1>1, <1>2 DEF PrepareInv

\* A function on the five fields is a pass.
LEMMA PassByFields ==
    ASSUME NEW r, DOMAIN r = {"at", "fence", "rows", "packet", "receipt"},
           r = [x \in DOMAIN r |-> r[x]]
    PROVE  r = PassRow(r)
BY DEF PassRow

\* On to the next row: whatever it is, nothing is known of it yet.
LEMMA NextRowMoves ==
    ASSUME PrepareInv, NEW o \in Orchestrators, NextRow(o)
    PROVE  PassMoves(o) /\ PassKnows(o)'
<1>1. PICK w : pass' = [pass EXCEPT ![o] =
            [pass[o] EXCEPT !.at = "read", !.rows = w, !.packet = 0, !.receipt = "none"]]
  BY DEF NextRow
<1> DEFINE r == [pass[o] EXCEPT !.at = "read", !.rows = w, !.packet = 0, !.receipt = "none"]
<1>2. r.at = "read" /\ r = PassRow(r)
  <2>0. pass[o] = PassRow(pass[o]) BY DEF PrepareInv, TransportShape
  <2>1. /\ r.at = "read" /\ DOMAIN r = {"at", "fence", "rows", "packet", "receipt"}
        /\ r = [x \in DOMAIN r |-> r[x]]
    BY <2>0 DEF PassRow
  <2> HIDE DEF r
  <2> QED BY <2>1, PassByFields
<1> HIDE DEF r
<1>3. pass' = [pass EXCEPT ![o] = r]
  BY <1>1 DEF r
<1>4. pass'[o] = r /\ PassMoves(o)
  BY <1>2, <1>3 DEF PrepareInv, TransportShape, PassMoves
<1> QED BY <1>2, <1>4 DEF PassKnows

\* Beginning, ending and dying.
LEMMA PassEdges ==
    ASSUME PrepareInv, NEW o \in Orchestrators, BeginPass(o) \/ End(o) \/ Die(o)
    PROVE  PrepareInv' /\ rowStatus' = rowStatus
<1> USE DEF controllerVars, workerVars
<1>1. UNCHANGED <<approved, jobStatus, rowStatus, prepared>>
  BY DEF BeginPass, End, Die
<1>2. PICK r : pass' = [pass EXCEPT ![o] = r] /\ r = PassRow(r) /\ r.at \in {"idle", "read"}
  <2>1. NoPass = PassRow(NoPass) /\ NoPass.at = "idle"
    BY DEF NoPass, PassRow
  <2>3. CASE BeginPass(o)
    <3>1. PICK rs : pass' = [pass EXCEPT ![o] =
                  [NoPass EXCEPT !.at = "read", !.fence = held.fence + 1, !.rows = rs]]
      BY <2>3 DEF BeginPass
    <3> DEFINE r == [NoPass EXCEPT !.at = "read", !.fence = held.fence + 1, !.rows = rs]
    <3>2. r = PassRow(r) /\ r.at = "read"
      <4>1. /\ r.at = "read" /\ DOMAIN r = {"at", "fence", "rows", "packet", "receipt"}
            /\ r = [x \in DOMAIN r |-> r[x]]
        BY DEF NoPass
      <4> HIDE DEF r
      <4> QED BY <4>1, PassByFields
    <3> HIDE DEF r
    <3>3. pass' = [pass EXCEPT ![o] = r] BY <3>1 DEF r
    <3> QED BY <3>2, <3>3
  <2>4. CASE End(o) \/ Die(o)
    BY <2>1, <2>4 DEF End, Die
  <2> QED BY <2>3, <2>4
<1>3. pass'[o] = r /\ PassMoves(o)
  BY <1>2 DEF PrepareInv, TransportShape, PassMoves
<1>4. PassKnows(o)'
  BY <1>2, <1>3 DEF PassKnows
<1>5. /\ held' = [by |-> held'.by, fence |-> held'.fence]
      /\ held' = held \/ held'.by \in {o, NoHolder}
  BY DEF BeginPass, End, Die, PrepareInv, TransportShape
<1>6. PreparedStay /\ prepared' = [j \in RemoteJobs |-> prepared'[j]]
      /\ rowStatus' = [j \in RemoteJobs |-> rowStatus'[j]]
  BY <1>1 DEF PreparedStay, PrepareInv, TransportShape
<1> QED BY <1>1, <1>3, <1>4, <1>5, <1>6, OnePassMoves

\* The steps on one row up to its receipt.
LEMMA RowSteps ==
    ASSUME PrepareInv, NEW o \in Orchestrators,
           ReadJob(o) \/ Prepare(o) \/ PrepareFails(o) \/ Receive(o) \/ ReceiveFails(o)
    PROVE  PrepareInv' /\ rowStatus' = rowStatus
<1> USE DEF controllerVars, workerVars
<1>1. UNCHANGED <<held, approved, jobStatus, rowStatus>>
  BY DEF ReadJob, Prepare, PrepareFails, Receive, ReceiveFails
<1>2. /\ held' = [by |-> held'.by, fence |-> held'.fence]
      /\ rowStatus' = [j \in RemoteJobs |-> rowStatus'[j]]
  BY <1>1 DEF PrepareInv, TransportShape
<1>3. pass[o] = PassRow(pass[o]) /\ pass = [q \in Orchestrators |-> pass[q]]
  BY DEF PrepareInv, TransportShape
<1>4. PreparedStay /\ prepared' = [j \in RemoteJobs |-> prepared'[j]]
  <2>1. CASE UNCHANGED prepared
    BY <2>1 DEF PreparedStay, PrepareInv, TransportShape
  <2>2. CASE /\ PrepareAccepted(Row(o), pass[o].packet)
             /\ prepared' = [prepared EXCEPT ![Row(o)] = Projection[pass[o].packet]]
    BY <2>2 DEF PrepareAccepted, PreparedStay, PrepareInv, TransportShape
  <2>3. CASE /\ prepared[Row(o)] = Unprepared
             /\ prepared' = [prepared EXCEPT ![Row(o)] = Broken]
    BY <2>3 DEF PreparedStay, PrepareInv, TransportShape
  <2> QED BY <2>1, <2>2, <2>3 DEF ReadJob, Prepare, PrepareFails, Receive, ReceiveFails
<1>5. CASE NextRow(o)
  BY <1>1, <1>2, <1>4, <1>5, NextRowMoves, OnePassMoves
<1>6. CASE ReadJob(o) /\ RowApproved(Row(o))
  <2> DEFINE r == [pass[o] EXCEPT !.at = "prepare", !.packet = approved[Row(o)]]
  <2>1. r = PassRow(r) /\ r.at = "prepare" /\ r.rows = pass[o].rows /\ r.packet = approved[Row(o)]
    <3>1. /\ r.at = "prepare" /\ r.rows = pass[o].rows /\ r.packet = approved[Row(o)]
          /\ DOMAIN r = {"at", "fence", "rows", "packet", "receipt"}
          /\ r = [x \in DOMAIN r |-> r[x]]
      BY <1>3 DEF PassRow
    <3> HIDE DEF r
    <3> QED BY <3>1, PassByFields
  <2>2. pass' = [pass EXCEPT ![o] = r]
    BY <1>6 DEF ReadJob
  <2> HIDE DEF r
  <2>3. pass'[o] = r /\ PassMoves(o)
    BY <1>3, <2>1, <2>2 DEF PassMoves
  <2>4. Row(o)' = Row(o) BY <2>1, <2>3 DEF Row
  <2>5. Row(o) \in RemoteJobs => approved[Row(o)] \in Approvals
    BY <1>6 DEF RowApproved, PrepareInv, TransportShape
  <2>6. PassKnows(o)'
    BY <1>1, <2>1, <2>3, <2>4, <2>5 DEF PassKnows
  <2> QED BY <1>1, <1>2, <1>4, <2>3, <2>6, OnePassMoves
<1>7. CASE Prepare(o)
  <2> DEFINE r == [pass[o] EXCEPT !.at = "receive"]
  <2>1. /\ r = PassRow(r) /\ r.at = "receive" /\ r.rows = pass[o].rows
        /\ r.packet = pass[o].packet /\ r.fence = pass[o].fence
    BY <1>3 DEF PassRow
  <2>2. pass' = [pass EXCEPT ![o] = r] /\ pass[o].at = "prepare"
        /\ prepared' = [prepared EXCEPT ![Row(o)] = Projection[pass[o].packet]]
    BY <1>7 DEF Prepare
  <2> HIDE DEF r
  <2>3. pass'[o] = r /\ PassMoves(o)
    BY <1>3, <2>1, <2>2 DEF PassMoves
  <2>4. Row(o)' = Row(o) /\ KeepsLease(o)' = KeepsLease(o)
    BY <1>1, <2>1, <2>3 DEF Row, KeepsLease
  <2>5. PassKnows(o)'
    BY <1>1, <2>1, <2>2, <2>3, <2>4 DEF PassKnows, PrepareInv, TransportShape
  <2> QED BY <1>1, <1>2, <1>4, <2>3, <2>5, OnePassMoves
<1>8. CASE Receive(o)
  <2>1. PICK c : pass' = [pass EXCEPT ![o].at = "record", ![o].receipt = c] /\ pass[o].at = "receive"
                 /\ prepared' = prepared
    BY <1>8 DEF Receive
  <2> DEFINE r == [pass[o] EXCEPT !.at = "record", !.receipt = c]
  <2>2. /\ r = PassRow(r) /\ r.at = "record" /\ r.rows = pass[o].rows
        /\ r.packet = pass[o].packet /\ r.fence = pass[o].fence
    <3>1. /\ r.at = "record" /\ r.rows = pass[o].rows /\ r.packet = pass[o].packet
          /\ r.fence = pass[o].fence
          /\ DOMAIN r = {"at", "fence", "rows", "packet", "receipt"}
          /\ r = [x \in DOMAIN r |-> r[x]]
      BY <1>3 DEF PassRow
    <3> HIDE DEF r
    <3> QED BY <3>1, PassByFields
  <2>3. pass' = [pass EXCEPT ![o] = r]
    BY <1>3, <2>1
  <2> HIDE DEF r
  <2>4. pass'[o] = r /\ PassMoves(o)
    BY <1>3, <2>2, <2>3 DEF PassMoves
  <2>5. Row(o)' = Row(o) /\ KeepsLease(o)' = KeepsLease(o)
    BY <1>1, <2>2, <2>4 DEF Row, KeepsLease
  <2>6. PassKnows(o)'
    BY <1>1, <2>1, <2>2, <2>4, <2>5 DEF PassKnows, PrepareInv
  <2> QED BY <1>1, <1>2, <1>4, <2>4, <2>6, OnePassMoves
<1> QED BY <1>1, <1>5, <1>6, <1>7, <1>8 DEF ReadJob, PrepareFails, ReceiveFails

\* Recording a receipt: the row leaves "pending" only under the lease of a pass
\* that knows what the worker was prepared with.
LEMMA RecordSteps ==
    ASSUME PrepareInv, NEW o \in Orchestrators, RecordReceipt(o)
    PROVE  /\ PrepareInv'
           /\ \A j \in RemoteJobs : rowStatus[j] = "pending" /\ rowStatus'[j] # "pending"
                 => prepared[j] = Projection[approved[j]]
<1> USE DEF controllerVars, workerVars
<1>1. UNCHANGED <<held, approved, jobStatus, prepared>> /\ NextRow(o) /\ pass[o].at = "record"
  BY DEF RecordReceipt
<1>2. /\ held' = [by |-> held'.by, fence |-> held'.fence]
      /\ prepared' = [j \in RemoteJobs |-> prepared'[j]] /\ PreparedStay
      /\ rowStatus' = [j \in RemoteJobs |-> rowStatus'[j]]
  BY <1>1 DEF RecordReceipt, PrepareInv, TransportShape, PreparedStay
<1>3. PrepareInv'
  BY <1>1, <1>2, NextRowMoves, OnePassMoves
<1>4. ASSUME NEW j \in RemoteJobs, rowStatus[j] = "pending", rowStatus'[j] # "pending"
      PROVE  prepared[j] = Projection[approved[j]]
  <2>1. KeepsLease(o) /\ j = Row(o)
    BY <1>4 DEF RecordReceipt, PrepareInv, TransportShape
  <2> QED BY <1>1, <2>1 DEF PrepareInv, PassKnows
<1> QED BY <1>3, <1>4

\* ReceiptFollowsPreparation for any jobs, packets, orchestrators and limits: a
\* pass that still holds the controller lease when it records has seen the
\* worker prepared with the packet that is still the approved one
\* (remote_prepare_orchestrator.py, prepare_once).
THEOREM ReceiptsFollowPreparation == TransportSpec => ReceiptFollowsPreparation
<1>1. TransportInit => PrepareInv
  BY DEF TransportInit, PrepareInv, TransportShape, PassKnows, PassRow, NoPass
<1>2. PrepareInv /\ [TransportNext]_transportVars =>
        /\ PrepareInv'
        /\ \A j \in RemoteJobs : rowStatus[j] = "pending" /\ rowStatus'[j] # "pending"
              => prepared[j] = Projection[approved[j]]
  <2> SUFFICES ASSUME PrepareInv, [TransportNext]_transportVars PROVE <1>2!2
    OBVIOUS
  <2>1. CASE UNCHANGED transportVars
    <3>1. /\ UNCHANGED <<pass, prepared, approved, jobStatus, rowStatus, held>>
      BY <2>1 DEF transportVars
    <3>2. TransportShape' BY <3>1 DEF PrepareInv, TransportShape, PassRow
    <3>3. \A o \in Orchestrators : PassKnows(o)'
      BY <3>1, OtherPassesKnow DEF PrepareInv, PreparedStay
    <3> QED BY <3>1, <3>2, <3>3 DEF PrepareInv
  <2>2. CASE TransportNext
    BY <2>2, OthersPrepare, PassEdges, RowSteps, RecordSteps DEF TransportNext
  <2> QED BY <2>1, <2>2
<1> QED BY <1>1, <1>2, PTL DEF TransportSpec, ReceiptFollowsPreparation

-----------------------------------------------------------------------------
(* PacketIntake *)

\* The packets of the reports without errors, and the ways into the ledger.
BridgePackets ==
    UNION {{Packet(plan, plan.assignments[n]) : n \in DOMAIN plan.assignments}
              : plan \in {q \in Plans : ReportOk(q)}}
ElementsOf(s) == {s[n] : n \in DOMAIN s}
Approved(batch) == IsList(batch) /\ Distinct(batch) /\ FakeOnly(batch)

FromPlan(p) ==
    \E plan \in Plans :
        /\ plan.digest = p.plan
        /\ \A n \in DOMAIN plan.assignments :
             LET a == plan.assignments[n] IN a.job \in DOMAIN plan.jobs /\ Bridges(a)
Unmixed(batch) ==
    /\ Cardinality({batch[n].job : n \in DOMAIN batch}) = Len(batch)
    /\ Cardinality({batch[n].scope : n \in DOMAIN batch}) = Len(batch)
    /\ \A n \in DOMAIN batch : batch[n].fake /\ batch[n].runs = "local"
RowReviewed(j, row) ==
    row.status # "none" =>
        /\ row.packet.job = j /\ ~row.packet.foundry
        /\ row.packet.desktop => row.packet.runs = "local"
        /\ row.via = "bridge" => FromPlan(row.packet)
        /\ row.via = "loop" => Unmixed(row.reviewed)

LedgerRow(row) ==
    row = [status |-> row.status, packet |-> row.packet, via |-> row.via,
           reviewed |-> row.reviewed]
IntakeInv ==
    /\ bridgeReport # NoIntake => bridgeReport.plan \in Plans
    /\ bridging \in Seq(BridgePackets)
    /\ wave = [at |-> wave.at, left |-> wave.left, bundle |-> wave.bundle]
    /\ wave.at = "enqueue" =>
          Approved(wave.bundle) /\ wave.left \in Seq(ElementsOf(wave.bundle))
    /\ ledger = [j \in IntakeJobs |-> ledger[j]]
    /\ \A j \in IntakeJobs : LedgerRow(ledger[j]) /\ RowReviewed(j, ledger[j])

\* Entries of a list that differ pairwise are as many as the list is long.
LEMMA AsManyAsLong ==
    ASSUME NEW s, IsList(s), NEW f, f \in [DOMAIN s -> {f[n] : n \in DOMAIN s}],
           \A m, n \in DOMAIN s : m # n => f[m] # f[n]
    PROVE  Cardinality({f[n] : n \in DOMAIN s}) = Len(s)
<1> DEFINE T == {f[n] : n \in DOMAIN s}
<1>1. Len(s) \in Nat /\ DOMAIN s = 1..Len(s)
  BY DEF IsList
<1>2. f \in [DOMAIN s -> T] /\ \A t \in T : \E n \in DOMAIN s : f[n] = t
  OBVIOUS
<1> HIDE DEF T
<1>5. f \in Surjection(DOMAIN s, T)
  BY <1>2 DEF Surjection
<1>6. \A m, n \in DOMAIN s : f[m] = f[n] => m = n
  BY Zenon
<1>8. f \in Injection(DOMAIN s, T)
  BY <1>2, <1>6 DEF Injection, IsInjective
<1>3. f \in Bijection(1..Len(s), T)
  BY <1>1, <1>5, <1>8 DEF Bijection
<1>4. ExistsBijection(1..Len(s), T)
  BY <1>3 DEF ExistsBijection
<1>7. Cardinality(T) = Len(s)
  BY <1>1, <1>4, FS_CountingElements
<1> QED BY <1>7 DEF T

\* What an approved bundle promises, and each of its packets.
LEMMA ApprovedBundles ==
    ASSUME NEW batch, Approved(batch)
    PROVE  /\ Unmixed(batch)
           /\ \A p \in ElementsOf(batch) : ~p.foundry /\ p.runs = "local"
<1> DEFINE jobs == [n \in DOMAIN batch |-> batch[n].job]
           scopes == [n \in DOMAIN batch |-> batch[n].scope]
<1>1. /\ jobs \in [DOMAIN batch -> {jobs[n] : n \in DOMAIN batch}]
      /\ scopes \in [DOMAIN batch -> {scopes[n] : n \in DOMAIN batch}]
      /\ {jobs[n] : n \in DOMAIN batch} = {batch[n].job : n \in DOMAIN batch}
      /\ {scopes[n] : n \in DOMAIN batch} = {batch[n].scope : n \in DOMAIN batch}
  OBVIOUS
<1>2. /\ \A m, n \in DOMAIN batch : m # n => jobs[m] # jobs[n]
      /\ \A m, n \in DOMAIN batch : m # n => scopes[m] # scopes[n]
  BY DEF Approved, Distinct
<1> HIDE DEF jobs, scopes
<1>3. Cardinality({jobs[n] : n \in DOMAIN batch}) = Len(batch)
  BY <1>1, <1>2, AsManyAsLong DEF Approved
<1>4. Cardinality({scopes[n] : n \in DOMAIN batch}) = Len(batch)
  BY <1>1, <1>2, AsManyAsLong DEF Approved
<1> QED BY <1>1, <1>3, <1>4 DEF Unmixed, Approved, Distinct, FakeOnly, ElementsOf

\* What the bridge may enqueue comes from a plan all of which translates.
LEMMA BridgedPackets ==
    ASSUME NEW p \in BridgePackets
    PROVE  FromPlan(p) /\ (p.desktop => p.runs = "local")
<1>0. PICK plan \in Plans :
         ReportOk(plan) /\ \E n \in DOMAIN plan.assignments : p = Packet(plan, plan.assignments[n])
  BY DEF BridgePackets
<1>1. PICK n \in DOMAIN plan.assignments : p = Packet(plan, plan.assignments[n])
  BY <1>0
<1> DEFINE a == plan.assignments[n]
<1>2. \A m \in DOMAIN plan.assignments :
         plan.assignments[m].job \in DOMAIN plan.jobs /\ Bridges(plan.assignments[m])
  BY <1>0 DEF ReportOk, Translates, Enqueueable
<1>3. Bridges(a)
  BY <1>2
<1>4. /\ p.plan = plan.digest /\ p.runs = a.runs
      /\ p.desktop <=> /\ a.pool \in DOMAIN AdapterOf
                       /\ ~RemoteCli(a) /\ (Contract(a).desktop \/ a.pool \in DesktopPools)
  BY <1>1 DEF Packet
<1>5. p.desktop => p.runs = "local"
  BY <1>3, <1>4 DEF Bridges, DesktopStaysLocal
<1> QED BY <1>2, <1>4, <1>5 DEF FromPlan

\* A packet enters the ledger under its own job, or not at all.
LEMMA EnteredRows ==
    ASSUME IntakeInv, NEW p, NEW via, NEW reviewed, ledger' = Entered(p, via, reviewed),
           ~p.foundry, p.desktop => p.runs = "local",
           via = "bridge" => FromPlan(p), via = "loop" => Unmixed(reviewed)
    PROVE  /\ ledger' = [j \in IntakeJobs |-> ledger'[j]]
           /\ \A j \in IntakeJobs : LedgerRow(ledger'[j]) /\ RowReviewed(j, ledger'[j])
<1> DEFINE r == [status |-> "queued", packet |-> p, via |-> via, reviewed |-> reviewed]
<1>1. LedgerRow(r) /\ RowReviewed(p.job, r)
  BY DEF LedgerRow, RowReviewed
<1>2. ledger' = ledger \/ ledger' = [ledger EXCEPT ![p.job] = r]
  BY DEF Entered
<1> HIDE DEF r
<1>3. \A j \in IntakeJobs : ledger'[j] = ledger[j] \/ (j = p.job /\ ledger'[j] = r)
  BY <1>2 DEF IntakeInv
<1>4. ledger' = [j \in IntakeJobs |-> ledger'[j]]
  BY <1>2 DEF IntakeInv
<1> QED BY <1>1, <1>3, <1>4 DEF IntakeInv

\* Only the status of a row that is in the ledger changes.
LEMMA RowsMove ==
    ASSUME NEW j, NEW row, LedgerRow(row), RowReviewed(j, row), row.status # "none", NEW s
    PROVE  LedgerRow([row EXCEPT !.status = s]) /\ RowReviewed(j, [row EXCEPT !.status = s])
<1>1. PICK st, p, v, w : row = [status |-> st, packet |-> p, via |-> v, reviewed |-> w]
  BY DEF LedgerRow
<1> DEFINE r == [row EXCEPT !.status = s]
<1>2. r.packet = row.packet /\ r.via = row.via /\ r.reviewed = row.reviewed /\ LedgerRow(r)
  BY <1>1 DEF LedgerRow
<1> HIDE DEF r
<1> QED BY <1>2 DEF RowReviewed, r

\* The bridge's steps.
LEMMA BridgeSteps ==
    ASSUME IntakeInv,
           \/ \E plan \in Plans, mode \in {"dry-run", "enqueue-ready"} : BridgePlan(plan, mode)
           \/ EnqueuePackets \/ EnqueueNext \/ EnqueueMeetsLease
    PROVE  IntakeInv'
<1>1. wave' = wave
  BY DEF BridgePlan, EnqueuePackets, EnqueueNext, EnqueueMeetsLease
<1>2. bridgeReport' # NoIntake => bridgeReport'.plan \in Plans
  <2>1. \A plan, mode : [plan |-> plan, mode |-> mode].plan = plan
    OBVIOUS
  <2> QED BY <2>1 DEF BridgePlan, EnqueuePackets, EnqueueNext, EnqueueMeetsLease, IntakeInv
<1>3. bridging' \in Seq(BridgePackets)
  <2>1. CASE EnqueuePackets
    <3> DEFINE plan == bridgeReport.plan
    <3>1. plan \in Plans /\ ReportOk(plan) /\ bridging' = PacketsOf(plan)
      BY <2>1 DEF EnqueuePackets, IntakeInv
    <3> HIDE DEF plan
    <3>2. Len(plan.assignments) \in Nat /\ DOMAIN plan.assignments = 1..Len(plan.assignments)
      BY <3>1, IntakeAssumption DEF IsList
    <3>3. \A n \in DOMAIN plan.assignments : Packet(plan, plan.assignments[n]) \in BridgePackets
      BY <3>1 DEF BridgePackets
    <3>4. PacketsOf(plan) \in [1..Len(plan.assignments) -> BridgePackets]
      BY <3>2, <3>3 DEF PacketsOf
    <3> QED BY <3>1, <3>2, <3>4, SeqDef
  <2>2. CASE bridging # << >> /\ bridging' = Tail(bridging)
    BY <2>2 DEF IntakeInv
  <2>3. CASE bridging' = bridging
    BY <2>3 DEF IntakeInv
  <2> QED BY <2>1, <2>2, <2>3 DEF BridgePlan, EnqueueNext, EnqueueMeetsLease
<1>4. /\ ledger' = [j \in IntakeJobs |-> ledger'[j]]
      /\ \A j \in IntakeJobs : LedgerRow(ledger'[j]) /\ RowReviewed(j, ledger'[j])
  <2>1. CASE ledger' = ledger
    BY <2>1 DEF IntakeInv
  <2>2. CASE EnqueueNext /\ ledger' # ledger
    <3> DEFINE p == Head(bridging)
    <3>1. p \in BridgePackets
      BY <2>2 DEF EnqueueNext, IntakeInv
    <3>2. ~p.foundry /\ ledger' = Entered(p, "bridge", << >>)
      BY <2>2 DEF EnqueueNext
    <3> HIDE DEF p
    <3> QED BY <3>1, <3>2, BridgedPackets, EnteredRows
  <2> QED BY <2>1, <2>2 DEF BridgePlan, EnqueuePackets, EnqueueNext, EnqueueMeetsLease
<1> QED BY <1>1, <1>2, <1>3, <1>4 DEF IntakeInv

\* The closed loop takes a bundle of its own or the packets of a report.
LEMMA WaveStarts ==
    ASSUME IntakeInv, (\E batch \in Bundles : StartWave(batch)) \/ StartReportedWave
    PROVE  IntakeInv'
<1>1. PICK batch : IsList(batch) /\ StartWave(batch)
  <2>1. CASE StartReportedWave
    <3> DEFINE plan == bridgeReport.plan
    <3>1. plan \in Plans /\ StartWave(PacketsOf(plan))
      BY <2>1 DEF StartReportedWave, IntakeInv
    <3> HIDE DEF plan
    <3>2. Len(plan.assignments) \in Nat /\ DOMAIN plan.assignments = 1..Len(plan.assignments)
      BY <3>1, IntakeAssumption DEF IsList
    <3> DEFINE b == PacketsOf(plan)
    <3>3. b = [n \in 1..Len(plan.assignments) |-> Packet(plan, plan.assignments[n])]
      BY <3>2 DEF PacketsOf
    <3>4. b \in [1..Len(plan.assignments) -> {b[n] : n \in DOMAIN b}]
      BY <3>3
    <3> HIDE DEF b
    <3>5. b \in Seq({b[n] : n \in DOMAIN b})
      BY <3>2, <3>4, SeqDef
    <3> QED BY <3>1, <3>5 DEF IsList, b
  <2> QED BY <2>1, IntakeAssumption
<1>2. /\ wave' = [at |-> "enqueue", left |-> batch, bundle |-> batch]
      /\ UNCHANGED <<bridgeReport, bridging, ledger>> /\ Approved(batch)
  BY <1>1 DEF StartWave, Approved
<1>3. batch \in Seq(ElementsOf(batch))
  BY <1>1 DEF IsList, ElementsOf
<1> QED BY <1>2, <1>3 DEF IntakeInv

\* Its packets enter one by one, the loop gives up, or the wave runs.
LEMMA WaveSteps ==
    ASSUME IntakeInv, WaveNext \/ WaveMeetsLease \/ \E jobs \in SUBSET IntakeJobs : RunWave(jobs)
    PROVE  IntakeInv'
<1> DEFINE over == [at |-> "idle", left |-> << >>, bundle |-> << >>]
<1>1. UNCHANGED <<bridgeReport, bridging>> /\ wave.at = "enqueue"
  BY DEF WaveNext, WaveMeetsLease, RunWave
<1>2. Approved(wave.bundle) /\ wave.left \in Seq(ElementsOf(wave.bundle))
  BY <1>1 DEF IntakeInv
<1>3. /\ wave' = [at |-> wave'.at, left |-> wave'.left, bundle |-> wave'.bundle]
      /\ wave'.at = "enqueue" =>
            Approved(wave'.bundle) /\ wave'.left \in Seq(ElementsOf(wave'.bundle))
  <2>1. CASE wave' = over
    BY <2>1
  <2>2. CASE wave.left # << >> /\ wave' = [wave EXCEPT !.left = Tail(wave.left)]
    <3>1. Tail(wave.left) \in Seq(ElementsOf(wave.bundle))
      BY <1>2, <2>2, HeadTailProperties
    <3>2. PICK w : w = Tail(wave.left) OBVIOUS
    <3>3. wave' = [at |-> wave.at, left |-> w, bundle |-> wave.bundle]
      BY <2>2, <3>2 DEF IntakeInv
    <3> QED BY <1>2, <3>1, <3>2, <3>3
  <2> QED BY <2>1, <2>2 DEF WaveNext, WaveMeetsLease, RunWave
<1>4. /\ ledger' = [j \in IntakeJobs |-> ledger'[j]]
      /\ \A j \in IntakeJobs : LedgerRow(ledger'[j]) /\ RowReviewed(j, ledger'[j])
  <2>1. CASE ledger' = ledger
    BY <2>1 DEF IntakeInv
  <2>2. CASE WaveNext /\ ledger' # ledger
    <3> DEFINE p == Head(wave.left)
    <3>1. p \in ElementsOf(wave.bundle)
      BY <1>2, <2>2 DEF WaveNext
    <3>2. ledger' = Entered(p, "loop", wave.bundle)
      BY <2>2 DEF WaveNext
    <3> HIDE DEF p
    <3> QED BY <1>2, <3>1, <3>2, ApprovedBundles, EnteredRows
  <2>3. ASSUME NEW jobs \in SUBSET IntakeJobs, RunWave(jobs) PROVE <1>4!:
    <3>1. PICK ended \in [jobs -> {"completed", "failed"}] :
             ledger' = [j \in IntakeJobs |->
                          IF j \in jobs THEN [ledger[j] EXCEPT !.status = ended[j]] ELSE ledger[j]]
      BY <2>3 DEF RunWave
    <3>2. \A j \in jobs : ledger[j].status = "queued"
      BY <2>3 DEF RunWave
    <3>3. \A j \in IntakeJobs : \/ ledger'[j] = ledger[j]
                                \/ /\ ledger[j].status # "none"
                                   /\ \E s : ledger'[j] = [ledger[j] EXCEPT !.status = s]
      BY <3>1, <3>2
    <3> QED BY <3>1, <3>3, RowsMove DEF IntakeInv
  <2> QED BY <2>1, <2>2, <2>3 DEF WaveMeetsLease
<1> QED BY <1>1, <1>3, <1>4 DEF IntakeInv

\* QueuedWorkWasReviewed for any adapters, plans and bundles: the check of a
\* whole report or bundle comes before its first packet enters, and what enters
\* is what was checked (plan_packet_bridge.py, enqueue_packets;
\* dispatch_closed_loop.py, _validate_packets).
THEOREM WorkIsReviewed == IntakeSpec => []QueuedWorkWasReviewed
<1>1. IntakeInit => IntakeInv
  BY DEF IntakeInit, IntakeInv, LedgerRow, RowReviewed
<1>2. IntakeInv /\ [IntakeNext]_intakeVars => IntakeInv'
  <2> SUFFICES ASSUME IntakeInv, [IntakeNext]_intakeVars PROVE IntakeInv'
    OBVIOUS
  <2>1. ASSUME NEW j \in IntakeJobs, NEW s \in {"running", "completed", "failed", "blocked"},
               ControllerMoves(j, s)
        PROVE  IntakeInv'
    <3>1. ledger[j].status # "none" /\ ledger' = [ledger EXCEPT ![j] = [ledger[j] EXCEPT !.status = s]]
          /\ UNCHANGED <<bridgeReport, bridging, wave>>
      BY <2>1 DEF ControllerMoves
    <3> DEFINE r == [ledger[j] EXCEPT !.status = s]
    <3>2. LedgerRow(r) /\ RowReviewed(j, r)
      BY <3>1, RowsMove DEF IntakeInv
    <3>3. ledger' = [ledger EXCEPT ![j] = r]
      BY <3>1
    <3> HIDE DEF r
    <3>4. /\ ledger' = [d \in IntakeJobs |-> ledger'[d]] /\ ledger'[j] = r
          /\ \A d \in IntakeJobs \ {j} : ledger'[d] = ledger[d]
      BY <3>3 DEF IntakeInv
    <3> QED BY <3>1, <3>2, <3>4 DEF IntakeInv
  <2>2. CASE UNCHANGED intakeVars
    BY <2>2 DEF intakeVars, IntakeInv
  <2> QED BY <2>1, <2>2, BridgeSteps, WaveStarts, WaveSteps DEF IntakeNext
<1>3. IntakeInv => QueuedWorkWasReviewed
  BY DEF IntakeInv, RowReviewed, FromPlan, Unmixed, QueuedWorkWasReviewed
<1> QED BY <1>1, <1>2, <1>3, PTL DEF IntakeSpec
-----------------------------------------------------------------------------
(* WorkerProjection *)

\* What is held of a worker is of its present generation, and an execution that
\* is held is the one its handle is bound to.
ProjectionInv ==
    /\ fenceToken \in Nat
    /\ latest \in [Telemetry -> SnapshotMessages \cup HeartbeatMessages \cup {Nobody}]
    /\ handles \in [Handles -> HandleMessages \cup {Nobody}]
    /\ bound \in [Handles -> (Fences \X (Processes \cup {NoProcess})) \cup {Nobody}]
    /\ \A h \in Handles : handles[h] # Nobody =>
          /\ handles[h].fence = fenceToken
          /\ bound[h] = Identity(handles[h])

\* The messages of a registration and of the two snapshot streams.
LEMMA MessageFields ==
    /\ \A message \in Registrations : message.key \in MessageKeys /\ message.fence \in Fences
    /\ CapabilityMessages = SnapshotMessages
    /\ {"capability", "resource"} \subseteq Telemetry
BY DEF Registrations, CapabilityMessages, Telemetry

\* The invariant survives every message.
LEMMA ProjectionInvHolds ==
    ProjectionInv /\ [ProjectionNext]_projectionVars => ProjectionInv'
<1> SUFFICES ASSUME ProjectionInv, [ProjectionNext]_projectionVars PROVE ProjectionInv'
  OBVIOUS
<1> USE ProjectionAssumption DEF ProjectionInv, Messages
<1>1. ASSUME NEW key \in MessageKeys, NEW fence \in Fences, Register(key, fence)
      PROVE ProjectionInv'
  BY <1>1 DEF Register, NewGeneration, Fences, Identity
<1>2. ASSUME NEW stream \in Telemetry, NEW message \in SnapshotMessages \cup HeartbeatMessages,
             ApplyTelemetry(stream, message)
      PROVE ProjectionInv'
  BY <1>2 DEF ApplyTelemetry, Identity
<1>3. ASSUME NEW h \in Handles, NEW message \in HandleMessages, ApplyHandle(h, message)
      PROVE ProjectionInv'
  <2>1. /\ message.fence \in Fences /\ message.process \in Processes \cup {NoProcess}
        /\ message.fence = fenceToken
    BY <1>3 DEF ApplyHandle, Current, HandleMessages
  <2>2. /\ Identity(message) = <<message.fence, message.process>>
        /\ Identity(message) \in Fences \X (Processes \cup {NoProcess})
    BY <2>1 DEF Identity
  <2>3. UNCHANGED <<fenceToken, latest>>
    BY <1>3 DEF ApplyHandle
  <2>4. /\ handles' = [handles EXCEPT ![h] = message]
        /\ bound' = [bound EXCEPT ![h] = Identity(message)]
    BY <1>3 DEF ApplyHandle
  <2>5. /\ handles' \in [Handles -> HandleMessages \cup {Nobody}]
        /\ bound' \in [Handles -> (Fences \X (Processes \cup {NoProcess})) \cup {Nobody}]
    BY <2>2, <2>4
  <2>6. ASSUME NEW i \in Handles, handles'[i] # Nobody
        PROVE handles'[i].fence = fenceToken /\ bound'[i] = Identity(handles'[i])
    BY <2>1, <2>4, <2>6 DEF Identity
  <2> QED BY <2>3, <2>5, <2>6 DEF Identity
<1>4. CASE UNCHANGED projectionVars
  BY <1>4 DEF projectionVars, Identity
<1> QED BY <1>1, <1>2, <1>3, <1>4, MessageFields DEF ProjectionNext, Telemetry

\* The status of an execution that ended stands while its handle goes on.
LEMMA EndsStand ==
    ASSUME ProjectionInv, [ProjectionNext]_projectionVars, NEW h \in Handles,
           handles[h] # Nobody, fenceToken' = fenceToken
    PROVE  /\ handles'[h] # Nobody /\ handles'[h].sequence >= handles[h].sequence
           /\ \A before, after \in SUBSET {h} :
                 ExecutionStatus(h, before) \in Terminal \ {"lost"} =>
                    ExecutionStatus(h, after)' = ExecutionStatus(h, before)
<1> USE ProjectionAssumption DEF ProjectionInv, Messages
<1>1. handles[h] \in HandleMessages /\ handles[h].sequence \in Int
      /\ handles[h].state \in {"unknown", "accepted", "running"} \cup Terminal
  BY DEF HandleMessages
<1>2. \/ handles'[h] = handles[h]
      \/ /\ handles'[h] \in HandleMessages
         /\ handles'[h].sequence > handles[h].sequence
         /\ handles'[h].state \in Successors(handles[h].state)
  <2>1. ASSUME NEW key \in MessageKeys, NEW fence \in Fences, Register(key, fence) PROVE FALSE
    BY <2>1 DEF Register, Fences
  <2>2. ASSUME NEW stream, NEW message, ApplyTelemetry(stream, message)
        PROVE handles'[h] = handles[h]
    BY <2>2 DEF ApplyTelemetry
  <2>3. ASSUME NEW i \in Handles, NEW message \in HandleMessages, ApplyHandle(i, message)
        PROVE \/ handles'[h] = handles[h]
              \/ /\ handles'[h] \in HandleMessages
                 /\ handles'[h].sequence > handles[h].sequence
                 /\ handles'[h].state \in Successors(handles[h].state)
    BY <2>3 DEF ApplyHandle, Forward
  <2>4. CASE UNCHANGED projectionVars
    BY <2>4 DEF projectionVars
  <2> QED BY <2>1, <2>2, <2>3, <2>4, MessageFields DEF ProjectionNext
<1>3. handles'[h] # Nobody /\ handles'[h].sequence >= handles[h].sequence
  <2>1. CASE handles'[h] = handles[h] BY <1>1, <2>1
  <2>2. CASE handles'[h] \in HandleMessages /\ handles'[h].sequence > handles[h].sequence
    <3>1. handles'[h].sequence \in Int BY <2>2 DEF HandleMessages
    <3> QED BY <1>1, <2>2, <3>1
  <2> QED BY <1>2, <2>1, <2>2
<1>4. ASSUME NEW before \in SUBSET {h}, NEW after \in SUBSET {h},
             ExecutionStatus(h, before) \in Terminal \ {"lost"}
      PROVE ExecutionStatus(h, after)' = ExecutionStatus(h, before)
  <2>1. handles[h].state \in Terminal /\ ExecutionStatus(h, before) = handles[h].state
    BY <1>1, <1>4 DEF ExecutionStatus, Terminal
  <2>2. handles'[h].state = handles[h].state
    <3>1. Successors(handles[h].state) = {handles[h].state}
      BY <2>1 DEF Successors, Terminal
    <3> QED BY <1>2, <3>1
  <2>3. ExecutionStatus(h, after)' = handles'[h].state
    BY <1>3, <2>1, <2>2 DEF ExecutionStatus, Terminal
  <2> QED BY <2>1, <2>2, <2>3
<1> QED BY <1>3, <1>4

\* What a step may do to the messages of a stream.
LEMMA StreamsMoveForward ==
    ASSUME ProjectionInv, [ProjectionNext]_projectionVars
    PROVE  /\ fenceToken' >= fenceToken
           /\ \A s \in Telemetry :
                 \/ latest'[s] = latest[s]
                 \/ fenceToken' > fenceToken /\ latest'[s] = Nobody
                 \/ /\ latest'[s].fence = fenceToken'
                    /\ latest[s] # Nobody => latest'[s].sequence > latest[s].sequence
           /\ \A h \in Handles : bound[h] # Nobody => bound'[h] = bound[h]
<1> USE DEF ProjectionInv
<1>1. ASSUME NEW key \in MessageKeys, NEW fence \in Fences, Register(key, fence)
      PROVE fenceToken' > fenceToken /\ latest' = [s \in Telemetry |-> Nobody] /\ bound' = bound
            /\ fenceToken' \in Nat
  BY <1>1 DEF Register, NewGeneration, Fences
<1>2. ASSUME NEW stream \in Telemetry, NEW message, ApplyTelemetry(stream, message)
      PROVE /\ fenceToken' = fenceToken /\ bound' = bound
            /\ \A s \in Telemetry :
                  \/ latest'[s] = latest[s]
                  \/ /\ latest'[s].fence = fenceToken'
                     /\ latest[s] # Nobody => latest'[s].sequence > latest[s].sequence
  BY <1>2 DEF ApplyTelemetry, Current, Forward
<1>3. ASSUME NEW h \in Handles, NEW message \in HandleMessages, ApplyHandle(h, message)
      PROVE /\ UNCHANGED <<fenceToken, latest>>
            /\ \A i \in Handles : bound[i] # Nobody => bound'[i] = bound[i]
  BY <1>3 DEF ApplyHandle
<1>4. CASE UNCHANGED projectionVars
  BY <1>4 DEF projectionVars
<1> QED BY <1>1, <1>2, <1>3, <1>4, MessageFields DEF ProjectionNext, Telemetry

\* ProjectionMovesForward for any messages, streams and generations: nothing
\* that apply_registration, the apply methods of the three streams and
\* apply_execution_handle accept takes back what was accepted before.
THEOREM PicturesMoveForward == ProjectionSpec => ProjectionMovesForward
<1>1. ProjectionInit => ProjectionInv
  BY DEF ProjectionInit, ProjectionInv
<1>2. ProjectionInv /\ [ProjectionNext]_projectionVars => ProjectionMovesForward!1
  <2> SUFFICES ASSUME ProjectionInv, [ProjectionNext]_projectionVars
               PROVE  ProjectionMovesForward!1
    OBVIOUS
  <2>1. ProjectionInv'
    BY ProjectionInvHolds
  <2>2. AdmissionStatus(Telemetry)' = "ready" => \A s \in Telemetry : latest'[s] # Nobody
    BY DEF AdmissionStatus, WorkerStatus, Telemetry
  <2>3. \A h \in Handles : handles'[h] # Nobody =>
           /\ handles'[h].fence = fenceToken'
           /\ bound'[h] = <<handles'[h].fence, handles'[h].process>>
    BY <2>1 DEF ProjectionInv, Identity
  <2> QED BY <2>2, <2>3, EndsStand, StreamsMoveForward
<1> QED BY <1>1, <1>2, ProjectionInvHolds, PTL DEF ProjectionSpec, ProjectionMovesForward
-----------------------------------------------------------------------------
(* PlacedLaunch *)

\* What the receipts of a packet said when its child was started.
ReceiptsHeld(p, now) ==
    /\ QuotaValid(p, now)
    /\ ~p.capacity.absent => CapacityCurrent(p, now)

\* Each stage keeps what the gates before it have checked.
PlacedInv ==
    /\ queued.state \in {"queued", "claimed", "launched"} => Ingress(queued.packet)
    /\ queued.state \in {"claimed", "launched"} =>
          ResourceValid(queued.packet.resource, queued.packet.plan, queued.claimedAt)
    /\ queued.state = "launched" => ReceiptsHeld(queued.packet, queued.launchedAt)
    /\ approval # Unset =>
          /\ queued.state = "launched"
          /\ approval.contract = Stamped(queued.packet.contract)
    /\ "state" \in DOMAIN execution
    /\ execution.state = "running" =>
          /\ approval # Unset
          /\ approval.contract = execution.contract
          /\ FreshAt(execution.contract.auth, execution.since)
          /\ FreshAt(execution.contract.route, execution.since)
          /\ FreshAt(approval, execution.since)
          /\ PlanOf(execution.contract) = queued.packet.plan

\* The stamp of the operator leaves what the contract plans alone.
LEMMA StampKeepsPlan ==
    ASSUME NEW c, PlanFields \subseteq DOMAIN c
    PROVE  PlanOf(Stamped(c)) = PlanOf(c)
<1>1. ASSUME NEW f \in PlanFields PROVE Stamped(c)[f] = c[f]
  BY <1>1 DEF Stamped, PlanFields
<1> QED BY <1>1 DEF PlanOf

\* What the plan of a contract says is what the contract says.
LEMMA PlanSays ==
    ASSUME NEW c
    PROVE  /\ PlanOf(c).exact = c.exact /\ PlanOf(c).confined = c.confined
           /\ PlanOf(c).pool = c.pool
BY DEF PlanOf, PlanFields

\* The server executes only under the approval of the contract that was queued.
LEMMA RunOnceBacked ==
    ASSUME PlacedInv, approval # Unset, NEW c,
           c \in {queued.packet.contract, Stamped(queued.packet.contract)}, RunOnce(c)
    PROVE  PlacedInv'
<1>1. Ingress(queued.packet) /\ queued.state = "launched"
  BY DEF PlacedInv
<1>2. PlanOf(c) = queued.packet.plan
  BY <1>1, StampKeepsPlan DEF Ingress
<1>3. /\ execution' = [state |-> "running", contract |-> c, since |-> moment]
      /\ approval.contract = c
      /\ FreshAt(c.auth, moment) /\ FreshAt(c.route, moment) /\ FreshAt(approval, moment)
      /\ UNCHANGED <<queued, approval>>
  BY DEF RunOnce, Authorized
<1>4. /\ execution'.state = "running" /\ execution'.contract = c /\ execution'.since = moment
      /\ "state" \in DOMAIN execution'
  BY <1>3
<1> QED BY <1>2, <1>3, <1>4 DEF PlacedInv

\* Every step of the way keeps what the gates have checked.
LEMMA PlacedInvHolds == PlacedInv /\ [PlacedNext]_placedVars => PlacedInv'
<1> SUFFICES ASSUME PlacedInv, [PlacedNext]_placedVars PROVE PlacedInv'
  OBVIOUS
<1>1. ASSUME UNCHANGED <<queued, approval, execution>> PROVE PlacedInv'
  BY <1>1 DEF PlacedInv
<1>2. ASSUME NEW a, NEW probe, Build(a, probe) PROVE PlacedInv'
  BY <1>1, <1>2 DEF Build
<1>3. CASE BuildAgain BY <1>1, <1>3 DEF BuildAgain
<1>4. ASSUME NEW receipts, Attach(receipts) PROVE PlacedInv'
  BY <1>1, <1>4 DEF Attach
<1>5. CASE Rewrite BY <1>1, <1>5 DEF Rewrite
<1>6. CASE EnqueuePlaced
  <2>1. /\ Ingress(placed) /\ queued' = [state |-> "queued", packet |-> placed]
        /\ approval = Unset /\ execution.state # "running"
        /\ UNCHANGED <<approval, execution>>
    BY <1>6 DEF EnqueuePlaced, PlacedInv
  <2>2. queued'.state = "queued" /\ queued'.packet = placed
    BY <2>1
  <2> QED BY <2>1, <2>2 DEF PlacedInv
<1>7. CASE ReserveAndClaim
  <2>1. /\ queued' = [state |-> "claimed", packet |-> queued.packet, claimedAt |-> moment]
        /\ Ingress(queued.packet)
        /\ ResourceValid(queued.packet.resource, queued.packet.plan, moment)
        /\ approval = Unset /\ execution.state # "running"
        /\ UNCHANGED <<approval, execution>>
    BY <1>7 DEF ReserveAndClaim, PlacedInv, Admitted
  <2>2. queued'.state = "claimed" /\ queued'.packet = queued.packet /\ queued'.claimedAt = moment
    BY <2>1
  <2> QED BY <2>1, <2>2 DEF PlacedInv
<1>8. CASE LaunchChild
  <2>1. /\ queued' = [state |-> "launched", packet |-> queued.packet,
                      claimedAt |-> queued.claimedAt, launchedAt |-> moment]
        /\ Ingress(queued.packet)
        /\ ResourceValid(queued.packet.resource, queued.packet.plan, queued.claimedAt)
        /\ approval = Unset /\ execution.state # "running"
        /\ UNCHANGED <<moment, approval, execution>>
    BY <1>8 DEF LaunchChild, PlacedInv
  <2>2. ReceiptsHeld(queued.packet, moment)
    BY <1>8 DEF LaunchChild, Drift, ReceiptsHeld
  <2>3. /\ queued'.state = "launched" /\ queued'.packet = queued.packet
        /\ queued'.claimedAt = queued.claimedAt /\ queued'.launchedAt = moment
    BY <2>1
  <2> QED BY <2>1, <2>2, <2>3 DEF PlacedInv
<1>9. CASE LaunchFails
  <2>1. /\ queued' = [state |-> "failed"] /\ approval = Unset /\ execution.state # "running"
        /\ UNCHANGED <<approval, execution>>
    BY <1>9 DEF LaunchFails, PlacedInv
  <2>2. queued'.state = "failed"
    BY <2>1
  <2> QED BY <2>1, <2>2 DEF PlacedInv
<1>10. CASE Approve
  <2>1. /\ approval' = [contract |-> Stamped(queued.packet.contract), at |-> moment]
        /\ queued.state = "launched" /\ execution.state # "running"
        /\ UNCHANGED <<queued, execution>>
    BY <1>10 DEF Approve, PlacedInv
  <2> QED BY <2>1 DEF PlacedInv
<1>11. ASSUME approval # Unset,
              RunOnce(queued.packet.contract) \/ RunOnce(Stamped(queued.packet.contract))
       PROVE PlacedInv'
  BY <1>11, RunOnceBacked
<1>12. ASSUME NEW status, NEW left, RunEnds(status, left) PROVE PlacedInv'
  <2>1. execution' = [execution EXCEPT !.state = "idle"] /\ UNCHANGED <<queued, approval>>
    BY <1>12 DEF RunEnds
  <2>2. execution'.state = "idle" /\ "state" \in DOMAIN execution'
    BY <2>1 DEF PlacedInv
  <2> QED BY <2>1, <2>2 DEF PlacedInv
<1>13. CASE Elapse BY <1>1, <1>13 DEF Elapse
<1>14. CASE UNCHANGED placedVars BY <1>1, <1>14 DEF placedVars
<1> QED BY <1>2, <1>3, <1>4, <1>5, <1>6, <1>7, <1>8, <1>9, <1>10, <1>11, <1>12, <1>13, <1>14
        DEF PlacedNext

\* LaunchesAreBacked for every set of hosts, routes, assignments, evidence and
\* receipts, and whatever other programs make of a packet before it is queued:
\* the gates of the ingress, the claim, the launch and the server together leave
\* no way around one of them.
THEOREM LaunchesHaveBacking == PlacedSpec => []LaunchesAreBacked
<1>1. PlacedInit => PlacedInv
  <2> SUFFICES ASSUME PlacedInit PROVE PlacedInv
    OBVIOUS
  <2>1. /\ queued = [state |-> "none"] /\ approval = Unset /\ execution = [state |-> "idle"]
    BY DEF PlacedInit
  <2>2. queued.state = "none" /\ execution.state = "idle" /\ "state" \in DOMAIN execution
    BY <2>1
  <2> QED BY <2>1, <2>2 DEF PlacedInv
<1>2. PlacedInv => LaunchesAreBacked
  <2> SUFFICES ASSUME PlacedInv PROVE LaunchesAreBacked
    OBVIOUS
  <2>1. ASSUME queued.state = "launched"
        PROVE  LET p == queued.packet IN
               /\ p.plan = PlanOf(p.contract)
               /\ p.plan.exact /\ p.plan.confined
               /\ p.plan.pool \in CliRoutes \cup DesktopRoutes
               /\ p.resource.host = p.plan.workload /\ p.plan.ram <= p.resource.ram
               /\ queued.claimedAt - p.resource.at <= Ttl
               /\ ~p.capacity.absent => queued.launchedAt - p.capacity.at <= Ttl
               /\ p.quota.pool # "absent" =>
                     p.quota.pool = p.plan.pool /\ queued.launchedAt - p.quota.at <= Ttl
    <3> DEFINE p == queued.packet
    <3>1. /\ Ingress(p) /\ ResourceValid(p.resource, p.plan, queued.claimedAt)
          /\ ReceiptsHeld(p, queued.launchedAt)
      BY <2>1 DEF PlacedInv
    <3>2. /\ p.plan = PlanOf(p.contract)
          /\ CliShape(p.contract) \/ SplitShape(p.contract)
      BY <3>1 DEF Ingress
    <3>3. /\ p.contract.exact /\ p.contract.confined
          /\ p.contract.pool \in CliRoutes \cup DesktopRoutes
      BY <3>2 DEF CliShape, SplitShape
    <3>4. p.plan.exact /\ p.plan.confined /\ p.plan.pool \in CliRoutes \cup DesktopRoutes
      BY <3>2, <3>3, PlanSays
    <3>5. /\ p.resource.host = p.plan.workload /\ p.plan.ram <= p.resource.ram
          /\ queued.claimedAt - p.resource.at <= Ttl
      BY <3>1 DEF ResourceValid, FreshAt
    <3>6. ~p.capacity.absent => queued.launchedAt - p.capacity.at <= Ttl
      BY <3>1 DEF ReceiptsHeld, CapacityCurrent, StillValid
    <3>7. p.quota.pool # "absent" =>
             p.quota.pool = p.plan.pool /\ queued.launchedAt - p.quota.at <= Ttl
      BY <3>1 DEF ReceiptsHeld, QuotaValid, StillValid
    <3> QED BY <3>2, <3>4, <3>5, <3>6, <3>7
  <2>2. ASSUME execution.state = "running"
        PROVE  LET c == execution.contract IN
               /\ approval.contract = c
               /\ \A e \in {c.auth, c.route, approval} : execution.since - e.at <= Ttl
               /\ PlanOf(c) = queued.packet.plan
    BY <2>2 DEF PlacedInv, FreshAt
  <2> QED BY <2>1, <2>2 DEF LaunchesAreBacked
<1> QED BY <1>1, <1>2, PlacedInvHolds, PTL DEF PlacedSpec
-----------------------------------------------------------------------------
(* MonitorReplan *)

JobsHaveRows ==
    /\ DOMAIN planned = Jobs
    /\ \A j \in Jobs : RowFields \subseteq DOMAIN planned[j]

\* Constraints are only ever added to a row.
LEMMA LeftAdds ==
    ASSUME NEW job, RowFields \subseteq DOMAIN job, NEW out
    PROVE  /\ RowFields \subseteq DOMAIN Left(job, out)
           /\ Left(job, out).status = job.status
           /\ Left(job, out).pools = job.pools \cup out.pools
           /\ Left(job, out).models = job.models \cup out.models
           /\ Left(job, out).execution = job.execution \cup out.execution
           /\ Left(job, out).workload = job.workload \cup out.workload
BY DEF Left, RowFields

\* A job put back keeps its lists, and only an unfinished one is put back.
LEMMA PatchedRow ==
    ASSUME JobsHaveRows, NEW j \in Jobs
    PROVE  /\ RowFields \subseteq DOMAIN Patched(j)
           /\ planned[j].pools \subseteq Patched(j).pools
           /\ planned[j].models \subseteq Patched(j).models
           /\ planned[j].execution \subseteq Patched(j).execution
           /\ planned[j].workload \subseteq Patched(j).workload
           /\ planned[j].status = "completed" => Patched(j).status = "completed"
<1> DEFINE mine == {w \in Failing : w.job = j}
           own == [pools |-> UNION {PoolOut(w) : w \in mine},
                   models |-> UNION {ModelOut(w) : w \in mine},
                   execution |-> UNION {ExecutionOut(w) : w \in mine},
                   workload |-> UNION {WorkloadOut(w) : w \in mine}]
           back == IF planned[j].status \in {"failed", "running"} THEN "pending"
                   ELSE planned[j].status
           row == [planned[j] EXCEPT !.status = back]
<1>1. RowFields \subseteq DOMAIN planned[j]
  BY DEF JobsHaveRows
<1>2. Patched(j) = IF mine = {} THEN planned[j] ELSE Left(row, own)
  BY DEF Patched
<1>3. /\ RowFields \subseteq DOMAIN row
      /\ row.pools = planned[j].pools /\ row.models = planned[j].models
      /\ row.execution = planned[j].execution /\ row.workload = planned[j].workload
      /\ row.status = back
  BY <1>1 DEF RowFields
<1>4. planned[j].status = "completed" => back = "completed"
  OBVIOUS
<1> HIDE DEF mine, own, back, row
<1>5. CASE mine = {}
  BY <1>1, <1>2, <1>5
<1>6. CASE mine # {}
  <2>1. Patched(j) = Left(row, own)
    BY <1>2, <1>6
  <2> QED BY <1>3, <1>4, <2>1, LeftAdds
<1> QED BY <1>5, <1>6

\* Merging keeps what a row had, and adds what all share unless it is completed.
LEMMA MergedRow ==
    ASSUME JobsHaveRows, NEW j \in Jobs, NEW q
    PROVE  /\ RowFields \subseteq DOMAIN Merged(j, q)
           /\ planned[j].pools \subseteq Merged(j, q).pools
           /\ planned[j].models \subseteq Merged(j, q).models
           /\ planned[j].execution \subseteq Merged(j, q).execution
           /\ planned[j].workload \subseteq Merged(j, q).workload
           /\ planned[j].status = "completed" => Merged(j, q).status = "completed"
           /\ \/ Merged(j, q).status = "completed"
              \/ /\ Shared(q).pools \subseteq Merged(j, q).pools
                 /\ Shared(q).models \subseteq Merged(j, q).models
                 /\ Shared(q).execution \subseteq Merged(j, q).execution
                 /\ Shared(q).workload \subseteq Merged(j, q).workload
<1>1. CASE Patched(j).status = "completed"
  <2>1. Merged(j, q) = Patched(j)
    BY <1>1 DEF Merged
  <2> QED BY <1>1, <2>1, PatchedRow
<1>2. CASE Patched(j).status # "completed"
  <2>1. Merged(j, q) = Left(Patched(j), Shared(q))
    BY <1>2 DEF Merged
  <2> QED BY <1>2, <2>1, PatchedRow, LeftAdds
<1> QED BY <1>1, <1>2

\* A failure that no human is asked about leads to a constraint on its worker's
\* pool, model or hosts that every unfinished job gets.
LEMMA FailuresAreAnswered ==
    ASSUME NEW w \in Failing, NEW q
    PROVE  \/ Decision(q) = "pause"
           \/ w.pool \in Shared(q).pools \/ w.model \in Shared(q).models
           \/ w.execution \in Shared(q).execution \/ w.workload \in Shared(q).workload
<1>1. CASE Inspect(w)
  BY <1>1 DEF Decision
<1>2. CASE ~Inspect(w)
  <2>1. FailureOrigin(observed[w]) \in {"compute", "provider", "unknown"}
    BY Zenon DEF FailureOrigin
  <2>2. \/ w.pool \in PoolOut(w) \/ w.model \in ModelOut(w)
        \/ w.execution \in ExecutionOut(w) \/ w.workload \in WorkloadOut(w)
    BY <1>2, <2>1 DEF Inspect, PoolOut, ModelOut, ExecutionOut, WorkloadOut
  <2>3. /\ PoolOut(w) \subseteq Shared(q).pools /\ ModelOut(w) \subseteq Shared(q).models
        /\ ExecutionOut(w) \subseteq Shared(q).execution
        /\ WorkloadOut(w) \subseteq Shared(q).workload
    BY DEF Shared
  <2> QED BY <2>2, <2>3
<1> QED BY <1>1, <1>2

\* Only replan_controller takes up a report.
LEMMA ReportsAreTakenUp ==
    ASSUME [MonitorNext]_monitorVars, Replanned
    PROVE  \E q : Replan(q)
<1>1. ASSUME NEW w, NEW f, NEW g, NEW c, NEW waited, Observe(w, f, g, c, waited) PROVE FALSE
  BY <1>1 DEF Observe, Replanned
<1>2. ASSUME NEW refresh, NEW pressure, FinishMonitor(refresh, pressure) PROVE FALSE
  BY <1>2 DEF FinishMonitor, Replanned
<1>3. ASSUME NEW h, HostChanges(h) PROVE FALSE
  BY <1>3 DEF HostChanges, Replanned
<1>4. ASSUME NEW j, NEW status, JobMoves(j, status) PROVE FALSE
  BY <1>4 DEF JobMoves, Replanned
<1>5. CASE UNCHANGED monitorVars
  BY <1>5 DEF monitorVars, Replanned
<1> QED BY <1>1, <1>2, <1>3, <1>4, <1>5 DEF MonitorNext

\* Every job keeps its row.
LEMMA RowsAreKept == JobsHaveRows /\ [MonitorNext]_monitorVars => JobsHaveRows'
<1> SUFFICES ASSUME JobsHaveRows, [MonitorNext]_monitorVars PROVE JobsHaveRows'
  OBVIOUS
<1>1. ASSUME UNCHANGED planned PROVE JobsHaveRows'
  BY <1>1 DEF JobsHaveRows
<1>2. ASSUME NEW q, Replan(q) PROVE JobsHaveRows'
  <2>1. planned' = [j \in Jobs |-> Merged(j, q)]
    BY <1>2 DEF Replan
  <2> QED BY <2>1, MergedRow DEF JobsHaveRows
<1>3. ASSUME NEW j \in Jobs, NEW status, JobMoves(j, status) PROVE JobsHaveRows'
  <2>1. planned' = [planned EXCEPT ![j].status = status]
    BY <1>3 DEF JobMoves
  <2> QED BY <2>1 DEF JobsHaveRows
<1>4. ASSUME NEW w, NEW f, NEW g, NEW c, NEW waited, Observe(w, f, g, c, waited)
      PROVE JobsHaveRows'
  BY <1>1, <1>4 DEF Observe
<1>5. ASSUME NEW refresh, NEW pressure, FinishMonitor(refresh, pressure) PROVE JobsHaveRows'
  BY <1>1, <1>5 DEF FinishMonitor
<1>6. ASSUME NEW h, HostChanges(h) PROVE JobsHaveRows'
  BY <1>1, <1>6 DEF HostChanges
<1>7. CASE UNCHANGED monitorVars BY <1>1, <1>7 DEF monitorVars
<1> QED BY <1>2, <1>3, <1>4, <1>5, <1>6, <1>7 DEF MonitorNext

\* FailureIsNotRepeated for any workers, hosts, pools and jobs, whatever the
\* monitor saw: what build_replan_decision and merge_replan_constraints make of
\* a report keeps every unfinished job away from where a worker failed.
THEOREM FailuresAreNotRepeated == MonitorSpec => FailureIsNotRepeated
<1>1. MonitorInit => JobsHaveRows
  BY MonitorAssumption DEF MonitorInit, JobsHaveRows
<1>2. JobsHaveRows /\ [MonitorNext]_monitorVars => FailureIsNotRepeated!1
  <2> SUFFICES ASSUME JobsHaveRows, [MonitorNext]_monitorVars, Replanned
               PROVE  /\ \A w \in Failing, j \in Jobs :
                            \/ decision' = "pause" \/ planned'[j].status = "completed"
                            \/ ~MayUse(planned'[j], w)
                      /\ \A j \in Jobs :
                            /\ planned[j].pools \subseteq planned'[j].pools
                            /\ planned[j].models \subseteq planned'[j].models
                            /\ planned[j].execution \subseteq planned'[j].execution
                            /\ planned[j].workload \subseteq planned'[j].workload
                            /\ planned[j].status = "completed" =>
                                  planned'[j].status = "completed"
    OBVIOUS
  <2>1. PICK q : Replan(q)
    BY ReportsAreTakenUp
  <2>2. decision' = Decision(q) /\ \A j \in Jobs : planned'[j] = Merged(j, q)
    BY <2>1 DEF Replan
  <2>3. ASSUME NEW w \in Failing, NEW j \in Jobs
        PROVE  \/ decision' = "pause" \/ planned'[j].status = "completed"
               \/ ~MayUse(planned'[j], w)
    BY <2>2, <2>3, MergedRow, FailuresAreAnswered DEF MayUse
  <2> QED BY <2>2, <2>3, MergedRow
<1> QED BY <1>1, <1>2, RowsAreKept, PTL DEF MonitorSpec, FailureIsNotRepeated

-----------------------------------------------------------------------------
(* Chains: what a recursive function over parents contains *)

\* The natural numbers by their order, which is well founded.
Below == {p \in Nat \X Nat : p[1] < p[2]}
\* Every set of natural numbers has a least one.
LEMMA LeastNat ==
    ASSUME NEW T \in SUBSET Nat, T # {}
    PROVE  \E n \in T : \A m \in T : n <= m
<1>1. IsWellFoundedOn(Below, Nat)
  BY NatLessThanWellFounded DEF OpToRel, Below
<1>2. PICK n \in T : \A m \in T : <<m, n>> \notin Below
  BY <1>1, WFMin
<1>3. ASSUME NEW m \in T PROVE n <= m
  <2>1. <<m, n>> \in Nat \X Nat /\ <<m, n>>[1] = m /\ <<m, n>>[2] = n
    OBVIOUS
  <2>2. m < n => <<m, n>> \in Below
    BY <2>1 DEF Below
  <2> QED BY <1>2, <2>2
<1> QED BY <1>3

\* The nodes met on the way from one node to the root, where `top` is what the
\* root itself contributes.
ChainStep(f, D, root, top, parent) ==
    [c \in D |-> IF c = root THEN top ELSE {c} \cup f[parent[c]]]

\* What is closed under the parents of a chain's nodes.
ClosedUnder(S, D, root, parent) ==
    S \subseteq D /\ \A x \in S \ {root} : parent[x] \in S

\* Every node but the root has a parent that comes before it.
Founded(D, root, parent) ==
    /\ root \in D
    /\ \A c \in D \ {root} : parent[c] \in D
    /\ \E rank \in [D -> Nat] : \A c \in D \ {root} : rank[parent[c]] < rank[c]

\* A chain is well defined: the least closed set of each node solves the equation.
LEMMA ChainExists ==
    ASSUME NEW D, NEW root, NEW parent, Founded(D, root, parent),
           NEW top, top \subseteq {root}
    PROVE  \E f : f = ChainStep(f, D, root, top, parent)
<1> DEFINE least(c) == {a \in D : \A S : ClosedUnder(S, D, root, parent) /\ c \in S => a \in S}
           f == [c \in D |-> least(c) \ ({root} \ top)]
<1> USE DEF Founded
<1>1. ASSUME NEW c \in D \ {root} PROVE least(c) = {c} \cup least(parent[c])
  <2>1. ASSUME NEW a \in least(c), a # c PROVE a \in least(parent[c])
    <3>1. SUFFICES ASSUME NEW S, ClosedUnder(S, D, root, parent), parent[c] \in S
                   PROVE  a \in S
      BY <2>1
    <3>2. ClosedUnder(S \cup {c}, D, root, parent) /\ c \in S \cup {c}
      BY <3>1 DEF ClosedUnder
    <3> QED BY <2>1, <3>2
  <2>2. ASSUME NEW a \in least(parent[c]) PROVE a \in least(c)
    BY <2>2 DEF ClosedUnder
  <2>3. c \in least(c)
    OBVIOUS
  <2> QED BY <2>1, <2>2, <2>3
<1>2. least(root) = {root}
  <2>1. ClosedUnder({root}, D, root, parent)
    BY DEF ClosedUnder
  <2>2. root \in least(root)
    OBVIOUS
  <2>3. least(root) \subseteq {root}
    BY <2>1
  <2> QED BY <2>2, <2>3
<1> HIDE DEF least
<1>3. ASSUME NEW c \in D
      PROVE  f[c] = IF c = root THEN top ELSE {c} \cup f[parent[c]]
  BY <1>1, <1>2
<1>4. f = ChainStep(f, D, root, top, parent)
  BY <1>3 DEF ChainStep
<1> QED BY <1>4

\* Whatever is closed and holds a node holds its chain, but for the root's own.
LEMMA ChainIsLeast ==
    ASSUME NEW D, NEW root, NEW parent, Founded(D, root, parent),
           NEW top, top \subseteq {root},
           NEW f, f = ChainStep(f, D, root, top, parent),
           NEW S, ClosedUnder(S, D, root, parent), NEW c \in S
    PROVE  f[c] \subseteq (S \ {root}) \cup top
<1> PICK rank \in [D -> Nat] : \A d \in D \ {root} : rank[parent[d]] < rank[d]
  BY DEF Founded
<1> USE DEF Founded
<1> DEFINE rest == (S \ {root}) \cup top
           Astray == {x \in S : ~(f[x] \subseteq rest)}
           Ranks == {rank[x] : x \in Astray}
<1>1. SUFFICES ASSUME Astray # {} PROVE FALSE
  OBVIOUS
<1>2. Ranks \subseteq Nat /\ Ranks # {}
  BY <1>1 DEF ClosedUnder
<1>3. PICK n \in Ranks : \A m \in Ranks : n <= m
  BY <1>2, LeastNat
<1>4. PICK x \in Astray : n = rank[x]
  OBVIOUS
<1>5. x \in D /\ x \in S
  BY DEF ClosedUnder
<1>6. f[x] = IF x = root THEN top ELSE {x} \cup f[parent[x]]
  BY <1>5 DEF ChainStep
<1>7. x # root /\ parent[x] \in S /\ ~(f[parent[x]] \subseteq rest)
  BY <1>5, <1>6 DEF ClosedUnder
<1>8. parent[x] \in Astray /\ rank[parent[x]] < rank[x]
  BY <1>5, <1>7
<1>9. rank[parent[x]] \in Nat /\ rank[x] \in Nat
  BY <1>5, <1>7
<1>10. rank[parent[x]] \in Ranks
  BY <1>8
<1> QED BY <1>3, <1>4, <1>8, <1>9, <1>10
-----------------------------------------------------------------------------
(* ProjectIntegrator *)

\* Every commit but the first has a parent that is older than it.
LEMMA CommitsFounded == Founded(Commits, RootCommit, ParentOf)
<1>1. PICK made \in [Commits -> 0..Cardinality(Commits)] :
          \A x \in Commits \ {RootCommit} : made[ParentOf[x]] < made[x]
  BY CommitAssumption
<1>2. made \in [Commits -> Nat]
  BY <1>1
<1> QED BY <1>1, <1>2, CommitAssumption DEF Founded

\* Lineage solves its equation, and holds exactly the ancestors.
LEMMA LineageIs ==
    Lineage = ChainStep(Lineage, Commits, RootCommit, {RootCommit}, ParentOf)
<1> DEFINE Equation(f) ==
        f = [c \in Commits |-> {c} \cup (IF c = RootCommit THEN {} ELSE f[ParentOf[c]])]
<1>1. \A f : Equation(f) <=> f = ChainStep(f, Commits, RootCommit, {RootCommit}, ParentOf)
  <2>1. ASSUME NEW f
        PROVE  [c \in Commits |-> {c} \cup (IF c = RootCommit THEN {} ELSE f[ParentOf[c]])]
                  = ChainStep(f, Commits, RootCommit, {RootCommit}, ParentOf)
    BY DEF ChainStep
  <2> QED BY <2>1
<1>2. \E f : Equation(f)
  <2>1. \E f : f = ChainStep(f, Commits, RootCommit, {RootCommit}, ParentOf)
    BY ChainExists, CommitsFounded
  <2> QED BY <1>1, <2>1
<1>3. Lineage = CHOOSE f : Equation(f)
  BY DEF Lineage
<1> HIDE DEF Equation
<1>4. Equation(Lineage)
  BY <1>2, <1>3
<1> QED BY <1>1, <1>4

\* A commit's ancestors: itself, its parent's ancestors, and theirs.
LEMMA LineageOf ==
    ASSUME NEW c \in Commits
    PROVE  /\ c \in Lineage[c] /\ Lineage[c] \subseteq Commits
           /\ c # RootCommit =>
                 ParentOf[c] \in Commits /\ Lineage[c] = {c} \cup Lineage[ParentOf[c]]
           /\ \A b \in Lineage[c] : Lineage[b] \subseteq Lineage[c]
<1>1. ASSUME NEW x \in Commits
      PROVE  Lineage[x] = IF x = RootCommit THEN {RootCommit} ELSE {x} \cup Lineage[ParentOf[x]]
  BY LineageIs DEF ChainStep
<1>2. \A x \in Commits \ {RootCommit} : ParentOf[x] \in Commits
  BY CommitAssumption
<1>5. ASSUME NEW S, ClosedUnder(S, Commits, RootCommit, ParentOf), RootCommit \in S, c \in S
      PROVE  Lineage[c] \subseteq S
  <2> DEFINE top == {RootCommit}
  <2>1. top \subseteq {RootCommit}
    OBVIOUS
  <2>2. Lineage = ChainStep(Lineage, Commits, RootCommit, top, ParentOf)
    BY LineageIs
  <2> HIDE DEF top
  <2>3. Lineage[c] \subseteq (S \ {RootCommit}) \cup top
    BY <1>5, <2>1, <2>2, ChainIsLeast, CommitsFounded
  <2> QED BY <1>5, <2>3 DEF top
<1>6. RootCommit \in Commits
  BY CommitAssumption
<1>7. Lineage[c] \subseteq Commits
  <2>1. ClosedUnder(Commits, Commits, RootCommit, ParentOf)
    BY <1>2 DEF ClosedUnder
  <2> QED BY <1>5, <1>6, <2>1
<1>8. \A b \in Lineage[c] : Lineage[b] \subseteq Lineage[c]
  <2> DEFINE S == {x \in Commits : Lineage[x] \subseteq Lineage[c]}
  <2>1. ASSUME NEW x \in S, x # RootCommit PROVE ParentOf[x] \in S
    BY <1>1, <1>2, <2>1
  <2>2. ClosedUnder(S \cup {RootCommit}, Commits, RootCommit, ParentOf)
    BY <1>6, <2>1 DEF ClosedUnder
  <2>3. c \in S
    OBVIOUS
  <2>4. Lineage[c] \subseteq S \cup {RootCommit}
    BY <1>5, <2>2, <2>3
  <2>5. Lineage[RootCommit] = {RootCommit}
    BY <1>1, <1>6
  <2> QED BY <2>4, <2>5
<1> QED BY <1>1, <1>2, <1>7, <1>8

\* Being an ancestor is reflexive and transitive.
LEMMA AncestorsCompose ==
    ASSUME NEW b \in Commits, NEW c \in Commits, IsAncestor(b, c)
    PROVE  \A a : IsAncestor(a, b) => IsAncestor(a, c)
BY LineageOf DEF IsAncestor

FileStatuses == {"none", "proposed", "applied", "pushed"}
CallRow == [at : {"propose", "merge", "merged", "push", "pushed"}, of : Proposals]

IntegratorTyped ==
    /\ local \in Commits /\ origin \in Commits
    /\ proposal \in [Proposals -> FileStatuses]
    /\ call \in [Integrators -> {NoCall} \cup CallRow]

\* Every commit of a history is reviewed or made by people.
AllReviewed(history) == \A c \in history \ (ByHand \cup {RootCommit}) : Reviewed(c)

\* What an integrator in the middle of a call may rely on.
CallSound(i) ==
    /\ call[i].at = "merge" =>
          /\ Of(i).review = "approve" /\ proposal[Of(i)] # "none"
          /\ AllReviewed(Lineage[Of(i).base])
    /\ call[i].at = "push" => IsAncestor(Of(i).candidate, local)
    /\ call[i].at = "pushed" => IsAncestor(Of(i).candidate, origin)

IntegratorInv ==
    /\ IntegratorTyped
    /\ AllReviewed(Lineage[local]) /\ AllReviewed(Lineage[origin])
    /\ \A p \in Proposals :
          /\ proposal[p] = "applied" => IsAncestor(p.candidate, local)
          /\ proposal[p] = "pushed" => IsAncestor(p.candidate, origin)
    /\ \A i \in Integrators : CallSound(i)

\* The histories grow, and a proposal that was written stays.
Onward ==
    /\ local' \in Commits /\ IsAncestor(local, local')
    /\ origin' \in Commits /\ IsAncestor(origin, origin')
    /\ proposal' \in [Proposals -> FileStatuses]
    /\ \A p \in Proposals : proposal[p] # "none" => proposal'[p] # "none"

\* What was reviewed stays so, and what was merged or pushed stays in its branch.
LEMMA OnwardKeeps ==
    ASSUME IntegratorInv, Onward
    PROVE  /\ \A history : AllReviewed(history) => AllReviewed(history)'
           /\ \A c : IsAncestor(c, local) => IsAncestor(c, local')
           /\ \A c : IsAncestor(c, origin) => IsAncestor(c, origin')
<1>1. \A c : Reviewed(c) => Reviewed(c)'
  BY DEF Onward, Reviewed
<1>2. \A history : AllReviewed(history) => AllReviewed(history)'
  BY <1>1 DEF AllReviewed
<1> QED BY <1>2, AncestorsCompose DEF Onward, IntegratorInv, IntegratorTyped

\* A step keeps the invariant if it is onward, if what it adds to the histories
\* is reviewed, and if what it newly claims is true.
LEMMA OnwardSteps ==
    ASSUME IntegratorInv, Onward,
           AllReviewed(Lineage[local])', AllReviewed(Lineage[origin])',
           \A p \in Proposals : proposal'[p] = "applied" =>
              proposal[p] = "applied" \/ IsAncestor(p.candidate, local'),
           \A p \in Proposals : proposal'[p] = "pushed" =>
              proposal[p] = "pushed" \/ IsAncestor(p.candidate, origin'),
           call' \in [Integrators -> {NoCall} \cup CallRow],
           \A k \in Integrators : call'[k] = call[k] \/ CallSound(k)'
    PROVE  IntegratorInv'
<1>1. IntegratorTyped'
  BY DEF Onward, IntegratorTyped
<1>2. ASSUME NEW k \in Integrators PROVE CallSound(k)'
  <2>1. CASE call'[k] = call[k]
    <3>1. CallSound(k) /\ call[k] \in {NoCall} \cup CallRow
      BY DEF IntegratorInv, IntegratorTyped
    <3>2. call[k].at = "merge" => call[k].of \in Proposals
      BY <3>1 DEF NoCall, CallRow
    <3> QED BY <2>1, <3>1, <3>2, OnwardKeeps DEF CallSound, Of, Onward
  <2> QED BY <2>1
<1>3. ASSUME NEW p \in Proposals
      PROVE  /\ proposal'[p] = "applied" => IsAncestor(p.candidate, local')
             /\ proposal'[p] = "pushed" => IsAncestor(p.candidate, origin')
  BY OnwardKeeps DEF IntegratorInv
<1> QED BY <1>1, <1>2, <1>3 DEF IntegratorInv

\* A step of integrator i that leaves the branch and its origin alone.
LEMMA CallMoves ==
    ASSUME IntegratorInv, UNCHANGED <<local, origin>>,
           proposal' \in [Proposals -> FileStatuses],
           \A p \in Proposals : proposal[p] # "none" => proposal'[p] # "none",
           \A p \in Proposals : proposal'[p] = "applied" =>
              proposal[p] = "applied" \/ IsAncestor(p.candidate, local),
           \A p \in Proposals : proposal'[p] = "pushed" =>
              proposal[p] = "pushed" \/ IsAncestor(p.candidate, origin),
           NEW i \in Integrators, NEW row \in {NoCall} \cup CallRow,
           call' = [call EXCEPT ![i] = row],
           CallSound(i)'
    PROVE  IntegratorInv'
<1>1. Onward
  BY LineageOf DEF Onward, IntegratorInv, IntegratorTyped, IsAncestor
<1>2. AllReviewed(Lineage[local])' /\ AllReviewed(Lineage[origin])'
  BY <1>1, OnwardKeeps DEF IntegratorInv
<1>3. call' \in [Integrators -> {NoCall} \cup CallRow]
  BY DEF IntegratorInv, IntegratorTyped
<1>4. \A k \in Integrators : call'[k] = call[k] \/ CallSound(k)'
  BY DEF IntegratorInv, IntegratorTyped
<1> QED BY <1>1, <1>2, <1>3, <1>4, OnwardSteps

\* What the three ways to change a call put in its place.
LEMMA CallChanges ==
    ASSUME IntegratorTyped, NEW i \in Integrators
    PROVE  /\ \A place \in {"propose", "merge", "push"}, p \in Proposals :
                 Enter(i, place, p) =>
                    /\ [at |-> place, of |-> p] \in CallRow
                    /\ call' = [call EXCEPT ![i] = [at |-> place, of |-> p]]
                    /\ call'[i].at = place /\ call'[i].of = p
           /\ \A place \in {"merged", "pushed"} :
                 GoTo(i, place) /\ call[i].at \in {"merge", "push"} =>
                    /\ call[i] \in CallRow
                    /\ [at |-> place, of |-> call[i].of] \in CallRow
                    /\ call' = [call EXCEPT ![i] = [at |-> place, of |-> call[i].of]]
                    /\ call'[i].at = place /\ call'[i].of = call[i].of
           /\ Leave(i) => call' = [call EXCEPT ![i] = NoCall] /\ call'[i].at = "idle"
<1>1. call[i] \in {NoCall} \cup CallRow
  BY DEF IntegratorTyped
<1>2. ASSUME NEW place \in {"propose", "merge", "push"}, NEW p \in Proposals, Enter(i, place, p)
      PROVE  /\ [at |-> place, of |-> p] \in CallRow
             /\ call' = [call EXCEPT ![i] = [at |-> place, of |-> p]]
             /\ call'[i].at = place /\ call'[i].of = p
  BY <1>2 DEF Enter, CallRow, IntegratorTyped
<1>3. ASSUME NEW place \in {"merged", "pushed"}, GoTo(i, place), call[i].at \in {"merge", "push"}
      PROVE  /\ call[i] \in CallRow
             /\ [at |-> place, of |-> call[i].of] \in CallRow
             /\ call' = [call EXCEPT ![i] = [at |-> place, of |-> call[i].of]]
             /\ call'[i].at = place /\ call'[i].of = call[i].of
  <2>1. call[i] \in CallRow
    BY <1>1, <1>3 DEF NoCall
  <2>2. /\ [call[i] EXCEPT !.at = place] = [at |-> place, of |-> call[i].of]
        /\ [at |-> place, of |-> call[i].of] \in CallRow
    BY <2>1 DEF CallRow
  <2>3. call' = [call EXCEPT ![i] = [at |-> place, of |-> call[i].of]]
    BY <1>3, <2>2 DEF GoTo, IntegratorTyped
  <2> QED BY <2>1, <2>2, <2>3 DEF IntegratorTyped
<1>4. Leave(i) => call' = [call EXCEPT ![i] = NoCall] /\ call'[i].at = "idle"
  BY DEF Leave, NoCall, IntegratorTyped
<1> QED BY <1>2, <1>3, <1>4

\* Proposals are of commits and of a review, and their commits exist.
LEMMA ProposalFields ==
    ASSUME NEW p \in Proposals
    PROVE  p.base \in Commits /\ p.candidate \in Commits /\ p.candidate \notin ByHand
BY DEF Proposals

\* Leaving a call keeps the invariant, whatever is written that is true.
LEMMA LeaveKeeps ==
    ASSUME IntegratorInv, UNCHANGED <<local, origin>>, NEW i \in Integrators, Leave(i),
           proposal' \in [Proposals -> FileStatuses],
           \A p \in Proposals : proposal[p] # "none" => proposal'[p] # "none",
           \A p \in Proposals : proposal'[p] = "applied" =>
              proposal[p] = "applied" \/ IsAncestor(p.candidate, local),
           \A p \in Proposals : proposal'[p] = "pushed" =>
              proposal[p] = "pushed" \/ IsAncestor(p.candidate, origin)
    PROVE  IntegratorInv'
<1>1. call' = [call EXCEPT ![i] = NoCall] /\ call'[i].at = "idle"
  BY CallChanges DEF IntegratorInv
<1>2. CallSound(i)'
  BY <1>1 DEF CallSound
<1> QED BY <1>1, <1>2, CallMoves

\* Entering a call, or going on in one, keeps the invariant.
LEMMA EnterKeeps ==
    ASSUME IntegratorInv, UNCHANGED <<local, origin, proposal>>, NEW i \in Integrators,
           NEW row \in CallRow, call' = [call EXCEPT ![i] = row], CallSound(i)'
    PROVE  IntegratorInv'
BY CallMoves DEF IntegratorInv, IntegratorTyped

\* git merge --ff-only moves the branch only to what a review covers.
LEMMA MergeKeeps ==
    ASSUME IntegratorInv, NEW i \in Integrators, Merge(i)
    PROVE  IntegratorInv'
<1> DEFINE p == call[i].of
<1>0. /\ IntegratorTyped /\ call[i].at = "merge" /\ call[i] \in CallRow /\ p \in Proposals
      /\ p.base \in Commits /\ p.candidate \in Commits
  <2>1. call[i] \in CallRow
    BY DEF IntegratorInv, IntegratorTyped, Merge, NoCall
  <2>2. p \in Proposals
    BY <2>1 DEF CallRow
  <2> QED BY <2>1, <2>2, ProposalFields DEF IntegratorInv, Merge
<1>1. UNCHANGED <<origin, proposal>>
  BY DEF Merge
<1>2. /\ p.review = "approve" /\ proposal[p] # "none" /\ AllReviewed(Lineage[p.base])
  BY <1>0 DEF IntegratorInv, CallSound, Of
<1>3. CASE IsAncestor(local, p.candidate) /\ local' = p.candidate /\ GoTo(i, "merged")
  <2>1. Onward
    BY <1>0, <1>1, <1>3, LineageOf DEF Onward, IsAncestor, IntegratorTyped
  <2>2. \A c \in Lineage[p.candidate] \ Lineage[p.base] : Reviewed(c)
    BY <1>0, <1>2 DEF Reviewed
  <2>3. AllReviewed(Lineage[p.candidate])
    BY <1>2, <2>2 DEF AllReviewed
  <2>4. AllReviewed(Lineage[local])' /\ AllReviewed(Lineage[origin])'
    BY <1>1, <1>3, <2>1, <2>3, OnwardKeeps DEF IntegratorInv
  <2>5. /\ call' = [call EXCEPT ![i] = [at |-> "merged", of |-> p]]
        /\ [at |-> "merged", of |-> p] \in CallRow
        /\ call'[i].at = "merged"
    BY <1>0, <1>3, CallChanges
  <2>6. CallSound(i)'
    BY <2>5 DEF CallSound
  <2>7. call' \in [Integrators -> {NoCall} \cup CallRow]
    BY <1>0, <2>5 DEF IntegratorTyped
  <2>8. \A k \in Integrators : call'[k] = call[k] \/ CallSound(k)'
    BY <1>0, <2>5, <2>6 DEF IntegratorTyped
  <2> QED BY <1>1, <2>1, <2>4, <2>7, <2>8, OnwardSteps
<1>4. CASE UNCHANGED local /\ GoTo(i, "merged")
  <2>1. /\ call' = [call EXCEPT ![i] = [at |-> "merged", of |-> p]]
        /\ [at |-> "merged", of |-> p] \in CallRow
        /\ call'[i].at = "merged"
    BY <1>0, <1>4, CallChanges
  <2>2. CallSound(i)'
    BY <2>1 DEF CallSound
  <2> QED BY <1>1, <1>4, <2>1, <2>2, EnterKeeps
<1>5. CASE UNCHANGED local /\ Leave(i)
  BY <1>0, <1>1, <1>5, LeaveKeeps DEF IntegratorTyped
<1> QED BY <1>3, <1>4, <1>5 DEF Merge, Of

\* git push moves the origin only to what the branch holds, even when it fails.
LEMMA PushKeeps ==
    ASSUME IntegratorInv, NEW i \in Integrators, GitPush(i) \/ GitPushFails(i)
    PROVE  IntegratorInv'
<1> DEFINE p == call[i].of
<1>0. /\ IntegratorTyped /\ call[i].at = "push" /\ call[i] \in CallRow /\ p \in Proposals
      /\ IsAncestor(p.candidate, local) /\ UNCHANGED <<local, proposal>>
  <2>1. call[i] \in CallRow
    BY DEF IntegratorInv, IntegratorTyped, GitPush, GitPushFails, NoCall
  <2>2. p \in Proposals
    BY <2>1 DEF CallRow
  <2> QED BY <2>1, <2>2 DEF IntegratorInv, CallSound, Of, GitPush, GitPushFails
<1>1. CASE UNCHANGED origin /\ Leave(i)
  BY <1>0, <1>1, LeaveKeeps DEF IntegratorTyped
<1>2. CASE IsAncestor(origin, local) /\ origin' = local /\ (GoTo(i, "pushed") \/ Leave(i))
  <2>1. Onward
    BY <1>0, <1>2, LineageOf DEF Onward, IsAncestor, IntegratorTyped
  <2>2. AllReviewed(Lineage[local])' /\ AllReviewed(Lineage[origin])'
    BY <1>0, <1>2, <2>1, OnwardKeeps DEF IntegratorInv
  <2>3. \E row \in {NoCall} \cup CallRow : call' = [call EXCEPT ![i] = row]
    BY <1>0, <1>2, CallChanges
  <2>4. CallSound(i)'
    <3>1. CASE GoTo(i, "pushed")
      <4>1. call'[i].at = "pushed" /\ call'[i].of = p
        BY <1>0, <3>1, CallChanges
      <4> QED BY <1>0, <1>2, <4>1 DEF CallSound, Of
    <3>2. CASE Leave(i)
      <4>1. call'[i].at = "idle"
        BY <1>0, <3>2, CallChanges
      <4> QED BY <4>1 DEF CallSound
    <3> QED BY <1>2, <3>1, <3>2
  <2>5. /\ call' \in [Integrators -> {NoCall} \cup CallRow]
        /\ \A k \in Integrators : call'[k] = call[k] \/ CallSound(k)'
    BY <1>0, <2>3, <2>4 DEF IntegratorTyped
  <2> QED BY <1>0, <2>1, <2>2, <2>5, OnwardSteps
<1> QED BY <1>1, <1>2 DEF GitPush, GitPushFails

\* A commit by people, on the branch or on its origin.
LEMMA ByHandKeeps ==
    ASSUME IntegratorInv, NEW c \in ByHand, CommitByHand(c) \/ UpstreamByHand(c)
    PROVE  IntegratorInv'
<1>0. c \in Commits /\ c # RootCommit /\ Lineage[c] = {c} \cup Lineage[ParentOf[c]]
  BY LineageOf, CommitAssumption
<1>1. Onward
  BY <1>0, LineageOf
     DEF Onward, IsAncestor, CommitByHand, UpstreamByHand, IntegratorInv, IntegratorTyped
<1>2. UNCHANGED <<proposal, call>>
  BY DEF CommitByHand, UpstreamByHand
<1>3. \A history : AllReviewed(history) => AllReviewed(history \cup {c})
  BY DEF AllReviewed
<1>4. AllReviewed(Lineage[local])' /\ AllReviewed(Lineage[origin])'
  <2>1. \/ local' = c /\ ParentOf[c] = local /\ origin' = origin
        \/ origin' = c /\ ParentOf[c] = origin /\ local' = local
    BY DEF CommitByHand, UpstreamByHand
  <2>2. AllReviewed(Lineage[local']) /\ AllReviewed(Lineage[origin'])
    BY <1>0, <1>3, <2>1 DEF IntegratorInv
  <2> QED BY <1>1, <2>2, OnwardKeeps
<1> QED BY <1>1, <1>2, <1>4, OnwardSteps DEF IntegratorInv, IntegratorTyped

\* The other steps of an integrator, which change neither branch nor origin.
LEMMA IntegratorStep ==
    ASSUME IntegratorInv, NEW i \in Integrators,
           \/ \E p \in Proposals : Propose(i, p) \/ ApplyLocal(i, p) \/ Push(i, p)
           \/ WriteProposal(i) \/ RecordApplied(i) \/ RecordPushed(i) \/ IntegratorDies(i)
    PROVE  IntegratorInv'
<1>0. IntegratorTyped /\ CallSound(i)
  BY DEF IntegratorInv
<1>1. ASSUME NEW p \in Proposals, Propose(i, p) PROVE IntegratorInv'
  <2>1. /\ [at |-> "propose", of |-> p] \in CallRow
        /\ call' = [call EXCEPT ![i] = [at |-> "propose", of |-> p]]
        /\ call'[i].at = "propose"
    BY <1>0, <1>1, CallChanges DEF Propose
  <2>2. CallSound(i)'
    BY <2>1 DEF CallSound
  <2> QED BY <1>1, <2>1, <2>2, EnterKeeps DEF Propose
<1>2. ASSUME NEW p \in Proposals, ApplyLocal(i, p) PROVE IntegratorInv'
  <2>1. /\ [at |-> "merge", of |-> p] \in CallRow
        /\ call' = [call EXCEPT ![i] = [at |-> "merge", of |-> p]]
        /\ call'[i].at = "merge" /\ call'[i].of = p
    BY <1>0, <1>2, CallChanges DEF ApplyLocal
  <2>2. /\ p.review = "approve" /\ proposal[p] # "none" /\ AllReviewed(Lineage[p.base])
        /\ UNCHANGED <<local, origin, proposal>>
    BY <1>2 DEF ApplyLocal, IntegratorInv
  <2>3. AllReviewed(Lineage[p.base])'
    BY <2>2 DEF AllReviewed, Reviewed
  <2>4. CallSound(i)'
    BY <2>1, <2>2, <2>3 DEF CallSound, Of
  <2> QED BY <2>1, <2>2, <2>4, EnterKeeps
<1>3. ASSUME NEW p \in Proposals, Push(i, p) PROVE IntegratorInv'
  <2>1. /\ [at |-> "push", of |-> p] \in CallRow
        /\ call' = [call EXCEPT ![i] = [at |-> "push", of |-> p]]
        /\ call'[i].at = "push" /\ call'[i].of = p
    BY <1>0, <1>3, CallChanges DEF Push
  <2>2. IsAncestor(p.candidate, local) /\ UNCHANGED <<local, origin, proposal>>
    BY <1>3 DEF Push, IntegratorInv
  <2>3. CallSound(i)'
    BY <2>1, <2>2 DEF CallSound, Of
  <2> QED BY <2>1, <2>2, <2>3, EnterKeeps
<1>4. CASE WriteProposal(i)
  <2>1. /\ proposal' = [proposal EXCEPT ![Of(i)] = IF @ = "none" THEN "proposed" ELSE @]
        /\ Leave(i) /\ UNCHANGED <<local, origin>>
    BY <1>4 DEF WriteProposal
  <2>2. /\ proposal' \in [Proposals -> FileStatuses]
        /\ \A p \in Proposals : proposal'[p] # proposal[p] => proposal'[p] = "proposed"
    BY <1>0, <2>1 DEF IntegratorTyped, FileStatuses
  <2> QED BY <2>1, <2>2, LeaveKeeps
<1>5. CASE RecordApplied(i)
  <2>1. /\ proposal' = IF local = Of(i).candidate THEN [proposal EXCEPT ![Of(i)] = "applied"]
                       ELSE proposal
        /\ Leave(i) /\ UNCHANGED <<local, origin>>
    BY <1>5 DEF RecordApplied
  <2>2. /\ proposal' \in [Proposals -> FileStatuses]
        /\ \A p \in Proposals : proposal'[p] # proposal[p] =>
              proposal'[p] = "applied" /\ p.candidate = local
    BY <1>0, <2>1 DEF IntegratorTyped, FileStatuses
  <2>3. IsAncestor(local, local)
    BY <1>0, LineageOf DEF IsAncestor, IntegratorTyped
  <2> QED BY <2>1, <2>2, <2>3, LeaveKeeps
<1>6. CASE RecordPushed(i)
  <2>1. /\ proposal' = [proposal EXCEPT ![Of(i)] = "pushed"]
        /\ Leave(i) /\ UNCHANGED <<local, origin>>
        /\ IsAncestor(Of(i).candidate, origin)
    BY <1>0, <1>6 DEF RecordPushed, CallSound
  <2>2. /\ proposal' \in [Proposals -> FileStatuses]
        /\ \A p \in Proposals : proposal'[p] # proposal[p] =>
              proposal'[p] = "pushed" /\ p = Of(i)
    BY <1>0, <2>1 DEF IntegratorTyped, FileStatuses
  <2> QED BY <2>1, <2>2, LeaveKeeps
<1>7. CASE IntegratorDies(i)
  BY <1>0, <1>7, LeaveKeeps DEF IntegratorDies, IntegratorTyped
<1> QED BY <1>1, <1>2, <1>3, <1>4, <1>5, <1>6, <1>7

\* OriginIsReviewed for every history of commits, every set of proposals and any
\* number of integrators that race or die beside people who commit by hand: what
\* _is_ancestor and the fast-forward merges check keeps unreviewed work out.
THEOREM OriginStaysReviewed == IntegratorSpec => []OriginIsReviewed
<1>1. IntegratorInit => IntegratorInv
  <2> SUFFICES ASSUME IntegratorInit PROVE IntegratorInv
    OBVIOUS
  <2>1. IntegratorTyped
    BY CommitAssumption DEF IntegratorInit, IntegratorTyped, FileStatuses
  <2>2. Lineage[RootCommit] = {RootCommit}
    BY LineageIs, CommitAssumption DEF ChainStep
  <2>3. \A i \in Integrators : call[i].at = "idle"
    BY DEF IntegratorInit, NoCall
  <2> QED BY <2>1, <2>2, <2>3 DEF IntegratorInit, IntegratorInv, AllReviewed, CallSound
<1>2. IntegratorInv /\ [IntegratorNext]_integratorVars => IntegratorInv'
  <2> SUFFICES ASSUME IntegratorInv, [IntegratorNext]_integratorVars PROVE IntegratorInv'
    OBVIOUS
  <2>1. CASE UNCHANGED integratorVars
    BY <2>1 DEF integratorVars, IntegratorInv, IntegratorTyped, AllReviewed, Reviewed,
                CallSound, Of
  <2> QED BY <2>1, ByHandKeeps, MergeKeeps, PushKeeps, IntegratorStep DEF IntegratorNext
<1>3. IntegratorInv => OriginIsReviewed
  BY DEF IntegratorInv, AllReviewed, OriginIsReviewed
<1> QED BY <1>1, <1>2, <1>3, PTL DEF IntegratorSpec

-----------------------------------------------------------------------------
(* PackageStore *)

\* A set of numbers up to n has a greatest one.
LEMMA GreatestUpTo ==
    ASSUME NEW n \in Nat, NEW T \in SUBSET (0..n), T # {}
    PROVE  \E x \in T : \A y \in T : y <= x
<1> DEFINE gaps == {n - x : x \in T}
<1>1. gaps \in SUBSET Nat /\ gaps # {}
  <2>1. \A x \in T : x \in 0..n
    OBVIOUS
  <2>2. \A x \in T : n - x \in Nat
    BY <2>1
  <2> QED BY <2>2
<1>2. PICK least \in gaps : \A m \in gaps : least <= m
  BY <1>1, LeastNat
<1>3. PICK x \in T : least = n - x
  OBVIOUS
<1>4. ASSUME NEW y \in T PROVE y <= x
  <2>1. n - y \in gaps
    OBVIOUS
  <2>2. n - x <= n - y
    BY <1>2, <1>3, <2>1
  <2> QED BY <2>2
<1> QED BY <1>4

LockRow == [written : BOOLEAN, pins : SUBSET Coords, previous : 0..MaxGenerations]
MutationRow ==
    [step : {"idle", "stale", "release", "publish", "lock", "remove", "active"},
     coord : Coords \cup {<<>>}, pins : SUBSET Coords, generation : 0..MaxGenerations]

\* A generation follows the one that was in force when it was written.
PackageTyped ==
    /\ installed \in [Coords -> {"absent", "intact", "partial"}]
    /\ locks \in [Generations -> LockRow]
    /\ \A g \in Generations : locks[g].previous < g
    /\ current \in 0..MaxGenerations
    /\ mutation \in MutationRow

\* What is closed under the predecessors of its generations.
Backward(S) ==
    S \subseteq Generations /\ \A g \in S : locks[g].previous \in S \cup {0}

\* Committed holds the generations from the one in force back to the first,
\* and no other.
CommittedFacts ==
    /\ Backward(Committed)
    /\ current \in Committed \cup {0}
    /\ \A S : Backward(S) /\ current \in S \cup {0} => Committed \subseteq S

LEMMA CommittedIs == PackageTyped => CommittedFacts
<1> SUFFICES ASSUME PackageTyped PROVE CommittedFacts
  OBVIOUS
<1> DEFINE D == 0..MaxGenerations
           prev == [g \in Generations |-> locks[g].previous]
           Equation(f) == f = [g \in 0..MaxGenerations |->
               IF g = 0 THEN {} ELSE {g} \cup f[locks[g].previous]]
           back == CHOOSE f : Equation(f)
<1>0. MaxGenerations \in Nat /\ Generations = D \ {0}
  BY PackageAssumption DEF Generations
<1>1. \A g \in D \ {0} : prev[g] = locks[g].previous /\ prev[g] \in D /\ prev[g] < g
  BY <1>0 DEF PackageTyped, LockRow
<1>2. Founded(D, 0, prev)
  <2>1. [g \in D |-> g] \in [D -> Nat]
    BY <1>0
  <2>2. \A g \in D \ {0} : [d \in D |-> d][prev[g]] < [d \in D |-> d][g]
    BY <1>1
  <2>3. 0 \in D
    BY <1>0
  <2> QED BY <1>1, <2>1, <2>2, <2>3 DEF Founded
<1>3. \A f : Equation(f) <=> f = ChainStep(f, D, 0, {}, prev)
  <2>1. ASSUME NEW f
        PROVE  [g \in 0..MaxGenerations |-> IF g = 0 THEN {} ELSE {g} \cup f[locks[g].previous]]
                  = ChainStep(f, D, 0, {}, prev)
    BY <1>1 DEF ChainStep
  <2> QED BY <2>1
<1>4. Committed = back[current]
  BY DEF Committed
<1> HIDE DEF Equation, D, prev
<1>5. \E f : Equation(f)
  <2>1. \E f : f = ChainStep(f, D, 0, {}, prev)
    BY <1>2, ChainExists
  <2> QED BY <1>3, <2>1
<1>6. back = ChainStep(back, D, 0, {}, prev)
  <2>1. Equation(back) BY <1>5
  <2> QED BY <1>3, <2>1
<1> HIDE DEF back
<1>7. current \in D
  BY DEF PackageTyped, D
<1>8. ASSUME NEW g \in D
      PROVE  back[g] = IF g = 0 THEN {} ELSE {g} \cup back[prev[g]]
  BY <1>6 DEF ChainStep
<1>9. ASSUME NEW S, Backward(S), NEW g \in S \cup {0}
      PROVE  back[g] \subseteq S
  <2> DEFINE top == {}
             T == S \cup {0}
  <2>1. ClosedUnder(T, D, 0, prev) /\ g \in T
    BY <1>0, <1>1, <1>2, <1>9 DEF ClosedUnder, Backward, Founded
  <2>2. top \subseteq {0}
    OBVIOUS
  <2>3. back = ChainStep(back, D, 0, top, prev)
    BY <1>6
  <2> HIDE DEF top, T
  <2>4. back[g] \subseteq (T \ {0}) \cup top
    BY <1>2, <2>1, <2>2, <2>3, ChainIsLeast
  <2> QED BY <2>4 DEF top, T
<1>10. ASSUME NEW g \in D
       PROVE  back[g] \subseteq Generations /\ \A x \in back[g] : back[x] \subseteq back[g]
  <2> DEFINE S == {x \in Generations : back[x] \subseteq back[g]}
  <2>1. Backward(Generations)
    BY <1>0, <1>1 DEF Backward
  <2>2. back[g] \subseteq Generations
    BY <1>0, <1>9, <2>1
  <2>3. ASSUME NEW x \in S PROVE locks[x].previous \in S \cup {0}
    BY <1>0, <1>1, <1>8
  <2>4. Backward(S)
    BY <2>3 DEF Backward
  <2>5. g \in S \cup {0}
    BY <1>0
  <2>6. back[g] \subseteq S
    BY <1>9, <2>4, <2>5
  <2> QED BY <2>2, <2>6
<1>11. Backward(Committed)
  <2>1. ASSUME NEW g \in Committed PROVE locks[g].previous \in Committed \cup {0}
    <3>1. g \in Generations /\ g \in D /\ back[g] \subseteq Committed
      BY <1>0, <1>4, <1>7, <1>10, <2>1
    <3>2. prev[g] \in D /\ prev[g] = locks[g].previous /\ back[prev[g]] \subseteq back[g]
      BY <1>0, <1>1, <1>8, <3>1
    <3>3. prev[g] # 0 => prev[g] \in back[prev[g]]
      BY <1>8, <3>2
    <3> QED BY <3>1, <3>2, <3>3
  <2> QED BY <1>4, <1>7, <1>10, <2>1 DEF Backward
<1>12. current \in Committed \cup {0}
  BY <1>4, <1>7, <1>8
<1> QED BY <1>4, <1>9, <1>11, <1>12 DEF CommittedFacts

\* The same of the next state.
LEMMA CommittedIsNext == PackageTyped' => CommittedFacts'
BY CommittedIs, PTL


\* What may be restored: written, closed and acyclic, and installed whole.
GenerationReady(g) ==
    /\ locks[g].written
    /\ Satisfied(locks[g].pins)
    /\ \A c \in locks[g].pins : installed[c] = "intact"

\* What a mutation may rely on between its steps.
MutationSound ==
    /\ mutation.step # "active" => mutation.generation = 0
    /\ mutation.step \in {"publish", "remove"} => mutation.coord \in Coords
    /\ mutation.step = "remove" => \A g \in Committed : mutation.coord \notin locks[g].pins
    /\ mutation.step = "active" =>
          /\ mutation.generation \in Generations \ Committed
          /\ GenerationReady(mutation.generation)
          /\ locks[mutation.generation].previous = current

PackageInv ==
    /\ PackageTyped
    /\ \A g \in Committed : GenerationReady(g)
    /\ MutationSound

\* Steps that write neither a lock file nor active-v1.json keep the invariant,
\* if they leave what committed generations pin whole.
LEMMA SameGenerations ==
    ASSUME PackageInv, UNCHANGED <<locks, current>>,
           installed' \in [Coords -> {"absent", "intact", "partial"}],
           \A g \in Committed : \A c \in locks[g].pins : installed'[c] = installed[c],
           mutation' \in MutationRow, mutation'.step # "active", mutation'.generation = 0,
           mutation'.step \in {"publish", "remove"} => mutation'.coord \in Coords,
           mutation'.step = "remove" => \A g \in Committed : mutation'.coord \notin locks[g].pins
    PROVE  PackageInv'
<1>1. PackageTyped'
  BY DEF PackageInv, PackageTyped
<1>2. Committed' \subseteq Committed
  <2>1. CommittedFacts /\ CommittedFacts'
    BY <1>1, CommittedIs, CommittedIsNext DEF PackageInv
  <2>2. Backward(Committed) /\ current \in Committed \cup {0}
    BY <2>1 DEF CommittedFacts
  <2>3. \A S : Backward(S)' <=> Backward(S)
    BY DEF Backward
  <2>4. \A S : Backward(S)' /\ current' \in S \cup {0} => Committed' \subseteq S
    BY <2>1 DEF CommittedFacts
  <2> QED BY <2>2, <2>3, <2>4
<1>3. ASSUME NEW g \in Committed' PROVE GenerationReady(g)'
  BY <1>2 DEF PackageInv, GenerationReady
<1>4. MutationSound'
  BY <1>2 DEF MutationSound
<1> QED BY <1>1, <1>3, <1>4 DEF PackageInv


\* A mutation that has been begun or ended, with nothing written yet.
LEMMA BeginIs ==
    ASSUME NEW step \in {"publish", "lock", "remove", "release"},
           NEW coord \in Coords \cup {<<>>}, NEW pins \in SUBSET Coords,
           Begin(step, coord, pins)
    PROVE  /\ mutation' \in MutationRow
           /\ mutation'.step = step /\ mutation'.generation = 0
           /\ step # "release" => mutation'.coord = coord
<1>0. 0 \in 0..MaxGenerations
  BY PackageAssumption
<1>1. CASE step = "release"
  BY <1>0, <1>1 DEF Begin, Done, Idle, MutationRow
<1>2. CASE step # "release"
  BY <1>0, <1>2 DEF Begin, MutationRow
<1> QED BY <1>1, <1>2

\* The rows of a mutation that has ended, died or never begun.
LEMMA EndIs ==
    /\ Idle \in MutationRow /\ Stale \in MutationRow /\ Done \in MutationRow
    /\ Idle.step = "idle" /\ Stale.step = "stale" /\ Done.step = "release"
    /\ Idle.generation = 0 /\ Stale.generation = 0 /\ Done.generation = 0
<1>1. 0 \in 0..MaxGenerations
  BY PackageAssumption
<1> QED BY <1>1 DEF Idle, Stale, Done, MutationRow

\* Beginning a mutation that writes no files yet keeps the invariant.
LEMMA BeginKeeps ==
    ASSUME PackageInv, UNCHANGED <<locks, current>>,
           installed' \in [Coords -> {"absent", "intact", "partial"}],
           \A g \in Committed : \A c \in locks[g].pins : installed'[c] = installed[c],
           NEW step \in {"publish", "lock", "remove", "release"},
           NEW coord \in Coords \cup {<<>>}, NEW pins \in SUBSET Coords,
           Begin(step, coord, pins),
           step \in {"publish", "remove"} => coord \in Coords,
           step = "remove" => \A g \in Committed : coord \notin locks[g].pins
    PROVE  PackageInv'
BY BeginIs, SameGenerations

\* What is pinned are packages in versions.
LEMMA PinsAreCoords ==
    ASSUME PackageTyped
    PROVE  /\ ActivePins \subseteq Coords
           /\ \A c \in Coords : Updated(ActivePins, {c}) \subseteq Coords
           /\ \A pins \in SUBSET Coords : Updated(ActivePins, pins) \subseteq Coords
           /\ \A g \in Generations : locks[g].pins \subseteq Coords
           /\ current = 0 \/ current \in Generations
<1>1. \A g \in Generations : locks[g].pins \subseteq Coords
  BY DEF PackageTyped, LockRow
<1>2. current = 0 \/ current \in Generations
  BY PackageAssumption DEF PackageTyped, Generations
<1>3. ActivePins \subseteq Coords
  BY <1>1, <1>2 DEF ActivePins
<1> QED BY <1>1, <1>2, <1>3 DEF Updated

\* The checks made before anything is written leave the invariant alone.
LEMMA MutationsBegin ==
    ASSUME PackageInv,
           \/ \E c \in Coords, a \in BOOLEAN : Install(c, a)
           \/ \E pins \in SUBSET Coords, r \in BOOLEAN : ActivatePins(pins, r)
           \/ \E g \in Generations : Rollback(g)
           \/ \E c \in Coords : Uninstall(c)
    PROVE  PackageInv'
<1>0. /\ PackageTyped /\ CommittedFacts
      /\ installed \in [Coords -> {"absent", "intact", "partial"}]
  BY CommittedIs DEF PackageInv, PackageTyped
<1>1. ASSUME NEW c \in Coords, NEW a \in BOOLEAN, Install(c, a) PROVE PackageInv'
  <2> DEFINE step == IF installed[c] = "absent" THEN "publish"
                     ELSE IF a /\ c \notin ActivePins THEN "lock" ELSE "release"
             coord == IF installed[c] = "absent" THEN c ELSE <<>>
             pins == IF a THEN Updated(ActivePins, {c}) ELSE ActivePins
  <2>1. Begin(step, coord, pins) /\ UNCHANGED <<installed, locks, current>>
    BY <1>1 DEF Install
  <2>2. /\ step \in {"publish", "lock", "remove", "release"} /\ step # "remove"
        /\ coord \in Coords \cup {<<>>}
        /\ step \in {"publish", "remove"} => coord \in Coords
    OBVIOUS
  <2>3. pins \in SUBSET Coords
    BY <1>0, PinsAreCoords
  <2> HIDE DEF step, coord, pins
  <2> QED BY <1>0, <2>1, <2>2, <2>3, BeginKeeps
<1>2. ASSUME NEW pins \in SUBSET Coords, NEW r \in BOOLEAN, ActivatePins(pins, r)
      PROVE PackageInv'
  <2> DEFINE next == IF r THEN pins ELSE Updated(ActivePins, pins)
  <2>1. Begin("lock", <<>>, next) /\ UNCHANGED <<installed, locks, current>>
    BY <1>2 DEF ActivatePins
  <2>2. next \in SUBSET Coords
    BY <1>0, PinsAreCoords
  <2> HIDE DEF next
  <2> QED BY <1>0, <2>1, <2>2, BeginKeeps
<1>3. ASSUME NEW g \in Generations, Rollback(g) PROVE PackageInv'
  <2>1. Begin("lock", <<>>, locks[g].pins) /\ UNCHANGED <<installed, locks, current>>
    BY <1>3 DEF Rollback
  <2>2. locks[g].pins \in SUBSET Coords
    BY <1>0, PinsAreCoords
  <2> QED BY <1>0, <2>1, <2>2, BeginKeeps
<1>4. ASSUME NEW c \in Coords, Uninstall(c) PROVE PackageInv'
  <2>1. /\ Begin("remove", c, ActivePins) /\ UNCHANGED <<installed, locks, current>>
        /\ \A g \in Committed : c \notin locks[g].pins
    BY <1>4 DEF Uninstall
  <2>2. ActivePins \in SUBSET Coords
    BY <1>0, PinsAreCoords
  <2> QED BY <1>0, <2>1, <2>2, BeginKeeps
<1> QED BY <1>1, <1>2, <1>3, <1>4

\* Package files come whole, and go only when no committed generation pins them.
LEMMA FilesChange ==
    ASSUME PackageInv, Publish \/ RemoveFiles
    PROVE  PackageInv'
<1>0. /\ PackageTyped /\ CommittedFacts /\ MutationSound
      /\ installed \in [Coords -> {"absent", "intact", "partial"}]
      /\ mutation \in MutationRow /\ mutation.pins \subseteq Coords
  BY CommittedIs DEF PackageInv, PackageTyped, MutationRow
<1>1. CASE Publish
  <2> DEFINE step == IF mutation.pins # ActivePins THEN "lock" ELSE "release"
  <2>1. /\ Begin(step, <<>>, mutation.pins) /\ UNCHANGED <<locks, current>>
        /\ installed' = [installed EXCEPT ![mutation.coord] = "intact"]
    BY <1>1 DEF Publish
  <2>2. installed' \in [Coords -> {"absent", "intact", "partial"}]
    BY <1>0, <2>1
  <2>3. \A g \in Committed : \A c \in locks[g].pins : installed'[c] = installed[c]
    <3>1. ASSUME NEW g \in Committed, NEW c \in locks[g].pins
          PROVE  installed[c] = "intact" /\ c \in Coords
      BY <1>0, PinsAreCoords DEF PackageInv, GenerationReady, CommittedFacts, Backward
    <3> QED BY <1>0, <2>1, <3>1
  <2>4. step \in {"lock", "release"}
    OBVIOUS
  <2> HIDE DEF step
  <2> QED BY <1>0, <2>1, <2>2, <2>3, <2>4, BeginKeeps
<1>2. CASE RemoveFiles
  <2>1. /\ mutation.step = "remove" /\ mutation.coord \in Coords
        /\ \A g \in Committed : mutation.coord \notin locks[g].pins
        /\ mutation.generation = 0
    BY <1>0, <1>2 DEF RemoveFiles, MutationSound
  <2>2. /\ installed' = [installed EXCEPT
               ![mutation.coord] = IF @ = "intact" THEN "partial" ELSE "absent"]
        /\ mutation' \in {mutation, Done} /\ UNCHANGED <<locks, current>>
    BY <1>2 DEF RemoveFiles
  <2>3. installed' \in [Coords -> {"absent", "intact", "partial"}]
    BY <1>0, <2>2
  <2>4. \A g \in Committed : \A c \in locks[g].pins : installed'[c] = installed[c]
    BY <1>0, <2>1, <2>2, PinsAreCoords DEF CommittedFacts, Backward
  <2>5. /\ mutation' \in MutationRow /\ mutation'.generation = 0
        /\ mutation'.step # "active"
        /\ mutation'.step \in {"publish", "remove"} => mutation'.coord = mutation.coord
    BY <1>0, <2>1, <2>2, EndIs
  <2> QED BY <2>1, <2>2, <2>3, <2>4, <2>5, SameGenerations
<1> QED BY <1>1, <1>2


\* _commit_active writes the next lock file under a number nobody has used.
LEMMA LockIsWritten ==
    ASSUME PackageInv, WriteLock
    PROVE  PackageInv'
<1>0. /\ PackageTyped /\ CommittedFacts /\ MutationSound
      /\ mutation \in MutationRow /\ mutation.pins \subseteq Coords
      /\ mutation.step = "lock" /\ mutation.generation = 0
      /\ UNCHANGED <<installed, current>>
      /\ installed \in [Coords -> {"absent", "intact", "partial"}]
      /\ locks \in [Generations -> LockRow]
  BY CommittedIs DEF PackageInv, PackageTyped, MutationRow, MutationSound, WriteLock
<1>1. CASE mutation' = Done /\ UNCHANGED locks
  BY <1>0, <1>1, EndIs, SameGenerations
<1>2. ASSUME NEW g, g = 1 + Newest(History \cup {current}), g \in Generations,
             Valid(mutation.pins, {}),
             locks' = [locks EXCEPT ![g] =
                [written |-> TRUE, pins |-> mutation.pins, previous |-> current]],
             mutation' = [mutation EXCEPT !.step = "active", !.generation = g]
      PROVE  PackageInv'
  <2> DEFINE row == [written |-> TRUE, pins |-> mutation.pins, previous |-> current]
  <2>1. \A h \in History \cup {current} : h < g
    <3> DEFINE numbers == History \cup {current}
    <3>1. numbers \in SUBSET (0..MaxGenerations) /\ numbers # {}
      BY <1>0, PackageAssumption DEF PackageTyped, History, Generations
    <3>2. \E x \in numbers : \A y \in numbers : y <= x
      BY <3>1, PackageAssumption, GreatestUpTo
    <3>3. Newest(numbers) \in numbers /\ \A y \in numbers : y <= Newest(numbers)
      BY <3>2 DEF Newest
    <3>4. Newest(numbers) \in Int /\ \A y \in numbers : y \in Int
      BY <3>1, <3>3
    <3>5. \A y \in numbers : y < 1 + Newest(numbers)
      BY <3>3, <3>4
    <3> QED BY <1>2, <3>5
  <2>2. row \in LockRow /\ row.written /\ row.pins = mutation.pins /\ row.previous = current
    BY <1>0 DEF LockRow, PackageTyped
  <2>3. /\ locks' \in [Generations -> LockRow] /\ locks'[g] = row
        /\ \A h \in Generations \ {g} : locks'[h] = locks[h]
    BY <1>0, <1>2, <2>2
  <2> HIDE DEF row
  <2>4. g \notin Committed
    <3>1. g \notin History
      BY <1>2, <2>1 DEF Generations
    <3> QED BY <1>2, <3>1 DEF PackageInv, GenerationReady, History
  <2>5. /\ mutation' \in MutationRow /\ mutation'.step = "active" /\ mutation'.generation = g
    <3>1. g \in 0..MaxGenerations
      BY <1>2 DEF Generations
    <3> QED BY <1>0, <1>2, <3>1 DEF MutationRow
  <2>6. PackageTyped'
    <3>1. \A h \in Generations : locks'[h].previous < h
      BY <1>0, <2>1, <2>2, <2>3 DEF PackageTyped
    <3> QED BY <1>0, <2>3, <2>5, <3>1 DEF PackageTyped
  <2>7. Committed' \subseteq Committed
    <3>1. \A S : Backward(S)' /\ current' \in S \cup {0} => Committed' \subseteq S
      BY <2>6, CommittedIsNext DEF CommittedFacts
    <3>2. \A S : Backward(S) /\ g \notin S => Backward(S)'
      BY <2>3 DEF Backward
    <3> QED BY <1>0, <2>4, <3>1, <3>2 DEF CommittedFacts
  <2>8. ASSUME NEW h \in Committed' PROVE GenerationReady(h)'
    <3>1. h \in Committed /\ h \in Generations \ {g} /\ GenerationReady(h)
      BY <1>0, <2>4, <2>7, <2>8 DEF PackageInv, CommittedFacts, Backward
    <3> QED BY <1>0, <2>3, <3>1 DEF GenerationReady
  <2>9. GenerationReady(g)'
    BY <1>0, <1>2, <2>2, <2>3 DEF GenerationReady, Valid
  <2>10. MutationSound'
    BY <1>0, <1>2, <2>2, <2>3, <2>4, <2>5, <2>7, <2>9 DEF MutationSound
  <2> QED BY <2>6, <2>8, <2>10 DEF PackageInv
<1> QED BY <1>1, <1>2 DEF WriteLock

\* The generation that was written comes into force before those it follows.
LEMMA ActiveIsWritten ==
    ASSUME PackageInv, WriteActive
    PROVE  PackageInv'
<1> DEFINE g == mutation.generation
<1>0. /\ PackageTyped /\ CommittedFacts
      /\ g \in Generations /\ GenerationReady(g) /\ locks[g].previous = current
      /\ current' = g /\ mutation' = Done /\ UNCHANGED <<installed, locks>>
  BY CommittedIs DEF PackageInv, MutationSound, WriteActive
<1> HIDE DEF g
<1>1. PackageTyped'
  BY <1>0, EndIs, PackageAssumption DEF PackageTyped, Generations
<1> DEFINE S == Committed \cup {g}
<1>2. Committed' \subseteq S
  <2>1. \A T : Backward(T)' /\ current' \in T \cup {0} => Committed' \subseteq T
    BY <1>1, CommittedIsNext DEF CommittedFacts
  <2>2. \A T : Backward(T)' <=> Backward(T)
    BY <1>0 DEF Backward
  <2>3. Backward(S)
    BY <1>0 DEF CommittedFacts, Backward
  <2>4. current' \in S \cup {0}
    BY <1>0
  <2> HIDE DEF S
  <2> QED BY <2>1, <2>2, <2>3, <2>4
<1>3. ASSUME NEW h \in Committed' PROVE GenerationReady(h)'
  <2>1. GenerationReady(h)
    BY <1>0, <1>2, <1>3 DEF PackageInv
  <2> QED BY <1>0, <2>1 DEF GenerationReady
<1>4. MutationSound'
  BY <1>0, EndIs DEF MutationSound
<1> QED BY <1>1, <1>3, <1>4 DEF PackageInv

\* RollbackReady for any packages, versions and dependencies and any number of
\* generations: mutations that die between their writes leave nothing behind
\* that _committed_generations could reach and rollback could not restore.
THEOREM GenerationsCanBeRestored == PackageSpec => []RollbackReady
<1>1. PackageInit => PackageInv
  <2> SUFFICES ASSUME PackageInit PROVE PackageInv
    OBVIOUS
  <2>1. 0 \in 0..MaxGenerations /\ \A g \in Generations : 0 < g
    BY PackageAssumption DEF Generations
  <2>2. NoLock \in LockRow /\ NoLock.previous = 0
    BY <2>1 DEF NoLock, LockRow
  <2>3. PackageTyped
    BY <2>1, <2>2, EndIs DEF PackageInit, PackageTyped
  <2>4. Backward({}) /\ current \in {} \cup {0}
    BY DEF Backward, PackageInit
  <2>5. \A S : Backward(S) /\ current \in S \cup {0} => Committed \subseteq S
    BY <2>3, CommittedIs DEF CommittedFacts
  <2>6. Committed \subseteq {}
    BY <2>4, <2>5
  <2> QED BY <2>3, <2>6, EndIs DEF PackageInit, PackageInv, MutationSound
<1>2. PackageInv /\ [PackageNext]_packageVars => PackageInv'
  <2> SUFFICES ASSUME PackageInv, [PackageNext]_packageVars PROVE PackageInv'
    OBVIOUS
  <2>1. /\ CommittedFacts /\ installed \in [Coords -> {"absent", "intact", "partial"}]
        /\ mutation \in MutationRow /\ MutationSound
    BY CommittedIs DEF PackageInv, PackageTyped
  <2>2. ASSUME NEW pins \in {{c} : c \in Coords} \cup {{}}, NEW r \in BOOLEAN,
               ActivatePins(pins, r)
        PROVE PackageInv'
    <3>1. pins \in SUBSET Coords
      OBVIOUS
    <3> QED BY <2>2, <3>1, MutationsBegin
  <2>3. CASE RollbackToNewest
    <3>1. PICK g : Rollback(g)
      BY <2>3 DEF RollbackToNewest
    <3>2. g \in Generations
      BY <2>1, <3>1 DEF Rollback, CommittedFacts, Backward
    <3> QED BY <3>1, <3>2, MutationsBegin
  <2>4. CASE Release \/ ClearStaleLock \/ PackageCrash
    <3>1. UNCHANGED <<installed, locks, current>> /\ mutation' \in {Idle, Stale}
      BY <2>4 DEF Release, ClearStaleLock, PackageCrash
    <3> QED BY <2>1, <3>1, EndIs, SameGenerations
  <2>5. CASE UNCHANGED packageVars
    <3>1. UNCHANGED <<installed, locks, current, mutation>>
      BY <2>5 DEF packageVars
    <3>2. CASE mutation.step # "active"
      BY <2>1, <3>1, <3>2, SameGenerations DEF MutationSound
    <3>3. PackageTyped'
      BY <3>1 DEF PackageInv, PackageTyped
    <3>4. Committed' = Committed
      BY <3>1 DEF Committed
    <3> QED BY <3>1, <3>3, <3>4 DEF PackageInv, MutationSound, GenerationReady
  <2> QED BY <2>2, <2>3, <2>4, <2>5, MutationsBegin, FilesChange, LockIsWritten, ActiveIsWritten
          DEF PackageNext
<1>3. PackageInv => RollbackReady
  <2> SUFFICES ASSUME PackageInv, NEW g \in Committed
               PROVE  GenerationReady(g) /\ g # mutation.generation
    BY DEF RollbackReady, GenerationReady
  <2>1. g \in Generations /\ g # 0
    BY CommittedIs, PackageAssumption DEF PackageInv, CommittedFacts, Backward, Generations
  <2> QED BY <2>1 DEF PackageInv, MutationSound
<1> QED BY <1>1, <1>2, <1>3, PTL DEF PackageSpec
=============================================================================
