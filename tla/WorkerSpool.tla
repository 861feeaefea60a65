---------------------------- MODULE WorkerSpool ----------------------------
(***************************************************************************)
(* One job in the spool of a remote worker (scripts/remote_worker.py): its  *)
(* manifest.json, which every command reads and replaces under one spool    *)
(* lock, the worker processes that lease it, the child processes they       *)
(* start, and the artifact files those write.  Commands arrive over ssh     *)
(* (scripts/remote_worker_client.py), so an answer may be lost after the    *)
(* command took effect.                                                     *)
(*                                                                          *)
(* Jobs share only the lock, so one job stands for all.  time.time() is     *)
(* read under the lock, so a lease is open or run out, and a liveness       *)
(* observation fresh or old.  A lease token is a random uuid: here the      *)
(* number of the claim.  Packet validation and redaction are left out.      *)
(***************************************************************************)
EXTENDS Integers

CONSTANTS
    SpoolWorkers,   \* worker processes
    Packets,        \* packet digests a controller may send under the job id
    NoPacket,       \* no manifest yet
    Artifacts,      \* required_artifacts of the packet
    MaxClaims,      \* bound: claims of the job
    Verified        \* is every recovery asked for with --require-process-identity?

ASSUME SpoolAssumption ==
    /\ NoPacket \notin Packets
    /\ MaxClaims \in Nat \ {0}
    /\ Verified \in BOOLEAN

VARIABLES
    manifest,       \* manifest.json
    disk,           \* what is at each artifact path
    worker,         \* memory of each worker process
    child           \* the child process started under each lease token

spoolVars == <<manifest, disk, worker, child>>

Tokens == 1..MaxClaims
Contents == {"missing", "empty", "old", "new"}
NoLease == [owner |-> "none", token |-> 0, open |-> FALSE]
Unseen == [fence |-> 0, alive |-> FALSE, fresh |-> FALSE]
Blank == [packet |-> NoPacket, status |-> "absent", lease |-> NoLease, claims |-> 0,
          identity |-> Unseen, baseline |-> [a \in Artifacts |-> "missing"],
          observed |-> [a \in Artifacts |-> "missing"]]
Gone == [pc |-> "down", token |-> 0]

SpoolInit ==
    /\ manifest = Blank
    /\ disk \in [Artifacts -> {"missing", "old"}]
    /\ worker = [w \in SpoolWorkers |-> Gone]
    /\ child = [t \in Tokens |-> "none"]

Ended == manifest.status \in {"completed", "failed"}
Leased == manifest.lease # NoLease

-----------------------------------------------------------------------------
(* Checks *)

\* _require_lease for the token a worker holds.
RequireLease(w) ==
    /\ manifest.lease.owner = w
    /\ manifest.lease.token = worker[w].token
    /\ manifest.lease.open

\* _artifact_rows_complete and _artifact_rows_fresh.
Complete(rows) == \A a \in Artifacts : rows[a] \in {"old", "new"}
Fresh(before, rows) == Complete(rows) /\ \A a \in Artifacts : rows[a] # before[a]

\* _process_identity_recovery_gate: a fresh observation under the lease's own
\* token that says the process has exited or was not found.
Witnessed ==
    /\ manifest.identity.fence = manifest.lease.token
    /\ manifest.identity.fresh
    /\ ~manifest.identity.alive

-----------------------------------------------------------------------------
(* Commands; each holds the spool lock from its read to its replace. *)

\* prepare_job: the first packet makes the manifest and hashes the baseline;
\* the same packet again returns it, another digest raises.
PrepareJob(d) ==
    /\ manifest.packet = NoPacket
    /\ manifest' = [manifest EXCEPT !.packet = d, !.status = "prepared",
                                    !.baseline = disk, !.observed = disk]
    /\ UNCHANGED <<disk, worker, child>>

\* claim_job: an open lease or a status that needs a review refuses; a lease
\* that ran out is replaced, whatever is known of its process.
Claimable ==
    /\ manifest.packet # NoPacket
    /\ ~manifest.lease.open
    /\ manifest.status \notin {"completed", "failed", "recovery_review"}
ClaimJob(w) ==
    LET t == manifest.claims + 1
    IN  /\ worker[w].pc = "claim"
        /\ \/ /\ Claimable
              /\ t \in Tokens
              /\ manifest' = [manifest EXCEPT
                    !.status = "running", !.claims = t, !.identity = Unseen,
                    !.lease = [owner |-> w, token |-> t, open |-> TRUE]]
              /\ worker' = [worker EXCEPT ![w] = [pc |-> "run", token |-> t]]
           \/ /\ ~Claimable
              /\ worker' = [worker EXCEPT ![w] = Gone]
              /\ UNCHANGED manifest
        /\ UNCHANGED <<disk, child>>

\* heartbeat
Heartbeat(w) ==
    /\ worker[w].pc = "run"
    /\ RequireLease(w)
    /\ UNCHANGED spoolVars

\* record_process_identity: what the worker saw of the child of its token.
RecordProcessIdentity(w) ==
    LET t == worker[w].token
    IN  /\ worker[w].pc = "run"
        /\ RequireLease(w)
        /\ manifest' = [manifest EXCEPT
              !.identity = [fence |-> t, alive |-> child[t] = "alive", fresh |-> TRUE]]
        /\ UNCHANGED <<disk, worker, child>>

\* record_artifacts
RecordArtifacts(w) ==
    /\ worker[w].pc = "run"
    /\ RequireLease(w)
    /\ manifest' = [manifest EXCEPT !.observed = disk]
    /\ UNCHANGED <<disk, worker, child>>

\* complete_job: success only over artifacts that are complete and differ from
\* the baseline; the lease goes in the same write.
MutCompleteJob(w, success) ==             \* mutant: the lease is left in place
    /\ worker[w].pc = "run"
    /\ RequireLease(w)
    /\ ~Ended
    /\ manifest' = [manifest EXCEPT
          !.status = IF success /\ Fresh(manifest.baseline, disk)
                     THEN "completed" ELSE "failed",
          !.observed = disk]
    /\ worker' = [worker EXCEPT ![w] = Gone]
    /\ UNCHANGED <<disk, child>>
CompleteJob(w, success) ==
    /\ worker[w].pc = "run"
    /\ RequireLease(w)
    /\ ~Ended
    /\ manifest' = [manifest EXCEPT
          !.status = IF success /\ Fresh(manifest.baseline, disk)
                     THEN "completed" ELSE "failed",
          !.observed = disk, !.lease = NoLease]
    /\ worker' = [worker EXCEPT ![w] = Gone]
    /\ UNCHANGED <<disk, child>>

\* A command under a lost or superseded token raises; the worker gives up.
FencedOff(w) ==
    /\ worker[w].pc = "run"
    /\ ~RequireLease(w)
    /\ worker' = [worker EXCEPT ![w] = Gone]
    /\ UNCHANGED <<manifest, disk, child>>

\* _recover_manifest_unlocked, in the strict mode of the ssh client or in the
\* lease-only mode of the compatibility override and of run_fake_service.
RecoveredStatus(strict) ==
    IF strict /\ ~Witnessed THEN "recovery_review" ELSE "recoverable"
Recovered(strict) ==
    IF Leased /\ ~manifest.lease.open
    THEN [manifest EXCEPT !.status = RecoveredStatus(strict), !.lease = NoLease]
    ELSE manifest
RecoverJob(strict) ==
    /\ manifest.packet # NoPacket
    /\ strict \/ ~Verified
    /\ manifest' = Recovered(strict)
    /\ UNCHANGED <<disk, worker, child>>

\* next_action of a handoff, which says what a later controller may do.
NextAction(m) ==
    CASE m.status \in {"completed", "failed"} -> "review"
      [] m.status = "recovery_review" -> "review_process_liveness"
      [] m.lease.open -> "wait_for_active_lease_or_recover"
      [] OTHER -> "claim_with_new_owner"
\* resume: the recovery and its handoff under one lock; a controller that is
\* told to claim brings a new owner, which claims later.
ResumeJob(w, strict) ==
    /\ manifest.packet # NoPacket
    /\ strict \/ ~Verified
    /\ worker[w].pc = "down"
    /\ manifest' = Recovered(strict)
    /\ worker' = IF NextAction(manifest') = "claim_with_new_owner"
                 THEN [worker EXCEPT ![w].pc = "claim"] ELSE worker
    /\ UNCHANGED <<disk, child>>

-----------------------------------------------------------------------------
(* A worker process: run_fake_service, then run_fake_job or an adapter that
   makes the same calls around a child process.                            *)

StartWorker(w) ==
    /\ worker[w].pc = "down"
    /\ worker' = [worker EXCEPT ![w].pc = "look"]
    /\ UNCHANGED <<manifest, disk, child>>

\* One round of run_fake_service: a lease-only recovery, then the status.
Look(w) ==
    /\ worker[w].pc = "look"
    /\ IF manifest.packet # NoPacket /\ ~Verified
       THEN manifest' = Recovered(FALSE) ELSE UNCHANGED manifest
    /\ worker' = [worker EXCEPT ![w] =
          CASE manifest'.status \in {"prepared", "recoverable"} -> [Gone EXCEPT !.pc = "claim"]
            [] manifest'.status \in {"absent", "running"} -> @
            [] OTHER -> Gone]
    /\ UNCHANGED <<disk, child>>

StartChild(w) ==
    LET t == worker[w].token
    IN  /\ worker[w].pc = "run"
        /\ child[t] = "none"
        /\ child' = [child EXCEPT ![t] = "alive"]
        /\ UNCHANGED <<manifest, disk, worker>>

\* Any child that is alive writes, also one whose lease is long gone.
ChildWrites(t, a) ==
    /\ child[t] = "alive"
    /\ \E c \in Contents : disk' = [disk EXCEPT ![a] = c]
    /\ UNCHANGED <<manifest, worker, child>>

ChildExits(t) ==
    /\ child[t] = "alive"
    /\ child' = [child EXCEPT ![t] = "dead"]
    /\ UNCHANGED <<manifest, disk, worker>>

\* The worker dies, or the answer with its token is lost: nobody holds it.
WorkerDies(w) ==
    /\ worker[w].pc # "down"
    /\ worker' = [worker EXCEPT ![w] = Gone]
    /\ UNCHANGED <<manifest, disk, child>>

SpoolLeaseRunsOut ==
    /\ manifest.lease.open
    /\ manifest' = [manifest EXCEPT !.lease.open = FALSE]
    /\ UNCHANGED <<disk, worker, child>>

\* Consulted only while there is a lease to recover.
ObservationAges ==
    /\ Leased
    /\ manifest.identity.fresh
    /\ manifest' = [manifest EXCEPT !.identity.fresh = FALSE]
    /\ UNCHANGED <<disk, worker, child>>

WorkerStep(w) ==
    \/ Look(w) \/ ClaimJob(w) \/ RecordProcessIdentity(w) \/ RecordArtifacts(w)
    \/ StartChild(w) \/ FencedOff(w) \/ \E success \in BOOLEAN : CompleteJob(w, success)

SpoolNext ==
    \/ \E d \in Packets : PrepareJob(d)
    \/ \E w \in SpoolWorkers : StartWorker(w) \/ WorkerStep(w) \/ Heartbeat(w) \/ WorkerDies(w)
    \/ \E strict \in BOOLEAN :
          RecoverJob(strict) \/ \E w \in SpoolWorkers : ResumeJob(w, strict)
    \/ \E t \in Tokens : ChildExits(t) \/ \E a \in Artifacts : ChildWrites(t, a)
    \/ SpoolLeaseRunsOut
    \/ ObservationAges

SpoolSpec == SpoolInit /\ [][SpoolNext]_spoolVars

-----------------------------------------------------------------------------
(* Properties *)

\* A job ends once, by the worker whose claim is the newest and whose lease is
\* open; afterwards no command, late worker, recovery or repeated prepare
\* changes its manifest, and the baseline never moves after it was taken.
SpoolEndsOnce ==
    [][/\ Ended => manifest' = manifest
       /\ manifest.packet # NoPacket =>
             manifest'.baseline = manifest.baseline /\ manifest'.packet = manifest.packet
       /\ ~Ended /\ Ended' => \E w \in SpoolWorkers :
             worker[w].token = manifest.claims /\ RequireLease(w)]_spoolVars

\* As long as every recovery is the strict one, a job changes hands only when a
\* witness has seen the child of the previous claim gone ("Missing, stale,
\* alive, or mismatched evidence ... prevents a new claim").
HandoverHasWitness ==
    [][Verified /\ manifest.claims # 0 /\ manifest'.claims > manifest.claims =>
          child[manifest.claims] # "alive"]_spoolVars
=============================================================================
