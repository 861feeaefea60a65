---------------------------- MODULE DispatchStore ----------------------------
(***************************************************************************)
(* The SQLite dispatch ledger (scripts/sqlite_store.py): one controller     *)
(* lease with a fencing token, the jobs, their attempts, and the resource   *)
(* reservations.  Every public method is one BEGIN IMMEDIATE transaction,   *)
(* so every method is one action; a method that raises rolls back and is    *)
(* not a step.                                                              *)
(*                                                                          *)
(* Time.  A deadline column is modelled by the time left until it, a timer  *)
(* that Tick counts down.  A method reads the clock (utc_now) BEFORE it     *)
(* waits for the write lock, so it works with a reading that is d old when  *)
(* it commits, 0 <= d <= LockWait.  A timer is not counted below -LockWait: *)
(* from there on every reading finds it expired.                            *)
(***************************************************************************)
EXTENDS Integers, FiniteSets

CONSTANTS
    Owners,             \* controller owner ids
    NoOwner,            \* the NULL of an owner column
    Jobs,               \* job ids
    Legacy,             \* the job ids that come from the legacy importer
    Groups,             \* capacity groups: the hosts and the model pools
    GroupsOf,           \* the groups whose slots a job's reservation occupies
    Capacity,           \* slots of a group, as the capacity probe reports them
    NeedsReservation,   \* jobs whose payload has a resource_request
    Unmeasured,         \* jobs reserved without capacity evidence
    Rank,               \* the order of ORDER BY priority DESC, created_at, job_id
    WindowFactor,       \* claim_jobs reads limit * WindowFactor candidates (8)
    RetryDelays,        \* retry delays a completion may ask for
    TTL,                \* lease time to live
    LockWait,           \* longest wait for the write lock (the busy timeout)
    MaxFence,           \* bound: controller epochs
    MaxAttempts         \* bound: attempts of one job

ASSUME StoreAssumption ==
    /\ NoOwner \notin Owners
    /\ Legacy \subseteq Jobs
    /\ NeedsReservation \subseteq Jobs
    /\ Unmeasured \subseteq Jobs
    /\ IsFiniteSet(Jobs)
    /\ GroupsOf \in [Jobs -> SUBSET Groups]
    /\ Capacity \in [Groups -> Nat]
    /\ Rank \in [Jobs -> Nat]
    /\ \A i, j \in Jobs : Rank[i] = Rank[j] => i = j
    /\ WindowFactor \in Nat \ {0}
    /\ MaxFence \in Nat \ {0}
    /\ MaxAttempts \in Nat \ {0}
    /\ LockWait \in Nat
    /\ TTL \in Nat
    /\ LockWait < TTL
    /\ RetryDelays \subseteq 0..TTL

VARIABLES
    lease,          \* the row of table leases for the controller scope
    jobs,           \* table jobs
    attempts,       \* table attempts, keyed by (job_id, attempt_no)
    reservations    \* table reservations: the latest row of each job

vars == <<lease, jobs, attempts, reservations>>

Delays == 0..LockWait
Fences == 1..MaxFence
AttemptNos == 1..MaxAttempts
Timer == (-LockWait)..TTL

\* A NULL deadline, and a deadline that no reading of the clock finds open.
Null == -LockWait

\* No _lad_replan_base_attempt_count marker in the payload.
NoMarker == -1

JobStatus == {"none", "queued", "running", "retry", "completed", "failed",
              "blocked", "review"}
AttemptStatus == {"none", "running", "completed", "failed", "retry",
                  "abandoned", "review"}

NoJob == [status |-> "none", claimed_by |-> NoOwner, claim_fence |-> 0,
          left |-> Null, retry_left |-> Null, attempt_count |-> 0,
          base |-> NoMarker]
NoAttempt == [status |-> "none", owner |-> NoOwner, fence |-> 0, left |-> Null]
NoReservation == NoAttempt

LeaseRow == [owner : Owners \cup {NoOwner}, fence : 0..MaxFence,
             status : {"none", "active", "released"}, left : Timer]
JobRow == [status : JobStatus, claimed_by : Owners \cup {NoOwner},
           claim_fence : 0..MaxFence, left : Timer, retry_left : Timer,
           attempt_count : 0..MaxAttempts, base : NoMarker..MaxAttempts]
AttemptRow == [status : AttemptStatus, owner : Owners \cup {NoOwner},
               fence : 0..MaxFence, left : Timer]
ReservationRow == [status : {"none", "active", "released", "expired"},
                   owner : Owners \cup {NoOwner}, fence : 0..MaxFence,
                   left : Timer]

Init ==
    /\ lease = [owner |-> NoOwner, fence |-> 0, status |-> "none", left |-> Null]
    /\ jobs = [j \in Jobs |-> NoJob]
    /\ attempts = [j \in Jobs |-> [n \in AttemptNos |-> NoAttempt]]
    /\ reservations = [j \in Jobs |-> NoReservation]

-----------------------------------------------------------------------------
(* The clock and the fence *)

\* _is_expired: the deadline is not after a reading of the clock that is d old.
Expired(left, d) == left + d <= 0

\* _lease_expiry: a deadline ttl after a reading of the clock that is d old.
MutLeaseExpiry(d) == TTL + d              \* mutant: counts the lock wait in
LeaseExpiry(d) == TTL - d

\* A row whose lease is renewed, and a row that has grown older by a tick.
Renewed(row, d) == [row EXCEPT !.left = LeaseExpiry(d)]
CountDown(t) == IF t > Null THEN t - 1 ELSE t
Aged(row) == [row EXCEPT !.left = CountDown(row.left)]

\* _assert_lease_tx: o holds the live controller lease under fence f.
HoldsLease(o, f, d) ==
    /\ lease.owner = o
    /\ lease.fence = f
    /\ lease.status = "active"
    /\ ~Expired(lease.left, d)

\* acquire_controller_lease: renew one's own live lease, or take an epoch of
\* one's own once the lease is free.
MutAcquire(o, d) ==                       \* mutant: takeover keeps the fence
    /\ lease.status # "active" \/ Expired(lease.left, d) \/ lease.owner = o
    /\ lease' = [owner |-> o, fence |-> IF lease.fence = 0 THEN 1 ELSE lease.fence,
                 status |-> "active", left |-> LeaseExpiry(d)]
    /\ UNCHANGED <<jobs, attempts, reservations>>
Acquire(o, d) ==
    /\ \/ /\ lease.status = "active"
          /\ ~Expired(lease.left, d)
          /\ lease.owner = o
          /\ lease' = Renewed(lease, d)
       \/ /\ lease.status # "active" \/ Expired(lease.left, d)
          /\ lease.fence < MaxFence
          /\ lease' = [owner |-> o, fence |-> lease.fence + 1,
                       status |-> "active", left |-> LeaseExpiry(d)]
    /\ UNCHANGED <<jobs, attempts, reservations>>

HeartbeatLease(o, f, d) ==
    /\ HoldsLease(o, f, d)
    /\ lease' = Renewed(lease, d)
    /\ UNCHANGED <<jobs, attempts, reservations>>

\* release_controller_lease compares owner and fence only: an expired lease,
\* or one that was released before, can be released too.
Release(o, f) ==
    /\ lease.owner = o
    /\ lease.fence = f
    /\ lease' = [lease EXCEPT !.status = "released", !.left = Null]
    /\ UNCHANGED <<jobs, attempts, reservations>>

-----------------------------------------------------------------------------
(* Queue ingress *)

QueuedJob == [NoJob EXCEPT !.status = "queued"]

\* create_job.  A second call for the same id returns the row or raises.
CreateJob(j) ==
    /\ j \notin Legacy
    /\ jobs[j].status = "none"
    /\ jobs' = [jobs EXCEPT ![j] = QueuedJob]
    /\ UNCHANGED <<lease, attempts, reservations>>

\* A row that is no longer active is only looked at for its status.
InactiveRow(status) == [NoReservation EXCEPT !.status = status]

\* _release_reservation_tx without and with the owner and fence conditions.
ReleasedRow(r) == IF r.status = "active" THEN InactiveRow("released") ELSE r
OwnReleasedRow(r, o, f) ==
    IF r.owner = o /\ r.fence = f THEN ReleasedRow(r) ELSE r

\* requeue_job keeps attempt_count and stores it as the replan marker.
MutRequeuedJob(row) ==                    \* mutant: starts counting again
    [NoJob EXCEPT !.status = "queued", !.base = 0]
RequeuedJob(row) ==
    [row EXCEPT !.status = "queued", !.claimed_by = NoOwner, !.claim_fence = 0,
                !.left = Null, !.retry_left = Null, !.base = row.attempt_count]

RequeueJob(j, o, f, d) ==
    /\ HoldsLease(o, f, d)
    /\ jobs[j].status \in {"failed", "blocked", "retry"}
    /\ jobs' = [jobs EXCEPT ![j] = RequeuedJob(jobs[j])]
    /\ reservations' = [reservations EXCEPT ![j] = ReleasedRow(reservations[j])]
    /\ UNCHANGED <<lease, attempts>>

EndedAttempt(a, status) == [a EXCEPT !.status = status, !.left = Null]

\* import_legacy_job inserts the job and one synthetic attempt with number 1,
\* and leaves attempt_count at the column's default 0.  A second import of an
\* unchanged payload may reconcile the synthetic attempt to abandoned.
ImportLegacyJob(j, o, f, d, status, attempt_status) ==
    /\ j \in Legacy
    /\ HoldsLease(o, f, d)
    /\ \/ /\ jobs[j].status = "none"
          /\ jobs' = [jobs EXCEPT ![j] = [NoJob EXCEPT !.status = status]]
          /\ attempts' = [attempts EXCEPT ![j][1] =
                            [NoAttempt EXCEPT !.status = attempt_status]]
       \/ /\ jobs[j].status # "none"
          /\ jobs[j].base = NoMarker
          /\ attempts[j][1].status = "review"
          /\ attempts' = [attempts EXCEPT ![j][1] =
                            EndedAttempt(attempts[j][1], attempt_status)]
          /\ UNCHANGED jobs
    /\ UNCHANGED <<lease, reservations>>

-----------------------------------------------------------------------------
(* Reservations *)

\* The sweep of _reserve_resources_tx: active rows past their deadline expire.
Swept(d) ==
    [j \in Jobs |->
        IF reservations[j].status = "active" /\ Expired(reservations[j].left, d)
        THEN InactiveRow("expired")
        ELSE reservations[j]]

\* The active rows of a reservation table that occupy a slot of group g.
Occupants(table, g) ==
    {i \in Jobs : table[i].status = "active" /\ g \in GroupsOf[i]}

\* _capacity_admission: one more slot must fit every group the job is placed
\* in; without capacity evidence the store admits.
MutAdmitted(table, j) ==                  \* mutant: forgets the new slot
    \/ j \in Unmeasured
    \/ \A g \in GroupsOf[j] : Cardinality(Occupants(table, g)) <= Capacity[g]
Admitted(table, j) ==
    \/ j \in Unmeasured
    \/ \A g \in GroupsOf[j] :
          Cardinality(Occupants(table, g)) + 1 <= Capacity[g]

OwnActive(table, j, o, f) ==
    table[j].status = "active" /\ table[j].owner = o /\ table[j].fence = f

\* _reserve_resources_tx: reuse the caller's own active row, or admit and
\* insert; a row of another owner or fence is a conflict.
CanReserve(j, o, f, d) ==
    \/ OwnActive(Swept(d), j, o, f)
    \/ Swept(d)[j].status # "active" /\ Admitted(Swept(d), j)

Reserved(j, o, f, d) ==
    IF OwnActive(Swept(d), j, o, f)
    THEN Swept(d)
    ELSE [Swept(d) EXCEPT ![j] = [status |-> "active", owner |-> o, fence |-> f,
                                  left |-> LeaseExpiry(d)]]

ReserveResources(j, o, f, d) ==
    /\ HoldsLease(o, f, d)
    /\ jobs[j].status # "none"
    /\ CanReserve(j, o, f, d)
    /\ reservations' = Reserved(j, o, f, d)
    /\ UNCHANGED <<lease, jobs, attempts>>

HeartbeatReservation(j, o, f, d) ==
    /\ HoldsLease(o, f, d)
    /\ OwnActive(reservations, j, o, f)
    /\ ~Expired(reservations[j].left, d)
    /\ reservations' = [reservations EXCEPT ![j] = Renewed(reservations[j], d)]
    /\ UNCHANGED <<lease, jobs, attempts>>

ReleaseReservation(j, o, f, d) ==
    /\ HoldsLease(o, f, d)
    /\ reservations' =
          [reservations EXCEPT ![j] = OwnReleasedRow(reservations[j], o, f)]
    /\ UNCHANGED <<lease, jobs, attempts>>

-----------------------------------------------------------------------------
(* Claims *)

MutRunnable(j, d) == jobs[j].status = "queued"     \* mutant: retry rows are lost
Runnable(j, d) ==
    \/ jobs[j].status = "queued"
    \/ jobs[j].status = "retry" /\ Expired(jobs[j].retry_left, d)

\* _reservation_is_claimable_tx
Claimable(j, o, f, d, require) ==
    \/ j \notin NeedsReservation
    \/ ~require
    \/ OwnActive(reservations, j, o, f) /\ ~Expired(reservations[j].left, d)

NextAttemptNo(j) == jobs[j].attempt_count + 1

ClaimedJob(row, o, f, d) ==
    [row EXCEPT !.status = "running", !.claimed_by = o, !.claim_fence = f,
                !.left = LeaseExpiry(d), !.retry_left = Null,
                !.attempt_count = row.attempt_count + 1]

RunningAttempt(o, f, d) ==
    [status |-> "running", owner |-> o, fence |-> f, left |-> LeaseExpiry(d)]

\* _claim_row_tx for each job of S, in one transaction.  UNIQUE(job_id,
\* attempt_no) makes the INSERT fail, and the transaction roll back, if one of
\* the new attempt numbers is taken.
ClaimRows(S, o, f, d) ==
    /\ \A j \in S : /\ NextAttemptNo(j) \in AttemptNos
                    /\ attempts[j][NextAttemptNo(j)].status = "none"
    /\ jobs' = [j \in Jobs |-> IF j \in S THEN ClaimedJob(jobs[j], o, f, d)
                                          ELSE jobs[j]]
    /\ attempts' = [j \in Jobs |->
                       IF j \in S
                       THEN [attempts[j] EXCEPT ![NextAttemptNo(j)] =
                                RunningAttempt(o, f, d)]
                       ELSE attempts[j]]

\* The candidate window of claim_jobs, and the first m claimable rows in it.
Window(m, d) ==
    {j \in Jobs : /\ Runnable(j, d)
                  /\ Cardinality({i \in Jobs : Runnable(i, d) /\ Rank[i] < Rank[j]})
                        < m * WindowFactor}
Selected(m, o, f, d, require) ==
    LET fit == {j \in Window(m, d) : Claimable(j, o, f, d, require)}
    IN  {j \in fit : Cardinality({i \in fit : Rank[i] < Rank[j]}) < m}

ClaimJob(j, o, f, d, require) ==
    /\ HoldsLease(o, f, d)
    /\ Runnable(j, d)
    /\ Claimable(j, o, f, d, require)
    /\ ClaimRows({j}, o, f, d)
    /\ UNCHANGED <<lease, reservations>>

ClaimJobs(m, o, f, d, require) ==
    /\ HoldsLease(o, f, d)
    /\ Selected(m, o, f, d, require) # {}
    /\ ClaimRows(Selected(m, o, f, d, require), o, f, d)
    /\ UNCHANGED <<lease, reservations>>

\* reserve_and_claim_job: reservation and claim commit together.
ReserveAndClaimJob(j, o, f, d) ==
    /\ HoldsLease(o, f, d)
    /\ Runnable(j, d)
    /\ CanReserve(j, o, f, d)
    /\ reservations' = Reserved(j, o, f, d)
    /\ ClaimRows({j}, o, f, d)
    /\ UNCHANGED lease

-----------------------------------------------------------------------------
(* Running jobs *)

\* The running job j and its running attempt n belong to o under fence f.
MutClaimed(j, n, o, f) ==                 \* mutant: any lease holder may act
    jobs[j].status = "running" /\ attempts[j][n].status = "running"
Claimed(j, n, o, f) ==
    /\ jobs[j].status = "running"
    /\ jobs[j].claimed_by = o
    /\ jobs[j].claim_fence = f
    /\ attempts[j][n].status = "running"
    /\ attempts[j][n].owner = o
    /\ attempts[j][n].fence = f

MutHeartbeatJob(j, n, o, f, d) ==         \* mutant: the reservation is left out
    /\ HoldsLease(o, f, d)
    /\ Claimed(j, n, o, f)
    /\ ~Expired(jobs[j].left, d)
    /\ jobs' = [jobs EXCEPT ![j] = Renewed(jobs[j], d)]
    /\ attempts' = [attempts EXCEPT ![j][n] = Renewed(attempts[j][n], d)]
    /\ UNCHANGED <<lease, reservations>>
HeartbeatJob(j, n, o, f, d) ==
    /\ HoldsLease(o, f, d)
    /\ Claimed(j, n, o, f)
    /\ ~Expired(jobs[j].left, d)
    /\ ~Expired(attempts[j][n].left, d)
    /\ jobs' = [jobs EXCEPT ![j] = Renewed(jobs[j], d)]
    /\ attempts' = [attempts EXCEPT ![j][n] = Renewed(attempts[j][n], d)]
    /\ reservations' =
          [reservations EXCEPT ![j] = IF OwnActive(reservations, j, o, f)
                                      THEN Renewed(reservations[j], d)
                                      ELSE reservations[j]]
    /\ UNCHANGED lease

Unclaimed(row, status, retry_left) ==
    [row EXCEPT !.status = status, !.claimed_by = NoOwner, !.claim_fence = 0,
                !.left = Null, !.retry_left = retry_left]

\* The values complete_job stores in retry_at_utc.
RetryLeft(outcome, d) ==
    IF outcome = "retry" THEN {Null} \cup {r - d : r \in RetryDelays} ELSE {Null}

\* complete_job.  The job's own lease is not consulted: a late completion is
\* accepted as long as the fence still stands.  A duplicate completion of a
\* terminal attempt returns the row or raises.
CompleteJob(j, n, o, f, d, outcome, retry_left) ==
    /\ HoldsLease(o, f, d)
    /\ Claimed(j, n, o, f)
    /\ attempts' = [attempts EXCEPT ![j][n] = EndedAttempt(attempts[j][n], outcome)]
    /\ jobs' = [jobs EXCEPT ![j] = Unclaimed(jobs[j], outcome, retry_left)]
    /\ reservations' =
          [reservations EXCEPT ![j] = OwnReleasedRow(reservations[j], o, f)]
    /\ UNCHANGED lease

\* recover_expired_jobs: every running job whose lease has run out leaves its
\* claimant, to `status' when the liveness evidence says dead, else to blocked.
ExpiredRunning(d) ==
    {j \in Jobs : jobs[j].status = "running" /\ Expired(jobs[j].left, d)}

MutAbandonedAttempt(a) == a               \* mutant: leaves the attempt running
AbandonedAttempt(a) ==
    IF a.status = "running" THEN EndedAttempt(a, "abandoned") ELSE a

RecoverExpiredJobs(o, f, d, status, dead) ==
    /\ HoldsLease(o, f, d)
    /\ ExpiredRunning(d) # {}
    /\ attempts' = [j \in Jobs |->
                       IF j \in ExpiredRunning(d)
                       THEN [n \in AttemptNos |-> AbandonedAttempt(attempts[j][n])]
                       ELSE attempts[j]]
    /\ jobs' = [j \in Jobs |->
                   IF j \in ExpiredRunning(d)
                   THEN Unclaimed(jobs[j],
                                  IF j \in dead THEN status ELSE "blocked", Null)
                   ELSE jobs[j]]
    /\ reservations' = [j \in Jobs |->
                           IF j \in ExpiredRunning(d)
                           THEN ReleasedRow(reservations[j])
                           ELSE reservations[j]]
    /\ UNCHANGED lease

-----------------------------------------------------------------------------
(* Time *)

Tick ==
    /\ lease' = Aged(lease)
    /\ jobs' = [j \in Jobs |->
                   [Aged(jobs[j]) EXCEPT !.retry_left = CountDown(jobs[j].retry_left)]]
    /\ attempts' = [j \in Jobs |-> [n \in AttemptNos |-> Aged(attempts[j][n])]]
    /\ reservations' = [j \in Jobs |-> Aged(reservations[j])]

-----------------------------------------------------------------------------
LeaseStep(o, f, d) ==
    Acquire(o, d) \/ HeartbeatLease(o, f, d) \/ Release(o, f)

IngressStep(j, o, f, d) ==
    \/ RequeueJob(j, o, f, d)
    \/ \E status \in {"completed", "failed", "blocked", "review"},
          attempt_status \in {"review", "abandoned"} :
             ImportLegacyJob(j, o, f, d, status, attempt_status)

ReservationStep(j, o, f, d) ==
    \/ ReserveResources(j, o, f, d)
    \/ HeartbeatReservation(j, o, f, d)
    \/ ReleaseReservation(j, o, f, d)

ClaimStep(j, o, f, d) ==
    \/ ReserveAndClaimJob(j, o, f, d)
    \/ \E require \in BOOLEAN : ClaimJob(j, o, f, d, require)

AttemptStep(j, o, f, d) ==
    \E n \in AttemptNos :
        \/ HeartbeatJob(j, n, o, f, d)
        \/ \E outcome \in {"completed", "failed", "retry"} :
              \E retry_left \in RetryLeft(outcome, d) :
                 CompleteJob(j, n, o, f, d, outcome, retry_left)

ScopeStep(o, f, d) ==
    \/ \E m \in 1..Cardinality(Jobs), require \in BOOLEAN :
          ClaimJobs(m, o, f, d, require)
    \/ \E status \in {"retry", "failed", "queued"}, dead \in SUBSET Jobs :
          RecoverExpiredJobs(o, f, d, status, dead)

Next ==
    \/ \E o \in Owners, f \in Fences, d \in Delays :
          \/ LeaseStep(o, f, d)
          \/ ScopeStep(o, f, d)
          \/ \E j \in Jobs : \/ IngressStep(j, o, f, d)
                             \/ ReservationStep(j, o, f, d)
                             \/ ClaimStep(j, o, f, d)
                             \/ AttemptStep(j, o, f, d)
    \/ \E j \in Jobs : CreateJob(j)
    \/ Tick

Spec == Init /\ [][Next]_vars

-----------------------------------------------------------------------------
(* Properties *)

\* Every row has the columns and the values the schema and the methods allow.
TypeOK ==
    /\ lease \in LeaseRow
    /\ jobs \in [Jobs -> JobRow]
    /\ attempts \in [Jobs -> [AttemptNos -> AttemptRow]]
    /\ reservations \in [Jobs -> ReservationRow]

\* A running job has a running attempt, the one numbered attempt_count, with
\* the same claimant, fence and deadline, and no other attempt of the job is
\* running: one execution of a job at a time, whatever the interleaving of
\* claim_jobs, heartbeat_job_lease, complete_job and recover_expired_jobs.
OneFlight(j) ==
    /\ jobs[j].status = "running" =>
          /\ jobs[j].attempt_count \in AttemptNos
          /\ attempts[j][jobs[j].attempt_count] =
                [status |-> "running", owner |-> jobs[j].claimed_by,
                 fence |-> jobs[j].claim_fence, left |-> jobs[j].left]
    /\ \A n \in AttemptNos :
          attempts[j][n].status = "running" =>
             jobs[j].status = "running" /\ n = jobs[j].attempt_count
SingleFlight == \A j \in Jobs : OneFlight(j)

\* No running job and no active reservation carries a fence newer than the
\* lease's, and one under the current fence belongs to the lease's owner: two
\* controllers never share an epoch (acquire_controller_lease).
FenceOrder ==
    \A j \in Jobs :
        /\ jobs[j].status = "running" =>
              /\ jobs[j].claim_fence \in 1..lease.fence
              /\ jobs[j].claim_fence = lease.fence => jobs[j].claimed_by = lease.owner
        /\ reservations[j].status = "active" =>
              /\ reservations[j].fence \in 1..lease.fence
              /\ reservations[j].fence = lease.fence =>
                    reservations[j].owner = lease.owner

\* The active reservations admitted on capacity evidence never exceed a
\* group's slots, however controllers interleave (the aggregate check and the
\* INSERT of _reserve_resources_tx share a transaction).
CapacityRespected ==
    \A g \in Groups :
        Cardinality(Occupants(reservations, g) \ Unmeasured) <= Capacity[g]

\* The number the next claim will use is not taken: requeue_job says that it
\* "preserves the attempt counter so the next claim receives a new monotonic
\* attempt number".
NextAttemptIsFresh ==
    \A j \in Jobs :
        /\ jobs[j].status \in {"queued", "retry"}
        /\ NextAttemptNo(j) \in AttemptNos
        => attempts[j][NextAttemptNo(j)].status = "none"

\* A running attempt ends in one of two ways: its own claimant records an
\* outcome while its fence is still the lease's fence, or it is abandoned after
\* its job lease has run out.  A controller that was taken over can commit
\* nothing (complete_job, recover_expired_jobs).
EndsByClaimantOrExpiry ==
    [][\A j \in Jobs : \A n \in AttemptNos :
          LET old == attempts[j][n]
              new == attempts'[j][n]
          IN  old.status = "running" /\ new.status # "running" =>
                 \/ /\ new.status \in {"completed", "failed", "retry"}
                    /\ jobs'[j].status = new.status
                    /\ lease.status = "active"
                    /\ lease.owner = old.owner
                    /\ lease.fence = old.fence
                 \/ /\ new.status = "abandoned"
                    /\ jobs'[j].status # "completed"
                    /\ old.left <= 0]_vars
=============================================================================
