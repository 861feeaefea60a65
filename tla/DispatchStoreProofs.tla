------------------------- MODULE DispatchStoreProofs -------------------------
(***************************************************************************)
(* Theorems about the dispatch ledger, for every set of owners and jobs,    *)
(* every capacity, every bound on fences and attempts, and every lock wait  *)
(* that is shorter than the lease time to live: the ledger itself, that it  *)
(* implements the abstract ledger JobLedger (StoreRefinement), and the      *)
(* transport outbox on top of it (TransportStore).                          *)
(***************************************************************************)
EXTENDS TransportStore, StoreRefinement, FiniteSetTheorems, TLAPS

-----------------------------------------------------------------------------
(* Timers *)

\* A fresh deadline, a NULL deadline and a counted-down deadline are timers.
LEMMA TimerFacts ==
    /\ Null \in Timer
    /\ \A d \in Delays : LeaseExpiry(d) \in Timer
    /\ \A d \in Delays, r \in RetryDelays : r - d \in Timer
    /\ \A t \in Timer : CountDown(t) \in Timer
    BY StoreAssumption DEF Null, Timer, Delays, LeaseExpiry, CountDown

\* complete_job stores a timer in retry_at_utc.
LEMMA RetryLeftType ==
    ASSUME NEW outcome, NEW d \in Delays, NEW r \in RetryLeft(outcome, d)
    PROVE  r \in Timer
    BY TimerFacts DEF RetryLeft

(* Rows *)

\* Releasing or expiring a reservation row yields a reservation row.
LEMMA ReservationRows ==
    /\ NoReservation \in ReservationRow
    /\ \A s \in {"released", "expired"} : InactiveRow(s) \in ReservationRow
    /\ \A r \in ReservationRow : ReleasedRow(r) \in ReservationRow
    /\ \A r \in ReservationRow : \A o, f : OwnReleasedRow(r, o, f) \in ReservationRow
    BY StoreAssumption, TimerFacts
    DEF NoReservation, NoAttempt, InactiveRow, ReleasedRow, OwnReleasedRow, ReservationRow

\* The table the sweep and the INSERT of a reservation leave behind.
LEMMA ReservedType ==
    ASSUME TypeOK, NEW j \in Jobs, NEW o \in Owners, NEW f \in Fences,
           NEW d \in Delays
    PROVE  /\ Swept(d) \in [Jobs -> ReservationRow]
           /\ Reserved(j, o, f, d) \in [Jobs -> ReservationRow]
    <1>1. Swept(d) \in [Jobs -> ReservationRow]
        BY ReservationRows DEF TypeOK, Swept
    <1>2. [status |-> "active", owner |-> o, fence |-> f, left |-> LeaseExpiry(d)]
             \in ReservationRow
        BY TimerFacts, StoreAssumption DEF ReservationRow, Fences
    <1>3. QED
        BY <1>1, <1>2 DEF Reserved

\* A claim writes a job row as long as the attempt counter stays in bounds.
LEMMA ClaimedJobType ==
    ASSUME NEW row \in JobRow, NEW o \in Owners, NEW f \in Fences,
           NEW d \in Delays, row.attempt_count + 1 \in 0..MaxAttempts
    PROVE  ClaimedJob(row, o, f, d) \in JobRow
    <1>1. f \in 0..MaxFence /\ o \in Owners \cup {NoOwner} /\ "running" \in JobStatus
        BY StoreAssumption DEF Fences, JobStatus
    <1>2. LeaseExpiry(d) \in Timer /\ Null \in Timer
        BY TimerFacts
    <1>3. QED
        BY <1>1, <1>2 DEF ClaimedJob, JobRow

\* Claiming a set of jobs writes well-typed job and attempt rows.
LEMMA ClaimRowsType ==
    ASSUME TypeOK, NEW S \in SUBSET Jobs, NEW o \in Owners, NEW f \in Fences,
           NEW d \in Delays, ClaimRows(S, o, f, d)
    PROVE  /\ jobs' \in [Jobs -> JobRow]
           /\ attempts' \in [Jobs -> [AttemptNos -> AttemptRow]]
    <1>1. ASSUME NEW j \in S PROVE ClaimedJob(jobs[j], o, f, d) \in JobRow
        <2>1. jobs[j] \in JobRow
            BY <1>1 DEF TypeOK
        <2>2. jobs[j].attempt_count + 1 \in 0..MaxAttempts
            BY <1>1, <2>1, StoreAssumption
            DEF ClaimRows, NextAttemptNo, AttemptNos, JobRow
        <2>3. QED
            BY <2>1, <2>2, ClaimedJobType
    <1>2. RunningAttempt(o, f, d) \in AttemptRow
        BY TimerFacts, StoreAssumption DEF RunningAttempt, AttemptRow, AttemptStatus, Fences
    <1>3. QED
        BY <1>1, <1>2 DEF ClaimRows, TypeOK

\* complete_job and recover_expired_jobs write job rows, requeue_job too.
LEMMA UnclaimedType ==
    ASSUME NEW row \in JobRow
    PROVE  /\ \A s \in JobStatus, t \in Timer : Unclaimed(row, s, t) \in JobRow
           /\ RequeuedJob(row) \in JobRow
    <1>1. /\ NoOwner \in Owners \cup {NoOwner} /\ 0 \in 0..MaxFence
          /\ "queued" \in JobStatus
          /\ Null \in Timer
        BY StoreAssumption, TimerFacts DEF JobStatus
    <1>2. \A s \in JobStatus, t \in Timer : Unclaimed(row, s, t) \in JobRow
        BY <1>1 DEF Unclaimed, JobRow
    <1>3. row.attempt_count \in NoMarker..MaxAttempts
        BY StoreAssumption DEF JobRow, NoMarker
    <1>4. RequeuedJob(row) \in JobRow
        BY <1>1, <1>3 DEF RequeuedJob, JobRow
    <1>5. QED
        BY <1>2, <1>4

\* The empty rows are rows.
LEMMA EmptyRows ==
    /\ \A s \in JobStatus : [NoJob EXCEPT !.status = s] \in JobRow
    /\ NoJob \in JobRow
    /\ \A s \in AttemptStatus : [NoAttempt EXCEPT !.status = s] \in AttemptRow
    /\ NoAttempt \in AttemptRow
    BY StoreAssumption, TimerFacts
    DEF NoJob, NoAttempt, JobRow, AttemptRow, JobStatus, AttemptStatus, NoMarker

\* Renewing, ageing and ending keep a row a row.
LEMMA EditedRows ==
    /\ \A r \in LeaseRow : Aged(r) \in LeaseRow
    /\ \A r \in ReservationRow : Aged(r) \in ReservationRow
    /\ \A r \in ReservationRow, d \in Delays : Renewed(r, d) \in ReservationRow
    /\ \A r \in AttemptRow : Aged(r) \in AttemptRow /\ AbandonedAttempt(r) \in AttemptRow
    /\ \A r \in AttemptRow, d \in Delays : Renewed(r, d) \in AttemptRow
    /\ \A r \in AttemptRow, s \in AttemptStatus : EndedAttempt(r, s) \in AttemptRow
    /\ \A r \in JobRow, d \in Delays : Renewed(r, d) \in JobRow
    /\ \A r \in JobRow :
          [Aged(r) EXCEPT !.retry_left = CountDown(r.retry_left)] \in JobRow
    <1> USE TimerFacts
    <1>1. \A r \in LeaseRow : Aged(r) \in LeaseRow
        BY DEF Aged, LeaseRow
    <1>2. /\ \A r \in ReservationRow : Aged(r) \in ReservationRow
          /\ \A r \in ReservationRow, d \in Delays : Renewed(r, d) \in ReservationRow
        BY DEF Aged, Renewed, ReservationRow
    <1>3. /\ \A r \in AttemptRow : Aged(r) \in AttemptRow
          /\ \A r \in AttemptRow, d \in Delays : Renewed(r, d) \in AttemptRow
        BY DEF Aged, Renewed, AttemptRow
    <1>4. \A r \in AttemptRow, s \in AttemptStatus : EndedAttempt(r, s) \in AttemptRow
        BY DEF EndedAttempt, AttemptRow
    <1>5. \A r \in AttemptRow : AbandonedAttempt(r) \in AttemptRow
        BY <1>4 DEF AbandonedAttempt, AttemptStatus
    <1>6. \A r \in JobRow, d \in Delays : Renewed(r, d) \in JobRow
        BY DEF Renewed, JobRow
    <1>7. \A r \in JobRow :
             [Aged(r) EXCEPT !.retry_left = CountDown(r.retry_left)] \in JobRow
        <2>1. ASSUME NEW r \in JobRow PROVE Aged(r) \in JobRow
            BY DEF Aged, JobRow
        <2>2. ASSUME NEW r \in JobRow PROVE CountDown(r.retry_left) \in Timer
            BY DEF JobRow
        <2>3. QED
            BY <2>1, <2>2 DEF JobRow
    <1>8. QED
        BY <1>1, <1>2, <1>3, <1>4, <1>5, <1>6, <1>7

-----------------------------------------------------------------------------
(* Type correctness *)

LEMMA TypeInit == Init => TypeOK
    BY EmptyRows, ReservationRows, StoreAssumption, TimerFacts
    DEF Init, TypeOK, LeaseRow

LEMMA TypeStep == TypeOK /\ [Next]_vars => TypeOK'
    <1> SUFFICES ASSUME TypeOK, [Next]_vars PROVE TypeOK'
        OBVIOUS
    <1> USE StoreAssumption, TimerFacts
    <1>1. ASSUME NEW o \in Owners, NEW d \in Delays, Acquire(o, d) PROVE TypeOK'
        BY <1>1 DEF Acquire, TypeOK, LeaseRow, Renewed
    <1>2. ASSUME NEW o \in Owners, NEW f \in Fences, NEW d \in Delays,
                 HeartbeatLease(o, f, d)
          PROVE  TypeOK'
        BY <1>2 DEF HeartbeatLease, TypeOK, LeaseRow, Renewed
    <1>3. ASSUME NEW o \in Owners, NEW f \in Fences, Release(o, f) PROVE TypeOK'
        BY <1>3 DEF Release, TypeOK, LeaseRow
    <1>4. ASSUME NEW j \in Jobs, CreateJob(j) PROVE TypeOK'
        <2>1. QueuedJob \in JobRow
            BY EmptyRows DEF QueuedJob, JobStatus
        <2>2. QED
            BY <1>4, <2>1 DEF CreateJob, TypeOK
    <1>5. ASSUME NEW j \in Jobs, NEW o \in Owners, NEW f \in Fences,
                 NEW d \in Delays, RequeueJob(j, o, f, d)
          PROVE  TypeOK'
        <2>1. RequeuedJob(jobs[j]) \in JobRow /\ ReleasedRow(reservations[j]) \in ReservationRow
            BY UnclaimedType, ReservationRows DEF TypeOK
        <2>2. QED
            BY <1>5, <2>1 DEF RequeueJob, TypeOK
    <1>6. ASSUME NEW j \in Jobs, NEW o \in Owners, NEW f \in Fences, NEW d \in Delays,
                 NEW status \in {"completed", "failed", "blocked", "review"},
                 NEW astatus \in {"review", "abandoned"},
                 ImportLegacyJob(j, o, f, d, status, astatus)
          PROVE  TypeOK'
        <2>1. /\ [NoJob EXCEPT !.status = status] \in JobRow
              /\ [NoAttempt EXCEPT !.status = astatus] \in AttemptRow
            BY EmptyRows DEF JobStatus, AttemptStatus
        <2>2. 1 \in AttemptNos
            BY DEF AttemptNos
        <2>3. EndedAttempt(attempts[j][1], astatus) \in AttemptRow
            BY <2>2, EditedRows DEF TypeOK, AttemptStatus
        <2>4. jobs' \in [Jobs -> JobRow]
            BY <1>6, <2>1 DEF ImportLegacyJob, TypeOK
        <2>5. attempts' \in [Jobs -> [AttemptNos -> AttemptRow]]
            <3>1. PICK a \in AttemptRow : attempts' = [attempts EXCEPT ![j][1] = a]
                BY <1>6, <2>1, <2>3 DEF ImportLegacyJob
            <3>2. QED
                BY <2>2, <3>1 DEF TypeOK
        <2>6. QED
            BY <1>6, <2>4, <2>5 DEF ImportLegacyJob, TypeOK
    <1>7. ASSUME NEW j \in Jobs, NEW o \in Owners, NEW f \in Fences,
                 NEW d \in Delays, ReserveResources(j, o, f, d)
          PROVE  TypeOK'
        BY <1>7, ReservedType DEF ReserveResources, TypeOK
    <1>8. ASSUME NEW j \in Jobs, NEW o \in Owners, NEW f \in Fences,
                 NEW d \in Delays, HeartbeatReservation(j, o, f, d)
          PROVE  TypeOK'
        BY <1>8, EditedRows DEF HeartbeatReservation, TypeOK
    <1>9. ASSUME NEW j \in Jobs, NEW o \in Owners, NEW f \in Fences,
                 NEW d \in Delays, ReleaseReservation(j, o, f, d)
          PROVE  TypeOK'
        BY <1>9, ReservationRows DEF ReleaseReservation, TypeOK
    <1>10. ASSUME NEW j \in Jobs, NEW o \in Owners, NEW f \in Fences,
                  NEW d \in Delays, NEW require \in BOOLEAN,
                  ClaimJob(j, o, f, d, require)
           PROVE  TypeOK'
        <2>1. {j} \in SUBSET Jobs
            OBVIOUS
        <2>2. QED
            BY <1>10, <2>1, ClaimRowsType DEF ClaimJob, TypeOK
    <1>11. ASSUME NEW m \in 1..Cardinality(Jobs), NEW o \in Owners, NEW f \in Fences,
                  NEW d \in Delays, NEW require \in BOOLEAN,
                  ClaimJobs(m, o, f, d, require)
           PROVE  TypeOK'
        <2>1. Selected(m, o, f, d, require) \in SUBSET Jobs
            BY DEF Selected, Window
        <2>2. QED
            BY <1>11, <2>1, ClaimRowsType DEF ClaimJobs, TypeOK
    <1>12. ASSUME NEW j \in Jobs, NEW o \in Owners, NEW f \in Fences,
                  NEW d \in Delays, ReserveAndClaimJob(j, o, f, d)
           PROVE  TypeOK'
        <2>1. {j} \in SUBSET Jobs
            OBVIOUS
        <2>2. QED
            BY <1>12, <2>1, ClaimRowsType, ReservedType DEF ReserveAndClaimJob, TypeOK
    <1>13. ASSUME NEW j \in Jobs, NEW n \in AttemptNos, NEW o \in Owners,
                  NEW f \in Fences, NEW d \in Delays, HeartbeatJob(j, n, o, f, d)
           PROVE  TypeOK'
        <2>1. jobs' \in [Jobs -> JobRow]
            BY <1>13, EditedRows DEF HeartbeatJob, TypeOK
        <2>2. attempts' \in [Jobs -> [AttemptNos -> AttemptRow]]
            BY <1>13, EditedRows DEF HeartbeatJob, TypeOK
        <2>3. reservations' \in [Jobs -> ReservationRow]
            BY <1>13, EditedRows DEF HeartbeatJob, TypeOK
        <2>4. QED
            BY <1>13, <2>1, <2>2, <2>3 DEF HeartbeatJob, TypeOK
    <1>14. ASSUME NEW j \in Jobs, NEW n \in AttemptNos, NEW o \in Owners,
                  NEW f \in Fences, NEW d \in Delays,
                  NEW outcome \in {"completed", "failed", "retry"},
                  NEW retry_left \in RetryLeft(outcome, d),
                  CompleteJob(j, n, o, f, d, outcome, retry_left)
           PROVE  TypeOK'
        <2>1. Unclaimed(jobs[j], outcome, retry_left) \in JobRow
            BY UnclaimedType, RetryLeftType DEF TypeOK, JobStatus
        <2>2. attempts' \in [Jobs -> [AttemptNos -> AttemptRow]]
            BY <1>14, EditedRows DEF CompleteJob, TypeOK, AttemptStatus
        <2>3. QED
            BY <1>14, <2>1, <2>2, ReservationRows DEF CompleteJob, TypeOK
    <1>15. ASSUME NEW o \in Owners, NEW f \in Fences, NEW d \in Delays,
                  NEW status \in {"retry", "failed", "queued"}, NEW dead \in SUBSET Jobs,
                  RecoverExpiredJobs(o, f, d, status, dead)
           PROVE  TypeOK'
        <2>1. jobs' \in [Jobs -> JobRow]
            <3>1. ASSUME NEW j \in Jobs
                  PROVE  Unclaimed(jobs[j], IF j \in dead THEN status ELSE "blocked", Null)
                            \in JobRow
                BY UnclaimedType DEF TypeOK, JobStatus
            <3>2. QED
                BY <1>15, <3>1 DEF RecoverExpiredJobs, TypeOK
        <2>2. attempts' \in [Jobs -> [AttemptNos -> AttemptRow]]
            BY <1>15, EditedRows DEF RecoverExpiredJobs, TypeOK
        <2>3. QED
            BY <1>15, <2>1, <2>2, ReservationRows DEF RecoverExpiredJobs, TypeOK
    <1>16. ASSUME Tick PROVE TypeOK'
        <2>1. lease' \in LeaseRow
            BY <1>16, EditedRows DEF Tick, TypeOK
        <2>2. jobs' \in [Jobs -> JobRow]
            BY <1>16, EditedRows DEF Tick, TypeOK
        <2>3. attempts' \in [Jobs -> [AttemptNos -> AttemptRow]]
            BY <1>16, EditedRows DEF Tick, TypeOK
        <2>4. reservations' \in [Jobs -> ReservationRow]
            BY <1>16, EditedRows DEF Tick, TypeOK
        <2>5. QED
            BY <2>1, <2>2, <2>3, <2>4 DEF TypeOK
    <1>17. CASE UNCHANGED vars
        BY <1>17 DEF vars, TypeOK
    <1>18. QED
        BY <1>1, <1>2, <1>3, <1>4, <1>5, <1>6, <1>7, <1>8, <1>9, <1>10, <1>11,
           <1>12, <1>13, <1>14, <1>15, <1>16, <1>17
        DEF Next, LeaseStep, ScopeStep, IngressStep, ReservationStep, ClaimStep,
            AttemptStep

\* Every row the store writes has the schema's columns and values, whatever
\* the interleaving of callers and whatever the age of their clock readings.
THEOREM TypeCorrect == Spec => []TypeOK
    BY TypeInit, TypeStep, PTL DEF Spec

-----------------------------------------------------------------------------
(* One execution of a job at a time *)

\* A job whose rows a step leaves alone stays in flight as it was.
LEMMA FlightFrame ==
    ASSUME NEW j \in Jobs, OneFlight(j),
           jobs'[j] = jobs[j], attempts'[j] = attempts[j]
    PROVE  OneFlight(j)'
    BY DEF OneFlight

\* A job that is not running in either state keeps no running attempt, as long
\* as the step starts none.
LEMMA GroundedFrame ==
    ASSUME NEW j \in Jobs, OneFlight(j), jobs[j].status # "running",
           jobs'[j].status # "running",
           \A n \in AttemptNos :
              attempts'[j][n].status = "running" => attempts[j][n].status = "running"
    PROVE  OneFlight(j)'
    BY DEF OneFlight

\* A claim puts the jobs it selects in flight, under a number that was free.
LEMMA ClaimRowsFlight ==
    ASSUME TypeOK, SingleFlight, NEW S \in SUBSET Jobs, NEW o \in Owners,
           NEW f \in Fences, NEW d \in Delays, ClaimRows(S, o, f, d),
           \A j \in S : Runnable(j, d)
    PROVE  SingleFlight'
    <1> SUFFICES ASSUME NEW j \in Jobs PROVE OneFlight(j)'
        BY DEF SingleFlight
    <1>1. OneFlight(j) /\ jobs[j] \in JobRow /\ attempts[j] \in [AttemptNos -> AttemptRow]
        BY DEF SingleFlight, TypeOK
    <1>2. CASE j \notin S
        <2>1. jobs'[j] = jobs[j] /\ attempts'[j] = attempts[j]
            BY <1>2 DEF ClaimRows
        <2>2. QED
            BY <1>1, <2>1, FlightFrame
    <1>3. CASE j \in S
        <2>1. /\ jobs'[j] = ClaimedJob(jobs[j], o, f, d)
              /\ attempts'[j] = [attempts[j] EXCEPT ![NextAttemptNo(j)] = RunningAttempt(o, f, d)]
              /\ NextAttemptNo(j) \in AttemptNos
            BY <1>3 DEF ClaimRows
        <2>2. \A n \in AttemptNos : attempts[j][n].status # "running"
            BY <1>1, <1>3 DEF Runnable, OneFlight
        <2>3. /\ jobs'[j].attempt_count = NextAttemptNo(j)
              /\ jobs'[j].status = "running"
              /\ jobs'[j].claimed_by = o /\ jobs'[j].claim_fence = f
              /\ jobs'[j].left = LeaseExpiry(d)
            BY <1>1, <2>1 DEF ClaimedJob, NextAttemptNo, JobRow
        <2>4. attempts'[j][NextAttemptNo(j)] = RunningAttempt(o, f, d)
            BY <1>1, <2>1
        <2>5. \A n \in AttemptNos : n # NextAttemptNo(j) => attempts'[j][n] = attempts[j][n]
            BY <1>1, <2>1
        <2>6. QED
            BY <2>1, <2>2, <2>3, <2>4, <2>5 DEF OneFlight, RunningAttempt
    <1>4. QED
        BY <1>2, <1>3

LEMMA FlightInit == Init => SingleFlight
    BY DEF Init, SingleFlight, OneFlight, NoJob, NoAttempt

LEMMA FlightStep == TypeOK /\ SingleFlight /\ [Next]_vars => SingleFlight'
    <1> SUFFICES ASSUME TypeOK, SingleFlight, [Next]_vars PROVE SingleFlight'
        OBVIOUS
    <1>0. ASSUME UNCHANGED <<jobs, attempts>> PROVE SingleFlight'
        BY <1>0 DEF SingleFlight, OneFlight
    <1>1. ASSUME NEW o \in Owners, NEW f \in Fences, NEW d \in Delays,
                 LeaseStep(o, f, d)
          PROVE  SingleFlight'
        BY <1>0, <1>1 DEF LeaseStep, Acquire, HeartbeatLease, Release
    <1>2. ASSUME NEW j \in Jobs, NEW o \in Owners, NEW f \in Fences,
                 NEW d \in Delays, ReservationStep(j, o, f, d)
          PROVE  SingleFlight'
        BY <1>0, <1>2
        DEF ReservationStep, ReserveResources, HeartbeatReservation, ReleaseReservation
    <1>3. ASSUME NEW j \in Jobs, CreateJob(j) PROVE SingleFlight'
        <2> SUFFICES ASSUME NEW i \in Jobs PROVE OneFlight(i)'
            BY DEF SingleFlight
        <2>1. OneFlight(i)
            BY DEF SingleFlight
        <2>2. CASE i = j
            <3>1. jobs[i].status # "running" /\ jobs'[i].status # "running"
                BY <1>3, <2>2 DEF CreateJob, QueuedJob, NoJob, TypeOK
            <3>2. QED
                BY <1>3, <2>1, <3>1, GroundedFrame DEF CreateJob
        <2>3. CASE i # j
            BY <1>3, <2>1, <2>3, FlightFrame DEF CreateJob, TypeOK
        <2>4. QED
            BY <2>2, <2>3
    <1>4. ASSUME NEW j \in Jobs, NEW o \in Owners, NEW f \in Fences,
                 NEW d \in Delays, RequeueJob(j, o, f, d)
          PROVE  SingleFlight'
        <2> SUFFICES ASSUME NEW i \in Jobs PROVE OneFlight(i)'
            BY DEF SingleFlight
        <2>1. OneFlight(i)
            BY DEF SingleFlight
        <2>2. CASE i = j
            <3>1. jobs[i].status # "running" /\ jobs'[i].status # "running"
                BY <1>4, <2>2 DEF RequeueJob, RequeuedJob, TypeOK, JobRow
            <3>2. QED
                BY <1>4, <2>1, <3>1, GroundedFrame DEF RequeueJob
        <2>3. CASE i # j
            BY <1>4, <2>1, <2>3, FlightFrame DEF RequeueJob, TypeOK
        <2>4. QED
            BY <2>2, <2>3
    <1>5. ASSUME NEW j \in Jobs, NEW o \in Owners, NEW f \in Fences, NEW d \in Delays,
                 NEW status \in {"completed", "failed", "blocked", "review"},
                 NEW astatus \in {"review", "abandoned"},
                 ImportLegacyJob(j, o, f, d, status, astatus)
          PROVE  SingleFlight'
        <2> SUFFICES ASSUME NEW i \in Jobs PROVE OneFlight(i)'
            BY DEF SingleFlight
        <2>1. /\ OneFlight(i) /\ jobs[i] \in JobRow
              /\ attempts \in [Jobs -> [AttemptNos -> AttemptRow]]
            BY DEF SingleFlight, TypeOK
        <2>2. PICK a : attempts' = [attempts EXCEPT ![j][1] = a] /\ a.status # "running"
            <3>1. [NoAttempt EXCEPT !.status = astatus].status # "running"
                BY DEF NoAttempt
            <3>2. EndedAttempt(attempts[j][1], astatus).status # "running"
                BY <2>1, StoreAssumption DEF EndedAttempt, AttemptRow, AttemptNos
            <3>3. QED
                BY <1>5, <3>1, <3>2 DEF ImportLegacyJob
        <2>3. CASE i = j /\ jobs[j].status = "none"
            <3>1. jobs'[i].status = status
                BY <1>5, <2>3 DEF ImportLegacyJob, NoJob, TypeOK
            <3>2. \A n \in AttemptNos :
                     attempts'[i][n].status = "running" => attempts[i][n].status = "running"
                BY <2>1, <2>2
            <3>3. QED
                BY <2>1, <2>3, <3>1, <3>2, GroundedFrame
        <2>4. CASE i = j /\ jobs[j].status # "none"
            <3>1. jobs'[i] = jobs[i] /\ attempts[i][1].status = "review"
                BY <1>5, <2>4 DEF ImportLegacyJob
            <3>2. jobs[i].status = "running" => jobs[i].attempt_count # 1
                BY <2>1, <3>1 DEF OneFlight
            <3>3. /\ attempts'[i][1].status # "running"
                  /\ \A n \in AttemptNos \ {1} : attempts'[i][n] = attempts[i][n]
                BY <2>1, <2>2, <2>4, StoreAssumption DEF AttemptNos
            <3>4. QED
                BY <2>1, <3>1, <3>2, <3>3 DEF OneFlight
        <2>5. CASE i # j
            <3>1. jobs'[i] = jobs[i] /\ attempts'[i] = attempts[i]
                BY <1>5, <2>1, <2>2, <2>5 DEF ImportLegacyJob, TypeOK
            <3>2. QED
                BY <2>1, <3>1, FlightFrame
        <2>6. QED
            BY <2>3, <2>4, <2>5
    <1>6. ASSUME NEW j \in Jobs, NEW o \in Owners, NEW f \in Fences,
                 NEW d \in Delays, ClaimStep(j, o, f, d)
          PROVE  SingleFlight'
        <2>1. {j} \in SUBSET Jobs /\ ClaimRows({j}, o, f, d) /\ \A i \in {j} : Runnable(i, d)
            BY <1>6 DEF ClaimStep, ReserveAndClaimJob, ClaimJob
        <2>2. QED
            BY <2>1, ClaimRowsFlight
    <1>7. ASSUME NEW m \in 1..Cardinality(Jobs), NEW o \in Owners, NEW f \in Fences,
                 NEW d \in Delays, NEW require \in BOOLEAN,
                 ClaimJobs(m, o, f, d, require)
          PROVE  SingleFlight'
        <2>1. /\ Selected(m, o, f, d, require) \in SUBSET Jobs
              /\ \A i \in Selected(m, o, f, d, require) : Runnable(i, d)
            BY DEF Selected, Window
        <2>2. QED
            BY <1>7, <2>1, ClaimRowsFlight DEF ClaimJobs
    <1>8. ASSUME NEW j \in Jobs, NEW n \in AttemptNos, NEW o \in Owners,
                 NEW f \in Fences, NEW d \in Delays, HeartbeatJob(j, n, o, f, d)
          PROVE  SingleFlight'
        <2> SUFFICES ASSUME NEW i \in Jobs PROVE OneFlight(i)'
            BY DEF SingleFlight
        <2>1. /\ OneFlight(i) /\ jobs[i] \in JobRow
              /\ attempts[i] \in [AttemptNos -> AttemptRow]
            BY DEF SingleFlight, TypeOK
        <2>2. CASE i = j
            <3>1. n = jobs[j].attempt_count
                BY <1>8, <2>1, <2>2 DEF HeartbeatJob, Claimed, OneFlight
            <3>2. /\ jobs'[j] = Renewed(jobs[j], d)
                  /\ attempts'[j] = [attempts[j] EXCEPT ![n] = Renewed(attempts[j][n], d)]
                BY <1>8 DEF HeartbeatJob, TypeOK
            <3>3. jobs[j].status = "running"
                BY <1>8 DEF HeartbeatJob, Claimed
            <3>4. attempts[j][n] = [status |-> "running", owner |-> jobs[j].claimed_by,
                                    fence |-> jobs[j].claim_fence, left |-> jobs[j].left]
                BY <2>1, <2>2, <3>1, <3>3 DEF OneFlight
            <3>5. Renewed(attempts[j][n], d) =
                     [status |-> "running", owner |-> jobs[j].claimed_by,
                      fence |-> jobs[j].claim_fence, left |-> LeaseExpiry(d)]
                BY <3>4 DEF Renewed
            <3>6. /\ jobs'[j].status = "running" /\ jobs'[j].attempt_count = n
                  /\ jobs'[j].claimed_by = jobs[j].claimed_by
                  /\ jobs'[j].claim_fence = jobs[j].claim_fence
                  /\ jobs'[j].left = LeaseExpiry(d)
                BY <2>1, <2>2, <3>1, <3>2, <3>3 DEF Renewed, JobRow
            <3>7. /\ attempts'[j][n] = Renewed(attempts[j][n], d)
                  /\ \A k \in AttemptNos \ {n} : attempts'[j][k] = attempts[j][k]
                BY <2>1, <2>2, <3>2
            <3>8. QED
                BY <2>1, <2>2, <3>1, <3>5, <3>6, <3>7 DEF OneFlight
        <2>3. CASE i # j
            BY <1>8, <2>1, <2>3, FlightFrame DEF HeartbeatJob, TypeOK
        <2>4. QED
            BY <2>2, <2>3
    <1>9. ASSUME NEW j \in Jobs, NEW n \in AttemptNos, NEW o \in Owners,
                 NEW f \in Fences, NEW d \in Delays,
                 NEW outcome \in {"completed", "failed", "retry"},
                 NEW retry_left \in RetryLeft(outcome, d),
                 CompleteJob(j, n, o, f, d, outcome, retry_left)
          PROVE  SingleFlight'
        <2> SUFFICES ASSUME NEW i \in Jobs PROVE OneFlight(i)'
            BY DEF SingleFlight
        <2>1. /\ OneFlight(i) /\ jobs[i] \in JobRow
              /\ attempts[i] \in [AttemptNos -> AttemptRow]
            BY DEF SingleFlight, TypeOK
        <2>2. CASE i = j
            <3>1. n = jobs[j].attempt_count
                BY <1>9, <2>1, <2>2 DEF CompleteJob, Claimed, OneFlight
            <3>2. jobs'[j].status # "running"
                BY <1>9, <2>1, <2>2 DEF CompleteJob, Unclaimed, TypeOK, JobRow
            <3>3. /\ attempts'[j][n] = EndedAttempt(attempts[j][n], outcome)
                  /\ \A k \in AttemptNos \ {n} : attempts'[j][k] = attempts[j][k]
                BY <1>9 DEF CompleteJob, TypeOK
            <3>4. attempts'[j][n].status # "running"
                BY <2>1, <2>2, <3>3 DEF EndedAttempt, AttemptRow
            <3>5. QED
                BY <2>1, <2>2, <3>1, <3>2, <3>3, <3>4 DEF OneFlight
        <2>3. CASE i # j
            BY <1>9, <2>1, <2>3, FlightFrame DEF CompleteJob, TypeOK
        <2>4. QED
            BY <2>2, <2>3
    <1>10. ASSUME NEW o \in Owners, NEW f \in Fences, NEW d \in Delays,
                  NEW status \in {"retry", "failed", "queued"}, NEW dead \in SUBSET Jobs,
                  RecoverExpiredJobs(o, f, d, status, dead)
           PROVE  SingleFlight'
        <2> SUFFICES ASSUME NEW i \in Jobs PROVE OneFlight(i)'
            BY DEF SingleFlight
        <2>1. /\ OneFlight(i) /\ jobs[i] \in JobRow
              /\ attempts[i] \in [AttemptNos -> AttemptRow]
            BY DEF SingleFlight, TypeOK
        <2>2. CASE i \in ExpiredRunning(d)
            <3>1. jobs'[i].status # "running"
                BY <1>10, <2>1, <2>2 DEF RecoverExpiredJobs, Unclaimed, JobRow
            <3>2. ASSUME NEW n \in AttemptNos PROVE attempts'[i][n].status # "running"
                <4>1. attempts'[i][n] = AbandonedAttempt(attempts[i][n])
                    BY <1>10, <2>2 DEF RecoverExpiredJobs
                <4>2. QED
                    BY <2>1, <4>1 DEF AbandonedAttempt, EndedAttempt, AttemptRow
            <3>3. QED
                BY <3>1, <3>2 DEF OneFlight
        <2>3. CASE i \notin ExpiredRunning(d)
            BY <1>10, <2>1, <2>3, FlightFrame DEF RecoverExpiredJobs
        <2>4. QED
            BY <2>2, <2>3
    <1>11. ASSUME Tick PROVE SingleFlight'
        <2> SUFFICES ASSUME NEW i \in Jobs PROVE OneFlight(i)'
            BY DEF SingleFlight
        <2>1. /\ OneFlight(i) /\ jobs[i] \in JobRow
              /\ attempts[i] \in [AttemptNos -> AttemptRow]
            BY DEF SingleFlight, TypeOK
        <2>2. /\ jobs'[i].status = jobs[i].status
              /\ jobs'[i].attempt_count = jobs[i].attempt_count
              /\ jobs'[i].claimed_by = jobs[i].claimed_by
              /\ jobs'[i].claim_fence = jobs[i].claim_fence
              /\ jobs'[i].left = CountDown(jobs[i].left)
            BY <1>11, <2>1 DEF Tick, Aged, JobRow
        <2>3. \A n \in AttemptNos : attempts'[i][n] = Aged(attempts[i][n])
            BY <1>11 DEF Tick
        <2>4. \A n \in AttemptNos : attempts'[i][n].status = attempts[i][n].status
            BY <2>1, <2>3 DEF Aged, AttemptRow
        <2>5. ASSUME jobs[i].status = "running"
              PROVE  attempts'[i][jobs[i].attempt_count] =
                        [status |-> "running", owner |-> jobs[i].claimed_by,
                         fence |-> jobs[i].claim_fence, left |-> CountDown(jobs[i].left)]
            BY <2>1, <2>3, <2>5 DEF OneFlight, Aged
        <2>6. QED
            BY <2>1, <2>2, <2>4, <2>5 DEF OneFlight
    <1>12. CASE UNCHANGED vars
        BY <1>0, <1>12 DEF vars
    <1>13. QED
        BY <1>1, <1>2, <1>3, <1>4, <1>5, <1>6, <1>7, <1>8, <1>9, <1>10, <1>11, <1>12
        DEF Next, IngressStep, AttemptStep, ScopeStep

\* No job of the ledger is ever executed twice at the same time: a running job
\* has exactly one running attempt and both rows agree on who runs it.
THEOREM OneExecutionAtATime == Spec => []SingleFlight
    <1>1. TypeOK /\ SingleFlight /\ TypeOK' /\ [Next]_vars => SingleFlight'
        BY FlightStep
    <1>2. QED
        BY FlightInit, <1>1, TypeCorrect, PTL DEF Spec

-----------------------------------------------------------------------------
(* Fencing *)

\* FenceOrder for one table row: what it says of a job and of a reservation.
JobFenced(j) ==
    jobs[j].status = "running" =>
        /\ jobs[j].claim_fence \in 1..lease.fence
        /\ jobs[j].claim_fence = lease.fence => jobs[j].claimed_by = lease.owner
ReservationFenced(j) ==
    reservations[j].status = "active" =>
        /\ reservations[j].fence \in 1..lease.fence
        /\ reservations[j].fence = lease.fence => reservations[j].owner = lease.owner

LEMMA FenceOrderRows ==
    FenceOrder <=> \A j \in Jobs : JobFenced(j) /\ ReservationFenced(j)
    BY DEF FenceOrder, JobFenced, ReservationFenced

\* Under an unchanged owner and fence, a row stays fenced if it keeps its
\* claimant and fence, becomes inactive, or is taken by the lease holder.
LEMMA FencedFrame ==
    ASSUME NEW j \in Jobs, JobFenced(j), ReservationFenced(j),
           lease.fence \in Nat, lease'.fence = lease.fence, lease'.owner = lease.owner,
           \/ jobs'[j].status # "running"
           \/ /\ jobs[j].status = "running"
              /\ jobs'[j].claimed_by = jobs[j].claimed_by
              /\ jobs'[j].claim_fence = jobs[j].claim_fence
           \/ /\ jobs'[j].claimed_by = lease.owner
              /\ jobs'[j].claim_fence = lease.fence
              /\ lease.fence \in Fences,
           \/ reservations'[j].status # "active"
           \/ /\ reservations[j].status = "active"
              /\ reservations'[j].owner = reservations[j].owner
              /\ reservations'[j].fence = reservations[j].fence
           \/ /\ reservations'[j].owner = lease.owner
              /\ reservations'[j].fence = lease.fence
              /\ lease.fence \in Fences
    PROVE  JobFenced(j)' /\ ReservationFenced(j)'
    BY StoreAssumption DEF JobFenced, ReservationFenced, Fences

\* What the reservation helpers do to a row.
LEMMA ReservationEffects ==
    ASSUME TypeOK, NEW j \in Jobs, NEW o, NEW f
    PROVE  /\ ReleasedRow(reservations[j]).status # "active"
           /\ \/ OwnReleasedRow(reservations[j], o, f).status # "active"
              \/ OwnReleasedRow(reservations[j], o, f) = reservations[j]
           /\ \A d \in Delays : /\ Renewed(reservations[j], d).status = reservations[j].status
                                /\ Renewed(reservations[j], d).owner = reservations[j].owner
                                /\ Renewed(reservations[j], d).fence = reservations[j].fence
           /\ Aged(reservations[j]).status = reservations[j].status
           /\ Aged(reservations[j]).owner = reservations[j].owner
           /\ Aged(reservations[j]).fence = reservations[j].fence
           /\ \A d \in Delays : \/ Swept(d)[j].status # "active"
                                \/ Swept(d)[j] = reservations[j]
    BY DEF TypeOK, ReservationRow, ReleasedRow, OwnReleasedRow, InactiveRow,
           NoReservation, NoAttempt, Renewed, Aged, Swept

\* A row after a reservation: swept, unchanged, or the caller's new row.
LEMMA ReservedEffects ==
    ASSUME TypeOK, NEW j \in Jobs, NEW i \in Jobs, NEW o \in Owners,
           NEW f \in Fences, NEW d \in Delays
    PROVE  \/ Reserved(j, o, f, d)[i].status # "active"
           \/ Reserved(j, o, f, d)[i] = reservations[i]
           \/ /\ Reserved(j, o, f, d)[i].owner = o
              /\ Reserved(j, o, f, d)[i].fence = f
    <1>1. Swept(d) \in [Jobs -> ReservationRow]
        BY ReservedType
    <1>2. Swept(d)[i].status # "active" \/ Swept(d)[i] = reservations[i]
        BY ReservationEffects
    <1>3. QED
        BY <1>1, <1>2 DEF Reserved

LEMMA ReservationTable == TypeOK => reservations \in [Jobs -> ReservationRow]
    BY DEF TypeOK

LEMMA FenceInit == Init => FenceOrder
    BY DEF Init, FenceOrder, NoJob, NoReservation, NoAttempt

LEMMA FenceStep == TypeOK /\ FenceOrder /\ [Next]_vars => FenceOrder'
    <1> SUFFICES ASSUME TypeOK, FenceOrder, [Next]_vars, NEW i \in Jobs
                 PROVE  JobFenced(i)' /\ ReservationFenced(i)'
        BY DEF FenceOrder, JobFenced, ReservationFenced
    <1>0. /\ JobFenced(i) /\ ReservationFenced(i)
          /\ lease.fence \in Nat /\ lease.fence \in 0..MaxFence
          /\ jobs[i] \in JobRow /\ reservations[i] \in ReservationRow
        BY FenceOrderRows, StoreAssumption DEF TypeOK, LeaseRow
    <1> DEFINE Goal == JobFenced(i)' /\ ReservationFenced(i)'
    <1>1. ASSUME NEW o \in Owners, NEW d \in Delays, Acquire(o, d) PROVE Goal
        <2>1. CASE lease' = Renewed(lease, d)
            <3>1. lease'.fence = lease.fence /\ lease'.owner = lease.owner
                BY <2>1 DEF Renewed, TypeOK, LeaseRow
            <3>2. QED
                BY <1>0, <1>1, <3>1 DEF Acquire, JobFenced, ReservationFenced
        <2>2. CASE lease'.fence = lease.fence + 1
            BY <1>0, <1>1, <2>2 DEF Acquire, JobFenced, ReservationFenced
        <2>3. QED
            BY <1>1, <2>1, <2>2 DEF Acquire
    <1>2. ASSUME NEW o \in Owners, NEW f \in Fences, NEW d \in Delays,
                 HeartbeatLease(o, f, d) \/ Release(o, f)
          PROVE  Goal
        <2>1. lease'.fence = lease.fence /\ lease'.owner = lease.owner
            BY <1>2 DEF HeartbeatLease, Release, Renewed, TypeOK, LeaseRow
        <2>2. QED
            BY <1>0, <1>2, <2>1
            DEF HeartbeatLease, Release, JobFenced, ReservationFenced
    <1>3. ASSUME NEW j \in Jobs, CreateJob(j) PROVE Goal
        <2>1. jobs'[i] = jobs[i] \/ jobs'[i].status # "running"
            BY <1>3 DEF CreateJob, TypeOK, QueuedJob, NoJob
        <2>2. QED
            BY <1>0, <1>3, <2>1, FencedFrame DEF CreateJob
    <1>4. ASSUME NEW j \in Jobs, NEW o \in Owners, NEW f \in Fences,
                 NEW d \in Delays, RequeueJob(j, o, f, d)
          PROVE  Goal
        <2>1. jobs'[i] = jobs[i] \/ jobs'[i].status # "running"
            BY <1>0, <1>4 DEF RequeueJob, RequeuedJob, TypeOK, JobRow
        <2>2. reservations'[i] = reservations[i] \/ reservations'[i].status # "active"
            BY <1>4, ReservationEffects DEF RequeueJob, TypeOK
        <2>3. QED
            BY <1>0, <1>4, <2>1, <2>2, FencedFrame DEF RequeueJob
    <1>5. ASSUME NEW j \in Jobs, NEW o \in Owners, NEW f \in Fences, NEW d \in Delays,
                 NEW status \in {"completed", "failed", "blocked", "review"},
                 NEW astatus \in {"review", "abandoned"},
                 ImportLegacyJob(j, o, f, d, status, astatus)
          PROVE  Goal
        <2>1. jobs'[i] = jobs[i] \/ jobs'[i].status # "running"
            BY <1>5 DEF ImportLegacyJob, TypeOK, NoJob
        <2>2. QED
            BY <1>0, <1>5, <2>1, FencedFrame DEF ImportLegacyJob
    <1>6. ASSUME NEW j \in Jobs, NEW o \in Owners, NEW f \in Fences,
                 NEW d \in Delays, ReserveResources(j, o, f, d)
          PROVE  Goal
        BY <1>0, <1>6, FencedFrame, ReservedEffects DEF ReserveResources, HoldsLease
    <1>7. ASSUME NEW j \in Jobs, NEW o \in Owners, NEW f \in Fences, NEW d \in Delays,
                 HeartbeatReservation(j, o, f, d) \/ ReleaseReservation(j, o, f, d)
          PROVE  Goal
        <2>1. \/ reservations'[i].status # "active"
              \/ /\ reservations'[i].status = reservations[i].status
                 /\ reservations'[i].owner = reservations[i].owner
                 /\ reservations'[i].fence = reservations[i].fence
            <3>1. CASE HeartbeatReservation(j, o, f, d)
                <4>1. reservations' = [reservations EXCEPT ![j] = Renewed(reservations[j], d)]
                    BY <3>1 DEF HeartbeatReservation
                <4>2. reservations'[i] = IF i = j THEN Renewed(reservations[j], d)
                                                  ELSE reservations[i]
                    BY <4>1, ReservationTable
                <4>3. QED
                    BY <4>2, ReservationEffects
            <3>2. CASE ReleaseReservation(j, o, f, d)
                <4>1. reservations' =
                         [reservations EXCEPT ![j] = OwnReleasedRow(reservations[j], o, f)]
                    BY <3>2 DEF ReleaseReservation
                <4>2. reservations'[i] = IF i = j THEN OwnReleasedRow(reservations[j], o, f)
                                                  ELSE reservations[i]
                    BY <4>1, ReservationTable
                <4>3. QED
                    BY <4>2, ReservationEffects
            <3>3. QED
                BY <1>7, <3>1, <3>2
        <2>2. QED
            BY <1>0, <1>7, <2>1, FencedFrame DEF HeartbeatReservation, ReleaseReservation
    <1>8. ASSUME NEW S \in SUBSET Jobs, NEW o \in Owners, NEW f \in Fences,
                 NEW d \in Delays, ClaimRows(S, o, f, d)
          PROVE  \/ jobs'[i] = jobs[i]
                 \/ jobs'[i].claimed_by = o /\ jobs'[i].claim_fence = f
        BY <1>0, <1>8 DEF ClaimRows, ClaimedJob, JobRow
    <1>9. ASSUME NEW j \in Jobs, NEW o \in Owners, NEW f \in Fences,
                 NEW d \in Delays, NEW require \in BOOLEAN, ClaimJob(j, o, f, d, require)
          PROVE  Goal
        <2>1. {j} \in SUBSET Jobs
            OBVIOUS
        <2>2. QED
            BY <1>0, <1>8, <1>9, <2>1, FencedFrame DEF ClaimJob, HoldsLease
    <1>10. ASSUME NEW m \in 1..Cardinality(Jobs), NEW o \in Owners, NEW f \in Fences,
                  NEW d \in Delays, NEW require \in BOOLEAN,
                  ClaimJobs(m, o, f, d, require)
           PROVE  Goal
        <2>1. Selected(m, o, f, d, require) \in SUBSET Jobs
            BY DEF Selected, Window
        <2>2. QED
            BY <1>0, <1>8, <1>10, <2>1, FencedFrame DEF ClaimJobs, HoldsLease
    <1>11. ASSUME NEW j \in Jobs, NEW o \in Owners, NEW f \in Fences,
                  NEW d \in Delays, ReserveAndClaimJob(j, o, f, d)
           PROVE  Goal
        <2>1. {j} \in SUBSET Jobs
            OBVIOUS
        <2>2. /\ ClaimRows({j}, o, f, d) /\ reservations' = Reserved(j, o, f, d)
              /\ lease' = lease /\ lease.owner = o /\ lease.fence = f
            BY <1>11 DEF ReserveAndClaimJob, HoldsLease
        <2>3. \/ jobs'[i] = jobs[i]
              \/ jobs'[i].claimed_by = o /\ jobs'[i].claim_fence = f
            BY <1>8, <2>1, <2>2
        <2>4. QED
            BY <1>0, <2>2, <2>3, FencedFrame, ReservedEffects
    <1>12. ASSUME NEW j \in Jobs, NEW n \in AttemptNos, NEW o \in Owners,
                  NEW f \in Fences, NEW d \in Delays, HeartbeatJob(j, n, o, f, d)
           PROVE  Goal
        <2>1. /\ jobs'[i].status = jobs[i].status
              /\ jobs'[i].claimed_by = jobs[i].claimed_by
              /\ jobs'[i].claim_fence = jobs[i].claim_fence
            BY <1>0, <1>12 DEF HeartbeatJob, Renewed, TypeOK, JobRow
        <2>2. /\ reservations'[i].status = reservations[i].status
              /\ reservations'[i].owner = reservations[i].owner
              /\ reservations'[i].fence = reservations[i].fence
            <3>1. reservations' =
                     [reservations EXCEPT ![j] = IF OwnActive(reservations, j, o, f)
                                                 THEN Renewed(reservations[j], d)
                                                 ELSE reservations[j]]
                BY <1>12 DEF HeartbeatJob
            <3>2. \/ reservations'[i] = reservations[i]
                  \/ reservations'[i] = Renewed(reservations[i], d)
                BY <3>1, ReservationTable
            <3>3. QED
                BY <3>2, ReservationEffects
        <2>3. QED
            BY <1>0, <1>12, <2>1, <2>2, FencedFrame DEF HeartbeatJob
    <1>13. ASSUME NEW j \in Jobs, NEW n \in AttemptNos, NEW o \in Owners,
                  NEW f \in Fences, NEW d \in Delays,
                  NEW outcome \in {"completed", "failed", "retry"},
                  NEW retry_left \in RetryLeft(outcome, d),
                  CompleteJob(j, n, o, f, d, outcome, retry_left)
           PROVE  Goal
        <2>1. jobs'[i] = jobs[i] \/ jobs'[i].status # "running"
            BY <1>0, <1>13 DEF CompleteJob, Unclaimed, TypeOK, JobRow
        <2>2. reservations'[i] = reservations[i] \/ reservations'[i].status # "active"
            BY <1>13, ReservationEffects DEF CompleteJob, TypeOK
        <2>3. QED
            BY <1>0, <1>13, <2>1, <2>2, FencedFrame DEF CompleteJob
    <1>14. ASSUME NEW o \in Owners, NEW f \in Fences, NEW d \in Delays,
                  NEW status \in {"retry", "failed", "queued"}, NEW dead \in SUBSET Jobs,
                  RecoverExpiredJobs(o, f, d, status, dead)
           PROVE  Goal
        <2>1. jobs'[i] = jobs[i] \/ jobs'[i].status # "running"
            BY <1>0, <1>14 DEF RecoverExpiredJobs, Unclaimed, JobRow
        <2>2. reservations'[i] = reservations[i] \/ reservations'[i].status # "active"
            BY <1>14, ReservationEffects DEF RecoverExpiredJobs
        <2>3. QED
            BY <1>0, <1>14, <2>1, <2>2, FencedFrame DEF RecoverExpiredJobs
    <1>15. ASSUME Tick PROVE Goal
        <2>1. /\ jobs'[i].status = jobs[i].status
              /\ jobs'[i].claimed_by = jobs[i].claimed_by
              /\ jobs'[i].claim_fence = jobs[i].claim_fence
            BY <1>0, <1>15 DEF Tick, Aged, JobRow
        <2>2. /\ reservations'[i].status = reservations[i].status
              /\ reservations'[i].owner = reservations[i].owner
              /\ reservations'[i].fence = reservations[i].fence
            BY <1>15, ReservationEffects DEF Tick
        <2>3. lease'.fence = lease.fence /\ lease'.owner = lease.owner
            BY <1>15 DEF Tick, Aged, TypeOK, LeaseRow
        <2>4. QED
            BY <1>0, <2>1, <2>2, <2>3, FencedFrame
    <1>16. CASE UNCHANGED vars
        BY <1>0, <1>16 DEF vars, JobFenced, ReservationFenced
    <1>17. QED
        BY <1>1, <1>2, <1>3, <1>4, <1>5, <1>6, <1>7, <1>9, <1>10, <1>11, <1>12,
           <1>13, <1>14, <1>15, <1>16
        DEF Next, LeaseStep, ScopeStep, IngressStep, ReservationStep, ClaimStep,
            AttemptStep

\* No claim and no reservation ever carries a fence the lease has not issued,
\* and everything under the current fence belongs to the current holder.
THEOREM FencesAreOrdered == Spec => []FenceOrder
    BY FenceInit, FenceStep, TypeCorrect, PTL DEF Spec

-----------------------------------------------------------------------------
(* Capacity *)

\* The measured active rows of a table in group g.
Measured(table, g) == Occupants(table, g) \ Unmeasured

LEMMA MeasuredFinite ==
    ASSUME NEW table, NEW g
    PROVE  /\ IsFiniteSet(Occupants(table, g)) /\ IsFiniteSet(Measured(table, g))
           /\ Cardinality(Occupants(table, g)) \in Nat
           /\ Cardinality(Measured(table, g)) \in Nat
           /\ Cardinality(Measured(table, g)) <= Cardinality(Occupants(table, g))
    <1>1. Occupants(table, g) \in SUBSET Jobs
        BY DEF Occupants
    <1>2. IsFiniteSet(Occupants(table, g))
        BY <1>1, FS_Subset, StoreAssumption
    <1>3. Measured(table, g) \in SUBSET Occupants(table, g)
        BY DEF Measured
    <1>4. QED
        BY <1>2, <1>3, FS_Subset, FS_CardinalityType

\* A step that activates no reservation keeps every group within capacity.
LEMMA CapacityShrinks ==
    ASSUME CapacityRespected,
           \A i \in Jobs : reservations'[i].status = "active" =>
                              reservations[i].status = "active"
    PROVE  CapacityRespected'
    <1> SUFFICES ASSUME NEW g \in Groups
                 PROVE  Cardinality(Measured(reservations', g)) <= Capacity[g]
        BY DEF CapacityRespected, Measured, Occupants
    <1>1. Measured(reservations', g) \in SUBSET Measured(reservations, g)
        BY DEF Measured, Occupants
    <1>2. Cardinality(Measured(reservations', g)) <= Cardinality(Measured(reservations, g))
        BY <1>1, MeasuredFinite, FS_Subset
    <1>3. Cardinality(Measured(reservations, g)) <= Capacity[g]
        BY DEF CapacityRespected, Measured
    <1>4. QED
        BY <1>2, <1>3, MeasuredFinite, StoreAssumption

\* The sweep, the admission check and the INSERT keep it too: the check counts
\* every active row, so the new one fits.
LEMMA CapacityReserved ==
    ASSUME TypeOK, CapacityRespected, NEW j \in Jobs, NEW o \in Owners,
           NEW f \in Fences, NEW d \in Delays, CanReserve(j, o, f, d),
           reservations' = Reserved(j, o, f, d)
    PROVE  CapacityRespected'
    <1>1. Swept(d) \in [Jobs -> ReservationRow]
        BY ReservedType
    <1>2. \A i \in Jobs : Swept(d)[i].status = "active" => reservations[i].status = "active"
        BY ReservationEffects
    <1>3. CASE OwnActive(Swept(d), j, o, f)
        BY <1>2, <1>3, CapacityShrinks DEF Reserved
    <1>4. CASE ~OwnActive(Swept(d), j, o, f)
        <2>1. /\ Swept(d)[j].status # "active" /\ Admitted(Swept(d), j)
              /\ \A i \in Jobs \ {j} : reservations'[i] = Swept(d)[i]
            BY <1>1, <1>4 DEF CanReserve, Reserved
        <2> SUFFICES ASSUME NEW g \in Groups
                     PROVE  Cardinality(Measured(reservations', g)) <= Capacity[g]
            BY DEF CapacityRespected, Measured, Occupants
        <2>2. Measured(Swept(d), g) \in SUBSET Measured(reservations, g)
            BY <1>2 DEF Measured, Occupants
        <2>3. Cardinality(Measured(Swept(d), g)) <= Capacity[g]
            <3>1. Cardinality(Measured(Swept(d), g)) <= Cardinality(Measured(reservations, g))
                BY <2>2, MeasuredFinite, FS_Subset
            <3>2. Cardinality(Measured(reservations, g)) <= Capacity[g]
                BY DEF CapacityRespected, Measured
            <3>3. QED
                BY <3>1, <3>2, MeasuredFinite, StoreAssumption
        <2>4. CASE j \in Unmeasured \/ g \notin GroupsOf[j]
            <3>1. Measured(reservations', g) \in SUBSET Measured(Swept(d), g)
                BY <2>1, <2>4 DEF Measured, Occupants
            <3>2. Cardinality(Measured(reservations', g)) <= Cardinality(Measured(Swept(d), g))
                BY <3>1, MeasuredFinite, FS_Subset
            <3>3. QED
                BY <2>3, <3>2, MeasuredFinite, StoreAssumption
        <2>5. CASE j \notin Unmeasured /\ g \in GroupsOf[j]
            <3>1. Cardinality(Occupants(Swept(d), g)) + 1 <= Capacity[g]
                BY <2>1, <2>5 DEF Admitted
            <3>2. Measured(reservations', g) \in SUBSET (Occupants(Swept(d), g) \cup {j})
                BY <2>1 DEF Measured, Occupants
            <3>3. /\ IsFiniteSet(Occupants(Swept(d), g) \cup {j})
                  /\ Cardinality(Occupants(Swept(d), g) \cup {j})
                        <= Cardinality(Occupants(Swept(d), g)) + 1
                  /\ Cardinality(Occupants(Swept(d), g) \cup {j}) \in Nat
                <4>1. IsFiniteSet(Occupants(Swept(d), g)) /\ Cardinality(Occupants(Swept(d), g)) \in Nat
                    BY MeasuredFinite
                <4>2. IsFiniteSet(Occupants(Swept(d), g) \cup {j})
                    BY <4>1, FS_AddElement
                <4>3. j \notin Occupants(Swept(d), g)
                    BY <2>1 DEF Occupants
                <4>4. Cardinality(Occupants(Swept(d), g) \cup {j})
                         = Cardinality(Occupants(Swept(d), g)) + 1
                    BY <4>1, <4>3, FS_AddElement
                <4>5. QED
                    BY <4>1, <4>2, <4>4
            <3>4. Cardinality(Measured(reservations', g))
                     <= Cardinality(Occupants(Swept(d), g) \cup {j})
                BY <3>2, <3>3, FS_Subset
            <3>5. QED
                BY <3>1, <3>3, <3>4, MeasuredFinite, StoreAssumption
        <2>6. QED
            BY <2>4, <2>5
    <1>5. QED
        BY <1>3, <1>4

LEMMA CapacityInit == Init => CapacityRespected
    <1> SUFFICES ASSUME Init, NEW g \in Groups
                 PROVE  Cardinality(Measured(reservations, g)) <= Capacity[g]
        BY DEF CapacityRespected, Measured
    <1>1. Measured(reservations, g) = {}
        BY DEF Init, Measured, Occupants, NoReservation, NoAttempt
    <1>2. QED
        BY <1>1, FS_EmptySet, StoreAssumption

LEMMA CapacityStep == TypeOK /\ CapacityRespected /\ [Next]_vars => CapacityRespected'
    <1> SUFFICES ASSUME TypeOK, CapacityRespected, [Next]_vars PROVE CapacityRespected'
        OBVIOUS
    <1>0. ASSUME UNCHANGED reservations PROVE CapacityRespected'
        BY <1>0, CapacityShrinks
    <1>1. ASSUME NEW o \in Owners, NEW f \in Fences, NEW d \in Delays, LeaseStep(o, f, d)
          PROVE  CapacityRespected'
        BY <1>0, <1>1 DEF LeaseStep, Acquire, HeartbeatLease, Release
    <1>2. ASSUME NEW j \in Jobs, CreateJob(j) PROVE CapacityRespected'
        BY <1>0, <1>2 DEF CreateJob
    <1>3. ASSUME NEW j \in Jobs, NEW o \in Owners, NEW f \in Fences, NEW d \in Delays,
                 IngressStep(j, o, f, d)
          PROVE  CapacityRespected'
        <2>1. CASE RequeueJob(j, o, f, d)
            <3>1. \A i \in Jobs : reservations'[i].status = "active" =>
                                     reservations[i].status = "active"
                BY <2>1, ReservationEffects DEF RequeueJob, TypeOK
            <3>2. QED
                BY <3>1, CapacityShrinks
        <2>2. CASE UNCHANGED reservations
            BY <1>0, <2>2
        <2>3. QED
            BY <1>3, <2>1, <2>2 DEF IngressStep, ImportLegacyJob
    <1>4. ASSUME NEW j \in Jobs, NEW o \in Owners, NEW f \in Fences, NEW d \in Delays,
                 ReserveResources(j, o, f, d) \/ ReserveAndClaimJob(j, o, f, d)
          PROVE  CapacityRespected'
        BY <1>4, CapacityReserved DEF ReserveResources, ReserveAndClaimJob
    <1>5. ASSUME NEW j \in Jobs, NEW o \in Owners, NEW f \in Fences, NEW d \in Delays,
                 HeartbeatReservation(j, o, f, d) \/ ReleaseReservation(j, o, f, d)
          PROVE  CapacityRespected'
        <2>1. \A i \in Jobs : reservations'[i].status = "active" =>
                                 reservations[i].status = "active"
            <3>1. CASE HeartbeatReservation(j, o, f, d)
                BY <3>1, ReservationEffects, ReservationTable DEF HeartbeatReservation
            <3>2. CASE ReleaseReservation(j, o, f, d)
                BY <3>2, ReservationEffects, ReservationTable DEF ReleaseReservation
            <3>3. QED
                BY <1>5, <3>1, <3>2
        <2>2. QED
            BY <2>1, CapacityShrinks
    <1>6. ASSUME NEW j \in Jobs, NEW o \in Owners, NEW f \in Fences, NEW d \in Delays,
                 NEW require \in BOOLEAN, ClaimJob(j, o, f, d, require)
          PROVE  CapacityRespected'
        BY <1>0, <1>6 DEF ClaimJob
    <1>7. ASSUME NEW j \in Jobs, NEW o \in Owners, NEW f \in Fences, NEW d \in Delays,
                 AttemptStep(j, o, f, d)
          PROVE  CapacityRespected'
        <2>1. \A i \in Jobs : reservations'[i].status = "active" =>
                                 reservations[i].status = "active"
            BY <1>7, ReservationEffects DEF AttemptStep, HeartbeatJob, CompleteJob, TypeOK
        <2>2. QED
            BY <2>1, CapacityShrinks
    <1>8. ASSUME NEW o \in Owners, NEW f \in Fences, NEW d \in Delays, ScopeStep(o, f, d)
          PROVE  CapacityRespected'
        <2>1. \A i \in Jobs : reservations'[i].status = "active" =>
                                 reservations[i].status = "active"
            BY <1>8, ReservationEffects DEF ScopeStep, ClaimJobs, RecoverExpiredJobs
        <2>2. QED
            BY <2>1, CapacityShrinks
    <1>9. ASSUME Tick PROVE CapacityRespected'
        <2>1. \A i \in Jobs : reservations'[i].status = "active" =>
                                 reservations[i].status = "active"
            BY <1>9, ReservationEffects DEF Tick
        <2>2. QED
            BY <2>1, CapacityShrinks
    <1>10. CASE UNCHANGED vars
        BY <1>0, <1>10 DEF vars
    <1>11. QED
        BY <1>1, <1>2, <1>3, <1>4, <1>5, <1>6, <1>7, <1>8, <1>9, <1>10
        DEF Next, ReservationStep, ClaimStep

\* Whatever the interleaving of controllers and the age of their clock
\* readings, the active measured reservations of a host or pool fit its slots.
THEOREM CapacityIsRespected == Spec => []CapacityRespected
    BY CapacityInit, CapacityStep, TypeCorrect, PTL DEF Spec

-----------------------------------------------------------------------------
(* What a transaction may do to the rows of one job *)

\* The statuses of the attempts of job i after a step that touches at most the
\* one numbered n.
OnlyAttempt(i, n, status) ==
    /\ attempts'[i][n].status = status
    /\ \A k \in AttemptNos \ {n} : attempts'[i][k].status = attempts[i][k].status
SameAttempts(i) ==
    \A k \in AttemptNos : attempts'[i][k].status = attempts[i][k].status
SameCount(i) == jobs'[i].attempt_count = jobs[i].attempt_count

KeepsJob(i) ==
    SameAttempts(i) /\ SameCount(i) /\ jobs'[i].status = jobs[i].status
CreatesJob(i) ==
    /\ SameAttempts(i) /\ jobs[i].status = "none"
    /\ jobs'[i].status = "queued" /\ jobs'[i].attempt_count = 0
RequeuesJob(i) ==
    /\ SameAttempts(i) /\ SameCount(i)
    /\ jobs[i].status \in {"failed", "blocked", "retry"} /\ jobs'[i].status = "queued"
ImportsJob(i) ==
    /\ i \in Legacy /\ jobs'[i].status # "none"
    /\ jobs'[i].status \in {"completed", "failed", "blocked", "review"} \/ jobs'[i] = jobs[i]
    /\ jobs[i].status = "none" \/ attempts[i][1].status = "review"
    /\ \E status \in {"review", "abandoned"} : OnlyAttempt(i, 1, status)
ClaimsJob(i) ==
    /\ jobs[i].status \in {"queued", "retry"} /\ jobs'[i].status = "running"
    /\ NextAttemptNo(i) \in AttemptNos
    /\ jobs'[i].attempt_count = NextAttemptNo(i)
    /\ attempts[i][NextAttemptNo(i)].status = "none"
    /\ OnlyAttempt(i, NextAttemptNo(i), "running")

\* The attempt that ends is the job's running one.
EndsAttempt(i, status) ==
    /\ jobs[i].status = "running" /\ SameCount(i)
    /\ jobs[i].attempt_count \in AttemptNos
    /\ attempts[i][jobs[i].attempt_count].status = "running"
    /\ OnlyAttempt(i, jobs[i].attempt_count, status)
CompletesJob(i) ==
    \E outcome \in {"completed", "failed", "retry"} :
        /\ EndsAttempt(i, outcome) /\ jobs'[i].status = outcome
        /\ lease.status = "active"
        /\ lease.owner = attempts[i][jobs[i].attempt_count].owner
        /\ lease.fence = attempts[i][jobs[i].attempt_count].fence
RecoversJob(i) ==
    /\ EndsAttempt(i, "abandoned")
    /\ jobs'[i].status \in {"retry", "failed", "queued", "blocked"}
    /\ attempts[i][jobs[i].attempt_count].left <= 0

JobStep(i) ==
    \/ KeepsJob(i) \/ CreatesJob(i) \/ RequeuesJob(i) \/ ImportsJob(i)
    \/ ClaimsJob(i) \/ CompletesJob(i) \/ RecoversJob(i)

\* A step that leaves both rows of a job alone keeps it.
LEMMA KeepsFrame ==
    ASSUME NEW i \in Jobs, jobs'[i] = jobs[i], attempts'[i] = attempts[i]
    PROVE  JobStep(i)
    BY DEF JobStep, KeepsJob, SameAttempts, SameCount

\* _claim_row_tx numbers a new attempt of every job it claims.
LEMMA ClaimRowsEffect ==
    ASSUME TypeOK, NEW S \in SUBSET Jobs, NEW o \in Owners, NEW f \in Fences,
           NEW d \in Delays, ClaimRows(S, o, f, d), \A j \in S : Runnable(j, d),
           NEW i \in Jobs
    PROVE  JobStep(i)
    <1>1. jobs[i] \in JobRow /\ attempts[i] \in [AttemptNos -> AttemptRow]
        BY DEF TypeOK
    <1>2. CASE i \notin S
        <2>1. jobs'[i] = jobs[i] /\ attempts'[i] = attempts[i]
            BY <1>2 DEF ClaimRows
        <2>2. QED
            BY <2>1, KeepsFrame
    <1>3. CASE i \in S
        <2>1. /\ jobs'[i] = ClaimedJob(jobs[i], o, f, d)
              /\ attempts'[i] = [attempts[i] EXCEPT ![NextAttemptNo(i)] = RunningAttempt(o, f, d)]
              /\ NextAttemptNo(i) \in AttemptNos
              /\ attempts[i][NextAttemptNo(i)].status = "none"
            BY <1>3 DEF ClaimRows
        <2>2. jobs'[i].attempt_count = NextAttemptNo(i) /\ jobs'[i].status = "running"
            BY <1>1, <2>1 DEF ClaimedJob, NextAttemptNo, JobRow
        <2>3. jobs[i].status \in {"queued", "retry"}
            BY <1>3 DEF Runnable
        <2>4. OnlyAttempt(i, NextAttemptNo(i), "running")
            BY <1>1, <2>1 DEF OnlyAttempt, RunningAttempt
        <2>5. QED
            BY <2>1, <2>2, <2>3, <2>4 DEF JobStep, ClaimsJob
    <1>4. QED
        BY <1>2, <1>3

\* Every transaction of the store, seen from one job, is one of the seven.
LEMMA JobSteps ==
    ASSUME TypeOK, SingleFlight, [Next]_vars, NEW i \in Jobs
    PROVE  JobStep(i)
    <1>0. /\ OneFlight(i) /\ jobs[i] \in JobRow
          /\ attempts[i] \in [AttemptNos -> AttemptRow]
          /\ attempts \in [Jobs -> [AttemptNos -> AttemptRow]]
          /\ jobs \in [Jobs -> JobRow]
        BY DEF SingleFlight, TypeOK
    <1>1. ASSUME UNCHANGED <<jobs, attempts>> PROVE JobStep(i)
        BY <1>1, KeepsFrame
    <1>2. ASSUME NEW o \in Owners, NEW f \in Fences, NEW d \in Delays, LeaseStep(o, f, d)
          PROVE  JobStep(i)
        BY <1>1, <1>2 DEF LeaseStep, Acquire, HeartbeatLease, Release
    <1>3. ASSUME NEW j \in Jobs, NEW o \in Owners, NEW f \in Fences,
                 NEW d \in Delays, ReservationStep(j, o, f, d)
          PROVE  JobStep(i)
        BY <1>1, <1>3
        DEF ReservationStep, ReserveResources, HeartbeatReservation, ReleaseReservation
    <1>4. ASSUME NEW j \in Jobs, CreateJob(j) PROVE JobStep(i)
        <2>1. CASE i = j
            BY <1>0, <1>4, <2>1
            DEF CreateJob, QueuedJob, NoJob, JobStep, CreatesJob, SameAttempts
        <2>2. CASE i # j
            BY <1>0, <1>4, <2>2, KeepsFrame DEF CreateJob
        <2>3. QED
            BY <2>1, <2>2
    <1>5. ASSUME NEW j \in Jobs, NEW o \in Owners, NEW f \in Fences,
                 NEW d \in Delays, RequeueJob(j, o, f, d)
          PROVE  JobStep(i)
        <2>1. CASE i = j
            <3>1. jobs'[i] = RequeuedJob(jobs[i]) /\ attempts' = attempts
                BY <1>0, <1>5, <2>1 DEF RequeueJob
            <3>2. jobs'[i].status = "queued" /\ SameCount(i)
                BY <1>0, <3>1 DEF RequeuedJob, SameCount, JobRow
            <3>3. QED
                BY <1>5, <2>1, <3>1, <3>2 DEF RequeueJob, JobStep, RequeuesJob, SameAttempts
        <2>2. CASE i # j
            BY <1>0, <1>5, <2>2, KeepsFrame DEF RequeueJob
        <2>3. QED
            BY <2>1, <2>2
    <1>6. ASSUME NEW j \in Jobs, NEW o \in Owners, NEW f \in Fences, NEW d \in Delays,
                 NEW status \in {"completed", "failed", "blocked", "review"},
                 NEW astatus \in {"review", "abandoned"},
                 ImportLegacyJob(j, o, f, d, status, astatus)
          PROVE  JobStep(i)
        <2>0. 1 \in AttemptNos
            BY StoreAssumption DEF AttemptNos
        <2>1. PICK a : attempts' = [attempts EXCEPT ![j][1] = a] /\ a.status = astatus
            <3>1. [NoAttempt EXCEPT !.status = astatus].status = astatus
                BY DEF NoAttempt
            <3>2. EndedAttempt(attempts[j][1], astatus).status = astatus
                BY <1>0, <2>0 DEF EndedAttempt, AttemptRow
            <3>3. QED
                BY <1>6, <3>1, <3>2 DEF ImportLegacyJob
        <2>2. CASE i = j
            <3>1. OnlyAttempt(i, 1, astatus)
                BY <1>0, <2>0, <2>1, <2>2 DEF OnlyAttempt
            <3>2. CASE jobs[j].status = "none" /\ jobs' = [jobs EXCEPT ![j] = [NoJob EXCEPT !.status = status]]
                <4>1. jobs'[i].status = status
                    BY <1>0, <2>2, <3>2 DEF NoJob
                <4>2. QED
                    BY <1>6, <2>2, <3>1, <3>2, <4>1 DEF ImportLegacyJob, JobStep, ImportsJob
            <3>3. CASE /\ jobs[j].status # "none" /\ attempts[j][1].status = "review"
                       /\ jobs' = jobs
                BY <1>6, <2>2, <3>1, <3>3 DEF ImportLegacyJob, JobStep, ImportsJob
            <3>4. QED
                BY <1>6, <3>2, <3>3 DEF ImportLegacyJob
        <2>3. CASE i # j
            <3>1. attempts'[i] = attempts[i]
                BY <1>0, <2>1, <2>3
            <3>2. jobs'[i] = jobs[i]
                BY <1>0, <1>6, <2>3 DEF ImportLegacyJob
            <3>3. QED
                BY <3>1, <3>2, KeepsFrame
        <2>4. QED
            BY <2>2, <2>3
    <1>7. ASSUME NEW j \in Jobs, NEW o \in Owners, NEW f \in Fences, NEW d \in Delays,
                 Runnable(j, d), ClaimRows({j}, o, f, d)
          PROVE  JobStep(i)
        <2>1. {j} \in SUBSET Jobs /\ \A k \in {j} : Runnable(k, d)
            BY <1>7
        <2>2. QED
            BY <1>7, <2>1, ClaimRowsEffect
    <1>8. ASSUME NEW j \in Jobs, NEW o \in Owners, NEW f \in Fences,
                 NEW d \in Delays, ClaimStep(j, o, f, d)
          PROVE  JobStep(i)
        BY <1>7, <1>8 DEF ClaimStep, ReserveAndClaimJob, ClaimJob
    <1>9. ASSUME NEW m \in 1..Cardinality(Jobs), NEW o \in Owners, NEW f \in Fences,
                 NEW d \in Delays, NEW require \in BOOLEAN,
                 ClaimJobs(m, o, f, d, require)
          PROVE  JobStep(i)
        <2>1. /\ Selected(m, o, f, d, require) \in SUBSET Jobs
              /\ \A k \in Selected(m, o, f, d, require) : Runnable(k, d)
            BY DEF Selected, Window
        <2>2. QED
            BY <1>9, <2>1, ClaimRowsEffect DEF ClaimJobs
    <1>10. ASSUME NEW j \in Jobs, NEW n \in AttemptNos, NEW o \in Owners,
                  NEW f \in Fences, NEW d \in Delays, HeartbeatJob(j, n, o, f, d)
           PROVE  JobStep(i)
        <2>1. jobs'[i].status = jobs[i].status /\ SameCount(i)
            BY <1>0, <1>10 DEF HeartbeatJob, Renewed, JobRow, SameCount
        <2>2. ASSUME NEW k \in AttemptNos PROVE attempts'[i][k].status = attempts[i][k].status
            BY <1>0, <1>10 DEF HeartbeatJob, Renewed, AttemptRow
        <2>3. QED
            BY <2>1, <2>2 DEF JobStep, KeepsJob, SameAttempts
    <1>11. ASSUME NEW j \in Jobs, NEW n \in AttemptNos, NEW o \in Owners,
                  NEW f \in Fences, NEW d \in Delays,
                  NEW outcome \in {"completed", "failed", "retry"},
                  NEW retry_left \in RetryLeft(outcome, d),
                  CompleteJob(j, n, o, f, d, outcome, retry_left)
           PROVE  JobStep(i)
        <2>1. CASE i = j
            <3>1. /\ jobs[i].status = "running" /\ n = jobs[i].attempt_count
                  /\ attempts[i][n].status = "running"
                  /\ lease.status = "active"
                  /\ lease.owner = attempts[i][n].owner /\ lease.fence = attempts[i][n].fence
                BY <1>0, <1>11, <2>1 DEF CompleteJob, Claimed, HoldsLease, OneFlight
            <3>2. jobs'[i].status = outcome /\ SameCount(i)
                BY <1>0, <1>11, <2>1 DEF CompleteJob, Unclaimed, JobRow, SameCount
            <3>3. OnlyAttempt(i, n, outcome)
                BY <1>0, <1>11, <2>1 DEF CompleteJob, EndedAttempt, AttemptRow, OnlyAttempt
            <3>4. QED
                BY <3>1, <3>2, <3>3 DEF JobStep, CompletesJob, EndsAttempt
        <2>2. CASE i # j
            BY <1>0, <1>11, <2>2, KeepsFrame DEF CompleteJob
        <2>3. QED
            BY <2>1, <2>2
    <1>12. ASSUME NEW o \in Owners, NEW f \in Fences, NEW d \in Delays,
                  NEW status \in {"retry", "failed", "queued"}, NEW dead \in SUBSET Jobs,
                  RecoverExpiredJobs(o, f, d, status, dead)
           PROVE  JobStep(i)
        <2>1. CASE i \in ExpiredRunning(d)
            <3> DEFINE n == jobs[i].attempt_count
            <3>1. /\ jobs[i].status = "running" /\ n \in AttemptNos
                  /\ attempts[i][n].status = "running" /\ attempts[i][n].left = jobs[i].left
                  /\ \A k \in AttemptNos \ {n} : attempts[i][k].status # "running"
                BY <1>0, <2>1 DEF ExpiredRunning, OneFlight
            <3>2. attempts[i][n].left <= 0
                BY <1>0, <2>1, <3>1, StoreAssumption
                DEF ExpiredRunning, Expired, Delays, JobRow, Timer
            <3>3. /\ jobs'[i].status \in {"retry", "failed", "queued", "blocked"}
                  /\ SameCount(i)
                BY <1>0, <1>12, <2>1 DEF RecoverExpiredJobs, Unclaimed, JobRow, SameCount
            <3>4. \A k \in AttemptNos : attempts'[i][k] = AbandonedAttempt(attempts[i][k])
                BY <1>12, <2>1 DEF RecoverExpiredJobs
            <3>5. OnlyAttempt(i, n, "abandoned")
                BY <1>0, <3>1, <3>4 DEF AbandonedAttempt, EndedAttempt, AttemptRow, OnlyAttempt
            <3>6. QED
                BY <3>1, <3>2, <3>3, <3>5 DEF JobStep, RecoversJob, EndsAttempt
        <2>2. CASE i \notin ExpiredRunning(d)
            BY <1>12, <2>2, KeepsFrame DEF RecoverExpiredJobs
        <2>3. QED
            BY <2>1, <2>2
    <1>13. ASSUME Tick PROVE JobStep(i)
        <2>1. jobs'[i].status = jobs[i].status /\ SameCount(i)
            BY <1>0, <1>13 DEF Tick, Aged, JobRow, SameCount
        <2>2. ASSUME NEW k \in AttemptNos PROVE attempts'[i][k].status = attempts[i][k].status
            BY <1>0, <1>13 DEF Tick, Aged, AttemptRow
        <2>3. QED
            BY <2>1, <2>2 DEF JobStep, KeepsJob, SameAttempts
    <1>14. CASE UNCHANGED vars
        BY <1>1, <1>14 DEF vars
    <1>15. QED
        BY <1>2, <1>3, <1>4, <1>5, <1>6, <1>8, <1>9, <1>10, <1>11, <1>12, <1>13, <1>14
        DEF Next, IngressStep, AttemptStep, ScopeStep

-----------------------------------------------------------------------------
(* Attempt numbers *)

\* A job that does not exist has no attempts; a job that was not imported has
\* none beyond its counter.
UsedNumbers(j) ==
    /\ jobs[j].status = "none" => \A n \in AttemptNos : attempts[j][n].status = "none"
    /\ j \notin Legacy => \A n \in AttemptNos :
          n > jobs[j].attempt_count => attempts[j][n].status = "none"
NumbersAreUsedInOrder == \A j \in Jobs : UsedNumbers(j)

LEMMA NumbersInit == Init => NumbersAreUsedInOrder
    BY DEF Init, NumbersAreUsedInOrder, UsedNumbers, NoAttempt

LEMMA NumbersStep ==
    TypeOK /\ SingleFlight /\ NumbersAreUsedInOrder /\ [Next]_vars => NumbersAreUsedInOrder'
    <1> SUFFICES ASSUME TypeOK, SingleFlight, NumbersAreUsedInOrder, [Next]_vars,
                        NEW j \in Jobs
                 PROVE  UsedNumbers(j)'
        BY DEF NumbersAreUsedInOrder
    <1>1. /\ JobStep(j) /\ UsedNumbers(j)
          /\ jobs[j].attempt_count \in Nat /\ \A n \in AttemptNos : n \in Nat
        BY JobSteps, StoreAssumption DEF NumbersAreUsedInOrder, TypeOK, JobRow, AttemptNos
    <1>2. CASE KeepsJob(j)
        BY <1>1, <1>2 DEF KeepsJob, SameAttempts, SameCount, UsedNumbers
    <1>3. CASE CreatesJob(j)
        BY <1>1, <1>3 DEF CreatesJob, SameAttempts, UsedNumbers
    <1>4. CASE RequeuesJob(j)
        BY <1>1, <1>4 DEF RequeuesJob, SameAttempts, SameCount, UsedNumbers
    <1>5. CASE ImportsJob(j)
        BY <1>5 DEF ImportsJob, UsedNumbers
    <1>6. CASE ClaimsJob(j)
        BY <1>1, <1>6 DEF ClaimsJob, OnlyAttempt, NextAttemptNo, UsedNumbers
    <1>7. CASE CompletesJob(j)
        BY <1>1, <1>7 DEF CompletesJob, EndsAttempt, SameCount, OnlyAttempt, UsedNumbers
    <1>8. CASE RecoversJob(j)
        BY <1>1, <1>8 DEF RecoversJob, EndsAttempt, SameCount, OnlyAttempt, UsedNumbers
    <1>9. QED
        BY <1>1, <1>2, <1>3, <1>4, <1>5, <1>6, <1>7, <1>8 DEF JobStep

\* A job that was not imported takes its attempt numbers in order: none beyond
\* its counter is in use, through requeues, recoveries and completions.
THEOREM AttemptsAreNumberedInOrder == Spec => []NumbersAreUsedInOrder
    BY NumbersInit, NumbersStep, TypeCorrect, OneExecutionAtATime, PTL DEF Spec

\* In a ledger without imported jobs the number the next claim will use is
\* free, so the INSERT of _claim_row_tx cannot meet UNIQUE(job_id, attempt_no).
\* With an imported job it can: its counter starts below its synthetic attempt.
THEOREM ClaimsFindAFreshNumber ==
    ASSUME Legacy = {}
    PROVE  Spec => []NextAttemptIsFresh
    <1>1. TypeOK /\ NumbersAreUsedInOrder => NextAttemptIsFresh
        BY StoreAssumption
        DEF NumbersAreUsedInOrder, UsedNumbers, NextAttemptIsFresh, NextAttemptNo, TypeOK, JobRow
    <1>2. QED
        BY <1>1, TypeCorrect, AttemptsAreNumberedInOrder, PTL

-----------------------------------------------------------------------------
(* How an attempt ends *)

LEMMA EndStep ==
    ASSUME TypeOK, SingleFlight, [Next]_vars, NEW j \in Jobs, NEW n \in AttemptNos,
           attempts[j][n].status = "running", attempts'[j][n].status # "running"
    PROVE  \/ /\ attempts'[j][n].status \in {"completed", "failed", "retry"}
              /\ jobs'[j].status = attempts'[j][n].status
              /\ lease.status = "active"
              /\ lease.owner = attempts[j][n].owner
              /\ lease.fence = attempts[j][n].fence
           \/ /\ attempts'[j][n].status = "abandoned"
              /\ jobs'[j].status # "completed"
              /\ attempts[j][n].left <= 0
    <1>1. JobStep(j) /\ n = jobs[j].attempt_count /\ jobs[j].status = "running"
        BY JobSteps DEF SingleFlight, OneFlight
    <1>2. CASE CompletesJob(j)
        BY <1>1, <1>2 DEF CompletesJob, EndsAttempt, OnlyAttempt
    <1>3. CASE RecoversJob(j)
        BY <1>1, <1>3 DEF RecoversJob, EndsAttempt, OnlyAttempt
    <1>4. CASE ImportsJob(j)
        <2>1. n # 1
            BY <1>1, <1>4 DEF ImportsJob
        <2>2. QED
            BY <1>4, <2>1 DEF ImportsJob, OnlyAttempt
    <1>5. CASE KeepsJob(j) \/ CreatesJob(j) \/ RequeuesJob(j) \/ ClaimsJob(j)
        BY <1>1, <1>5 DEF KeepsJob, CreatesJob, RequeuesJob, ClaimsJob, SameAttempts
    <1>6. QED
        BY <1>1, <1>2, <1>3, <1>4, <1>5 DEF JobStep

\* A running attempt ends by its own claimant under the current fence, or is
\* abandoned after its lease ran out; a controller that was taken over can
\* commit nothing, whatever it still believes.
THEOREM OnlyClaimantOrExpiryEnds == Spec => EndsByClaimantOrExpiry
    <1>1. TypeOK /\ SingleFlight /\ [Next]_vars =>
             [\A j \in Jobs : \A n \in AttemptNos :
                LET old == attempts[j][n]
                    new == attempts'[j][n]
                IN  old.status = "running" /\ new.status # "running" =>
                       \/ /\ new.status \in {"completed", "failed", "retry"}
                          /\ jobs'[j].status = new.status
                          /\ lease.status = "active"
                          /\ lease.owner = old.owner
                          /\ lease.fence = old.fence
                       \/ /\ new.status = "abandoned"
                          /\ jobs'[j].status # "completed"
                          /\ old.left <= 0]_vars
        BY EndStep
    <1>2. QED
        BY <1>1, TypeCorrect, OneExecutionAtATime, PTL DEF Spec, EndsByClaimantOrExpiry

-----------------------------------------------------------------------------
(* OutcomeStatus *)

OutcomeStatus == {"completed", "failed", "retry"}

\* An outcome stands, and an attempt that exists does not vanish.
KeepsOutcome(j, n) ==
    /\ attempts[j][n].status \in OutcomeStatus => attempts'[j][n].status = attempts[j][n].status
    /\ attempts[j][n].status # "none" => attempts'[j][n].status # "none"

LEMMA OutcomeStep ==
    ASSUME TypeOK, SingleFlight, NumbersAreUsedInOrder, [Next]_vars,
           NEW j \in Jobs, NEW n \in AttemptNos
    PROVE  KeepsOutcome(j, n)
    <1>1. JobStep(j) /\ UsedNumbers(j)
        BY JobSteps DEF NumbersAreUsedInOrder
    <1>2. CASE SameAttempts(j)
        BY <1>2 DEF SameAttempts, KeepsOutcome, OutcomeStatus
    <1>3. CASE ImportsJob(j)
        <2>1. n = 1 => attempts[j][n].status \in {"none", "review"}
            BY <1>1, <1>3 DEF ImportsJob, UsedNumbers
        <2>2. CASE n = 1
            BY <1>3, <2>1, <2>2 DEF ImportsJob, OnlyAttempt, KeepsOutcome, OutcomeStatus
        <2>3. CASE n # 1
            BY <1>3, <2>3 DEF ImportsJob, OnlyAttempt, KeepsOutcome, OutcomeStatus
        <2>4. QED
            BY <2>2, <2>3
    <1>4. CASE ClaimsJob(j)
        BY <1>4 DEF ClaimsJob, OnlyAttempt, KeepsOutcome, OutcomeStatus
    <1>5. CASE CompletesJob(j) \/ RecoversJob(j)
        <2>1. PICK s \in OutcomeStatus \cup {"abandoned"} : EndsAttempt(j, s)
            BY <1>5 DEF CompletesJob, RecoversJob, OutcomeStatus
        <2>2. QED
            BY <2>1 DEF EndsAttempt, OnlyAttempt, KeepsOutcome, OutcomeStatus
    <1>6. QED
        BY <1>1, <1>2, <1>3, <1>4, <1>5
        DEF JobStep, KeepsJob, CreatesJob, RequeuesJob

\* What complete_job recorded for an attempt is never rewritten, by a
\* duplicate completion, a recovery, a requeue, an import or a later claim.
THEOREM OutcomesStand ==
    Spec => [][\A j \in Jobs : \A n \in AttemptNos : KeepsOutcome(j, n)]_vars
    <1>1. TypeOK /\ SingleFlight /\ NumbersAreUsedInOrder /\ [Next]_vars =>
             [\A j \in Jobs : \A n \in AttemptNos : KeepsOutcome(j, n)]_vars
        BY OutcomeStep
    <1>2. QED
        BY <1>1, TypeCorrect, OneExecutionAtATime, AttemptsAreNumberedInOrder, PTL DEF Spec

-----------------------------------------------------------------------------
(* The ledger implements the abstract ledger *)

\* The image of the initial state is the initial state of the abstract ledger.
LEMMA LedgerInitial == Init => Ledger!LedgerInit
    BY DEF Init, Ledger!LedgerInit, NoJob, PhaseOf

\* The abstract state reads three columns of a job and the fence of the lease.
\* A step that leaves them alone stutters.
LEMMA Stutters ==
    ASSUME lease'.fence = lease.fence,
           \A j \in Jobs : /\ jobs'[j].status = jobs[j].status
                           /\ jobs'[j].claim_fence = jobs[j].claim_fence
                           /\ jobs'[j].attempt_count = jobs[j].attempt_count
    PROVE  UNCHANGED Ledger!ledgerVars
    BY DEF Ledger!ledgerVars

\* The three columns after the edits of a job row.
LEMMA EditedColumns ==
    ASSUME NEW row \in JobRow
    PROVE  /\ \A s, t : /\ Unclaimed(row, s, t).status = s
                        /\ Unclaimed(row, s, t).claim_fence = 0
                        /\ Unclaimed(row, s, t).attempt_count = row.attempt_count
           /\ RequeuedJob(row).status = "queued"
           /\ RequeuedJob(row).claim_fence = 0
           /\ RequeuedJob(row).attempt_count = row.attempt_count
           /\ \A d : /\ Renewed(row, d).status = row.status
                     /\ Renewed(row, d).claim_fence = row.claim_fence
                     /\ Renewed(row, d).attempt_count = row.attempt_count
    BY DEF JobRow, Unclaimed, RequeuedJob, Renewed

\* The passing of time moves deadlines only.
LEMMA TickColumns ==
    ASSUME NEW row \in JobRow, NEW t
    PROVE  /\ [Aged(row) EXCEPT !.retry_left = t].status = row.status
           /\ [Aged(row) EXCEPT !.retry_left = t].claim_fence = row.claim_fence
           /\ [Aged(row) EXCEPT !.retry_left = t].attempt_count = row.attempt_count
    BY DEF JobRow, Aged

\* Each of the three claiming methods claims runnable rows under the live lease.
LEMMA ClaimStepsClaim ==
    ASSUME NEW o \in Owners, NEW f \in Fences, NEW d \in Delays
    PROVE  /\ \A j \in Jobs : ClaimStep(j, o, f, d) =>
                 /\ ClaimRows({j}, o, f, d)
                 /\ HoldsLease(o, f, d)
                 /\ jobs[j].status \in {"queued", "retry"}
                 /\ UNCHANGED lease
           /\ \A m \in 1..Cardinality(Jobs), require \in BOOLEAN :
                 ClaimJobs(m, o, f, d, require) =>
                    \E S \in SUBSET Jobs :
                       /\ ClaimRows(S, o, f, d)
                       /\ HoldsLease(o, f, d)
                       /\ \A j \in S : jobs[j].status \in {"queued", "retry"}
                       /\ UNCHANGED lease
    <1>1. \A j \in Jobs : Runnable(j, d) => jobs[j].status \in {"queued", "retry"}
        BY DEF Runnable
    <1>2. \A j \in Jobs : ClaimStep(j, o, f, d) =>
             /\ ClaimRows({j}, o, f, d)
             /\ HoldsLease(o, f, d)
             /\ Runnable(j, d)
             /\ UNCHANGED lease
        BY DEF ClaimStep, ReserveAndClaimJob, ClaimJob
    <1>3. ASSUME NEW m \in 1..Cardinality(Jobs), NEW require \in BOOLEAN,
                 ClaimJobs(m, o, f, d, require)
          PROVE  \E S \in SUBSET Jobs :
                    /\ ClaimRows(S, o, f, d)
                    /\ HoldsLease(o, f, d)
                    /\ \A j \in S : jobs[j].status \in {"queued", "retry"}
                    /\ UNCHANGED lease
        <2>1. PICK S : S = Selected(m, o, f, d, require)
            OBVIOUS
        <2>2. \A j \in S : j \in Jobs /\ Runnable(j, d)
            BY <2>1 DEF Selected, Window
        <2>3. HoldsLease(o, f, d) /\ UNCHANGED lease /\ ClaimRows(S, o, f, d)
            BY <1>3, <2>1 DEF ClaimJobs, ClaimRows
        <2>4. QED
            BY <1>1, <2>2, <2>3
    <1>4. QED
        BY <1>1, <1>2, <1>3

\* The lease and reservation methods leave the jobs alone, and the latter the
\* lease too.
LEMMA QuietSteps ==
    ASSUME NEW o, NEW f, NEW d
    PROVE  /\ LeaseStep(o, f, d) => UNCHANGED jobs
           /\ \A j : ReservationStep(j, o, f, d) => UNCHANGED <<lease, jobs>>
    BY DEF LeaseStep, Acquire, HeartbeatLease, Release, ReservationStep,
           ReserveResources, HeartbeatReservation, ReleaseReservation

\* One job moves to phase `to' and has no holder; the others keep theirs.
LEMMA OneJobMoves ==
    ASSUME NEW j \in Jobs, NEW status,
           jobs'[j].status = status, jobs'[j].claim_fence = 0,
           jobs'[j].attempt_count = jobs[j].attempt_count,
           \A i \in Jobs : i # j => jobs'[i] = jobs[i]
    PROVE  /\ [i \in Jobs |-> PhaseOf(jobs'[i].status)] =
                 [[i \in Jobs |-> PhaseOf(jobs[i].status)] EXCEPT ![j] = PhaseOf(status)]
           /\ [i \in Jobs |-> jobs'[i].claim_fence] =
                 [[i \in Jobs |-> jobs[i].claim_fence] EXCEPT ![j] = 0]
           /\ [i \in Jobs |-> jobs'[i].attempt_count] =
                 [i \in Jobs |-> jobs[i].attempt_count]
    OBVIOUS

\* _claim_row_tx under the live lease is Take: the holder is the epoch.
LEMMA ClaimTakes ==
    ASSUME TypeOK, NEW S \in SUBSET Jobs, NEW o \in Owners, NEW f \in Fences,
           NEW d \in Delays, HoldsLease(o, f, d), ClaimRows(S, o, f, d),
           \A j \in S : jobs[j].status \in {"queued", "retry"},
           UNCHANGED lease
    PROVE  Ledger!Take(S)
    <1>1. \A j \in Jobs : jobs'[j] = IF j \in S THEN ClaimedJob(jobs[j], o, f, d)
                                                ELSE jobs[j]
        BY DEF ClaimRows
    <1>2. \A j \in S : /\ jobs'[j].status = "running"
                       /\ jobs'[j].claim_fence = f
                       /\ jobs'[j].attempt_count = jobs[j].attempt_count + 1
        BY <1>1 DEF ClaimedJob, TypeOK, JobRow
    <1>3. lease.fence = f
        BY DEF HoldsLease
    <1>4. \A j \in S : PhaseOf(jobs[j].status) = "open"
        BY DEF PhaseOf
    <1>5. PhaseOf("running") = "held"
        BY DEF PhaseOf
    <1>6. QED
        BY <1>1, <1>2, <1>3, <1>4, <1>5 DEF Ledger!Take

\* complete_job is Settle: the claim's fence is the newest.
LEMMA CompletionSettles ==
    ASSUME TypeOK, NEW j \in Jobs, NEW n \in AttemptNos, NEW o \in Owners,
           NEW f \in Fences, NEW d \in Delays,
           NEW outcome \in {"completed", "failed", "retry"}, NEW r,
           CompleteJob(j, n, o, f, d, outcome, r)
    PROVE  Ledger!Settle(j)
    <1>1. jobs' = [jobs EXCEPT ![j] = Unclaimed(jobs[j], outcome, r)]
        BY DEF CompleteJob
    <1>2. /\ jobs'[j].status = outcome
          /\ jobs'[j].claim_fence = 0
          /\ jobs'[j].attempt_count = jobs[j].attempt_count
        BY <1>1, EditedColumns DEF TypeOK
    <1>3. \A i \in Jobs : i # j => jobs'[i] = jobs[i]
        BY <1>1 DEF TypeOK
    <1>4. jobs[j].status = "running" /\ jobs[j].claim_fence = lease.fence
        BY DEF CompleteJob, Claimed, HoldsLease
    <1>5. lease'.fence = lease.fence
        BY DEF CompleteJob
    <1>6. PhaseOf(outcome) \in {"open"} \cup {"parked", "done"}
        BY DEF PhaseOf
    <1>7. PhaseOf("running") = "held"
        BY DEF PhaseOf
    <1>8. QED
        BY <1>2, <1>3, <1>4, <1>5, <1>6, <1>7, OneJobMoves
        DEF Ledger!Settle, Ledger!Parked

\* recover_expired_jobs is Reclaim.
LEMMA RecoveryReclaims ==
    ASSUME TypeOK, NEW o \in Owners, NEW f \in Fences, NEW d \in Delays,
           NEW status \in {"retry", "failed", "queued"}, NEW dead,
           RecoverExpiredJobs(o, f, d, status, dead)
    PROVE  \E S \in SUBSET Jobs : Ledger!Reclaim(S)
    <1>0. PICK S : S = ExpiredRunning(d)
        OBVIOUS
    <1> DEFINE new(j) == IF j \in dead THEN status ELSE "blocked"
               to == [j \in S |-> PhaseOf(new(j))]
    <1>1. \A j \in Jobs : jobs'[j] = IF j \in S THEN Unclaimed(jobs[j], new(j), Null)
                                                ELSE jobs[j]
        BY <1>0 DEF RecoverExpiredJobs
    <1>2. S \subseteq Jobs /\ \A j \in S : jobs[j].status = "running"
        BY <1>0 DEF ExpiredRunning
    <1>3. \A j \in S : /\ jobs'[j].status = new(j)
                       /\ jobs'[j].claim_fence = 0
                       /\ jobs'[j].attempt_count = jobs[j].attempt_count
        BY <1>1, <1>2, EditedColumns DEF TypeOK
    <1>4. \A j \in S : PhaseOf(new(j)) \in {"open", "parked"}
        BY DEF PhaseOf
    <1>5. PhaseOf("running") = "held"
        BY DEF PhaseOf
    <1>6. lease'.fence = lease.fence
        BY DEF RecoverExpiredJobs
    <1>7. to \in [S -> {"open", "parked"}]
        BY <1>4
    <1> HIDE DEF new
    <1>8. [j \in Jobs |-> PhaseOf(jobs'[j].status)] =
             [j \in Jobs |-> IF j \in S THEN to[j] ELSE PhaseOf(jobs[j].status)]
        BY <1>1, <1>3
    <1> HIDE DEF to
    <1>9. Ledger!Reclaim(S)
        BY <1>1, <1>2, <1>3, <1>5, <1>6, <1>7, <1>8 DEF Ledger!Reclaim
    <1>10. QED
        BY <1>2, <1>9

\* create_job, and the first import of a legacy job, are Submit.  A job that
\* does not exist has no holder and no runs: an invariant the abstract ledger
\* needs, and the store keeps.
AbsentIsBlank ==
    \A j \in Jobs : /\ jobs[j].status = "none" =>
                          jobs[j].claim_fence = 0 /\ jobs[j].attempt_count = 0
                    /\ jobs[j].status # "running" => jobs[j].claim_fence = 0

LEMMA NewJobSubmits ==
    ASSUME TypeOK, AbsentIsBlank, NEW j \in Jobs,
           NEW status \in {"queued", "completed", "failed", "blocked", "review"},
           jobs[j].status = "none", UNCHANGED lease,
           jobs' = [jobs EXCEPT ![j] = [NoJob EXCEPT !.status = status]]
    PROVE  Ledger!Submit(j)
    <1>1. /\ jobs'[j].status = status
          /\ jobs'[j].claim_fence = 0
          /\ jobs'[j].attempt_count = 0
        BY DEF TypeOK, NoJob
    <1>2. jobs[j].claim_fence = 0 /\ jobs[j].attempt_count = 0
        BY DEF AbsentIsBlank
    <1>3. \A i \in Jobs : i # j => jobs'[i] = jobs[i]
        BY DEF TypeOK
    <1>4. PhaseOf("none") = "absent" /\ PhaseOf(status) \in {"open"} \cup {"parked", "done"}
        BY DEF PhaseOf
    <1>5. [[i \in Jobs |-> jobs[i].claim_fence] EXCEPT ![j] = 0] =
             [i \in Jobs |-> jobs[i].claim_fence]
        BY <1>2
    <1>6. /\ [i \in Jobs |-> PhaseOf(jobs'[i].status)] =
                [[i \in Jobs |-> PhaseOf(jobs[i].status)] EXCEPT ![j] = PhaseOf(status)]
          /\ [i \in Jobs |-> jobs'[i].claim_fence] = [i \in Jobs |-> jobs[i].claim_fence]
          /\ [i \in Jobs |-> jobs'[i].attempt_count] =
                [i \in Jobs |-> jobs[i].attempt_count]
        BY <1>1, <1>2, <1>3, <1>5, OneJobMoves
    <1>7. QED
        BY <1>4, <1>6 DEF Ledger!Submit, Ledger!Parked

\* requeue_job is Reopen.
LEMMA RequeueReopens ==
    ASSUME TypeOK, AbsentIsBlank, NEW j \in Jobs, NEW o, NEW f, NEW d,
           RequeueJob(j, o, f, d)
    PROVE  Ledger!Reopen(j)
    <1>1. jobs' = [jobs EXCEPT ![j] = RequeuedJob(jobs[j])]
        BY DEF RequeueJob
    <1>2. /\ jobs'[j].status = "queued"
          /\ jobs'[j].claim_fence = 0
          /\ jobs'[j].attempt_count = jobs[j].attempt_count
        BY <1>1, EditedColumns DEF TypeOK
    <1>3. \A i \in Jobs : i # j => jobs'[i] = jobs[i]
        BY <1>1 DEF TypeOK
    <1>4. jobs[j].status \in {"failed", "blocked", "retry"} /\ UNCHANGED lease
        BY DEF RequeueJob
    <1>5. PhaseOf(jobs[j].status) \in {"open", "parked"} /\ PhaseOf("queued") = "open"
        BY <1>4 DEF PhaseOf
    <1>6. jobs[j].claim_fence = 0
        BY <1>4 DEF AbsentIsBlank
    <1>7. [[i \in Jobs |-> jobs[i].claim_fence] EXCEPT ![j] = 0] =
             [i \in Jobs |-> jobs[i].claim_fence]
        BY <1>6
    <1>8. /\ [i \in Jobs |-> PhaseOf(jobs'[i].status)] =
                [[i \in Jobs |-> PhaseOf(jobs[i].status)] EXCEPT ![j] = PhaseOf("queued")]
          /\ [i \in Jobs |-> jobs'[i].claim_fence] = [i \in Jobs |-> jobs[i].claim_fence]
          /\ [i \in Jobs |-> jobs'[i].attempt_count] =
                [i \in Jobs |-> jobs[i].attempt_count]
        BY <1>2, <1>3, <1>7, OneJobMoves
    <1>9. QED
        BY <1>4, <1>5, <1>8 DEF Ledger!Reopen

-----------------------------------------------------------------------------
(* The steps *)

LEMMA BlankInit == Init => AbsentIsBlank
    BY DEF Init, AbsentIsBlank, NoJob

\* A job that no column change concerns stays blank, and an edited one is.
LEMMA BlankStep == TypeOK /\ AbsentIsBlank /\ [Next]_vars => AbsentIsBlank'
    <1> SUFFICES ASSUME TypeOK, AbsentIsBlank, [Next]_vars PROVE AbsentIsBlank'
        OBVIOUS
    <1>1. CASE UNCHANGED jobs
        BY <1>1 DEF AbsentIsBlank
    <1>2. ASSUME NEW j \in Jobs, CreateJob(j) PROVE AbsentIsBlank'
        BY <1>2 DEF CreateJob, QueuedJob, NoJob, AbsentIsBlank, TypeOK
    <1>3. ASSUME NEW o \in Owners, NEW f \in Fences, NEW d \in Delays, NEW j \in Jobs,
                 IngressStep(j, o, f, d)
          PROVE  AbsentIsBlank'
        <2>1. CASE RequeueJob(j, o, f, d)
            BY <2>1, EditedColumns DEF RequeueJob, AbsentIsBlank, TypeOK
        <2>2. ASSUME NEW status, NEW attempt_status,
                     ImportLegacyJob(j, o, f, d, status, attempt_status),
                     status # "running"
              PROVE  AbsentIsBlank'
            BY <2>2 DEF ImportLegacyJob, NoJob, AbsentIsBlank, TypeOK
        <2>3. QED
            BY <1>3, <2>1, <2>2 DEF IngressStep
    <1>4. ASSUME NEW o \in Owners, NEW f \in Fences, NEW d \in Delays,
                 NEW S \in SUBSET Jobs, ClaimRows(S, o, f, d)
          PROVE  AbsentIsBlank'
        <2>1. \A j \in Jobs : jobs'[j] = IF j \in S THEN ClaimedJob(jobs[j], o, f, d)
                                                    ELSE jobs[j]
            BY <1>4 DEF ClaimRows
        <2>2. \A j \in S : jobs'[j].status = "running"
            BY <2>1 DEF ClaimedJob, TypeOK, JobRow
        <2>3. QED
            BY <2>1, <2>2 DEF AbsentIsBlank
    <1>5. ASSUME NEW o \in Owners, NEW f \in Fences, NEW d \in Delays, NEW j \in Jobs,
                 AttemptStep(j, o, f, d)
          PROVE  AbsentIsBlank'
        <2>1. ASSUME NEW n \in AttemptNos, HeartbeatJob(j, n, o, f, d) PROVE AbsentIsBlank'
            BY <2>1, EditedColumns DEF HeartbeatJob, AbsentIsBlank, TypeOK
        <2>2. ASSUME NEW n \in AttemptNos, NEW outcome \in {"completed", "failed", "retry"},
                     NEW r, CompleteJob(j, n, o, f, d, outcome, r)
              PROVE  AbsentIsBlank'
            BY <2>2, EditedColumns DEF CompleteJob, AbsentIsBlank, TypeOK
        <2>3. QED
            BY <1>5, <2>1, <2>2 DEF AttemptStep
    <1>6. ASSUME NEW o \in Owners, NEW f \in Fences, NEW d \in Delays,
                 NEW status \in {"retry", "failed", "queued"}, NEW dead,
                 RecoverExpiredJobs(o, f, d, status, dead)
          PROVE  AbsentIsBlank'
        BY <1>6, EditedColumns DEF RecoverExpiredJobs, AbsentIsBlank, TypeOK
    <1>7. CASE Tick
        <2>1. \A j \in Jobs : /\ jobs'[j].status = jobs[j].status
                              /\ jobs'[j].claim_fence = jobs[j].claim_fence
                              /\ jobs'[j].attempt_count = jobs[j].attempt_count
            BY <1>7, TickColumns DEF Tick, TypeOK
        <2>2. QED
            BY <2>1 DEF AbsentIsBlank
    <1>8. ASSUME NEW o \in Owners, NEW f \in Fences, NEW d \in Delays,
                 \/ LeaseStep(o, f, d)
                 \/ \E j \in Jobs : ReservationStep(j, o, f, d)
          PROVE  AbsentIsBlank'
        BY <1>1, <1>8, QuietSteps
    <1>9. ASSUME NEW o \in Owners, NEW f \in Fences, NEW d \in Delays, NEW j \in Jobs,
                 ClaimStep(j, o, f, d)
          PROVE  AbsentIsBlank'
        <2>1. PICK S \in SUBSET Jobs : S = {j}
            OBVIOUS
        <2>2. ClaimRows(S, o, f, d)
            BY <1>9, <2>1, ClaimStepsClaim DEF ClaimRows
        <2>3. QED
            BY <1>4, <2>2
    <1>10. ASSUME NEW o \in Owners, NEW f \in Fences, NEW d \in Delays, ScopeStep(o, f, d)
           PROVE  AbsentIsBlank'
        <2>1. ASSUME NEW m \in 1..Cardinality(Jobs), NEW require \in BOOLEAN,
                     ClaimJobs(m, o, f, d, require)
              PROVE  AbsentIsBlank'
            <3>1. \E S \in SUBSET Jobs : ClaimRows(S, o, f, d)
                BY <2>1, ClaimStepsClaim
            <3>2. QED
                BY <1>4, <3>1
        <2>2. QED
            BY <1>6, <1>10, <2>1 DEF ScopeStep
    <1>11. CASE UNCHANGED vars
        BY <1>1, <1>11 DEF vars
    <1>12. QED
        BY <1>2, <1>3, <1>5, <1>7, <1>8, <1>9, <1>10, <1>11 DEF Next

\* Every step of the store is a step of the abstract ledger or a stutter.
LEMMA LedgerStep ==
    TypeOK /\ AbsentIsBlank /\ [Next]_vars => [Ledger!LedgerNext]_(Ledger!ledgerVars)
    <1> SUFFICES ASSUME TypeOK, AbsentIsBlank, [Next]_vars
                 PROVE  Ledger!LedgerNext \/ UNCHANGED Ledger!ledgerVars
        OBVIOUS
    <1>1. ASSUME NEW o \in Owners, NEW f \in Fences, NEW d \in Delays, LeaseStep(o, f, d)
          PROVE  Ledger!LedgerNext \/ UNCHANGED Ledger!ledgerVars
        <2>1. UNCHANGED jobs
            BY <1>1, QuietSteps
        <2>2. lease'.fence = lease.fence \/ lease'.fence = lease.fence + 1
            <3>1. CASE HeartbeatLease(o, f, d) \/ Release(o, f)
                BY <3>1 DEF HeartbeatLease, Release, Renewed, TypeOK, LeaseRow
            <3>2. CASE Acquire(o, d)
                <4>1. \/ lease' = Renewed(lease, d)
                      \/ lease' = [owner |-> o, fence |-> lease.fence + 1,
                                   status |-> "active", left |-> LeaseExpiry(d)]
                    BY <3>2 DEF Acquire
                <4>2. Renewed(lease, d).fence = lease.fence
                    BY DEF Renewed, TypeOK, LeaseRow
                <4>3. QED
                    BY <4>1, <4>2
            <3>3. QED
                BY <1>1, <3>1, <3>2 DEF LeaseStep
        <2>3. CASE lease'.fence = lease.fence
            BY <2>1, <2>3, Stutters
        <2>4. CASE lease'.fence = lease.fence + 1
            BY <2>1, <2>4 DEF Ledger!LedgerNext, Ledger!Elect
        <2>5. QED
            BY <2>2, <2>3, <2>4
    <1>2. ASSUME NEW o \in Owners, NEW f \in Fences, NEW d \in Delays, NEW j \in Jobs,
                 IngressStep(j, o, f, d)
          PROVE  Ledger!LedgerNext \/ UNCHANGED Ledger!ledgerVars
        <2>1. CASE RequeueJob(j, o, f, d)
            BY <2>1, RequeueReopens DEF Ledger!LedgerNext
        <2>2. ASSUME NEW status \in {"completed", "failed", "blocked", "review"},
                     NEW attempt_status,
                     ImportLegacyJob(j, o, f, d, status, attempt_status)
              PROVE  Ledger!LedgerNext \/ UNCHANGED Ledger!ledgerVars
            <3>1. CASE /\ jobs[j].status = "none"
                       /\ jobs' = [jobs EXCEPT ![j] = [NoJob EXCEPT !.status = status]]
                BY <2>2, <3>1, NewJobSubmits DEF ImportLegacyJob, Ledger!LedgerNext
            <3>2. CASE UNCHANGED jobs
                BY <2>2, <3>2, Stutters DEF ImportLegacyJob
            <3>3. QED
                BY <2>2, <3>1, <3>2 DEF ImportLegacyJob
        <2>3. QED
            BY <1>2, <2>1, <2>2 DEF IngressStep
    <1>3. ASSUME NEW o \in Owners, NEW f \in Fences, NEW d \in Delays, NEW j \in Jobs,
                 ReservationStep(j, o, f, d)
          PROVE  UNCHANGED Ledger!ledgerVars
        BY <1>3, QuietSteps, Stutters
    <1>4. ASSUME NEW o \in Owners, NEW f \in Fences, NEW d \in Delays, NEW j \in Jobs,
                 ClaimStep(j, o, f, d)
          PROVE  Ledger!LedgerNext
        <2>1. Ledger!Take({j})
            BY <1>4, ClaimStepsClaim, ClaimTakes
        <2>2. QED
            BY <2>1 DEF Ledger!LedgerNext
    <1>5. ASSUME NEW o \in Owners, NEW f \in Fences, NEW d \in Delays, NEW j \in Jobs,
                 AttemptStep(j, o, f, d)
          PROVE  Ledger!LedgerNext \/ UNCHANGED Ledger!ledgerVars
        <2>1. ASSUME NEW n \in AttemptNos, HeartbeatJob(j, n, o, f, d)
              PROVE  UNCHANGED Ledger!ledgerVars
            BY <2>1, EditedColumns, Stutters DEF HeartbeatJob, TypeOK
        <2>2. ASSUME NEW n \in AttemptNos, NEW outcome \in {"completed", "failed", "retry"},
                     NEW r, CompleteJob(j, n, o, f, d, outcome, r)
              PROVE  Ledger!LedgerNext
            BY <2>2, CompletionSettles DEF Ledger!LedgerNext
        <2>3. QED
            BY <1>5, <2>1, <2>2 DEF AttemptStep
    <1>6. ASSUME NEW o \in Owners, NEW f \in Fences, NEW d \in Delays, ScopeStep(o, f, d)
          PROVE  Ledger!LedgerNext
        <2>1. ASSUME NEW m \in 1..Cardinality(Jobs), NEW require \in BOOLEAN,
                     ClaimJobs(m, o, f, d, require)
              PROVE  Ledger!LedgerNext
            <3>1. PICK S \in SUBSET Jobs :
                      /\ ClaimRows(S, o, f, d)
                      /\ HoldsLease(o, f, d)
                      /\ \A j \in S : jobs[j].status \in {"queued", "retry"}
                      /\ UNCHANGED lease
                BY <2>1, ClaimStepsClaim
            <3>2. Ledger!Take(S)
                BY <3>1, ClaimTakes
            <3>3. QED
                BY <3>1, <3>2 DEF Ledger!LedgerNext
        <2>2. ASSUME NEW status \in {"retry", "failed", "queued"}, NEW dead,
                     RecoverExpiredJobs(o, f, d, status, dead)
              PROVE  Ledger!LedgerNext
            BY <2>2, RecoveryReclaims DEF Ledger!LedgerNext
        <2>3. QED
            BY <1>6, <2>1, <2>2 DEF ScopeStep
    <1>7. ASSUME NEW j \in Jobs, CreateJob(j) PROVE Ledger!LedgerNext
        BY <1>7, NewJobSubmits DEF CreateJob, QueuedJob, Ledger!LedgerNext
    <1>8. CASE Tick
        <2>1. lease'.fence = lease.fence
            BY <1>8 DEF Tick, Aged, TypeOK, LeaseRow
        <2>2. QED
            BY <1>8, <2>1, TickColumns, Stutters DEF Tick, TypeOK
    <1>9. CASE UNCHANGED vars
        BY <1>9, Stutters DEF vars
    <1>10. QED
        BY <1>1, <1>2, <1>3, <1>4, <1>5, <1>6, <1>7, <1>8, <1>9 DEF Next

\* The transactions of sqlite_store.py, in any interleaving and with clock
\* readings of any admitted age, implement the abstract ledger: exclusive
\* execution under fenced epochs.
THEOREM StoreImplementsLedger == Spec => ImplementsLedger
    <1>1. Spec => []AbsentIsBlank
        BY BlankInit, BlankStep, TypeCorrect, PTL DEF Spec
    <1>2. QED
        BY <1>1, LedgerInitial, LedgerStep, TypeCorrect, PTL
        DEF Spec, ImplementsLedger, Ledger!LedgerSpec

-----------------------------------------------------------------------------
(* The transport outbox: well typed, and with it the store still implements *)
(* DispatchStore, so that what is proved of the ledger holds beside it too. *)

\* Recording a receipt and binding an attempt leave an outbox row a row.
LEMMA OutboxRows ==
    /\ NoRow \in OutboxRow
    /\ EnqueuedRow \in OutboxRow
    /\ \A row \in OutboxRow, n \in AttemptNos :
          [row EXCEPT !.attempt = n] \in OutboxRow
    /\ \A row \in OutboxRow, g \in Digests \cup {NoDigest},
          s \in Terminal \cup {"accepted"} : Recorded(row, s, g) \in OutboxRow
    <1>1. 0 \in 0..MaxAttempts /\ \A n \in AttemptNos : n \in 0..MaxAttempts
        BY StoreAssumption DEF AttemptNos
    <1>2. NoRow \in OutboxRow /\ EnqueuedRow \in OutboxRow
        BY <1>1 DEF NoRow, EnqueuedRow, OutboxRow
    <1>3. \A row \in OutboxRow, n \in AttemptNos :
             [row EXCEPT !.attempt = n] \in OutboxRow
        BY <1>1 DEF OutboxRow
    <1>4. \A row \in OutboxRow, g \in Digests \cup {NoDigest},
             s \in Terminal \cup {"accepted"} : Recorded(row, s, g) \in OutboxRow
        BY DEF OutboxRow, Recorded
    <1>5. QED
        BY <1>2, <1>3, <1>4

\* The initial outbox is empty.
LEMMA TransportTypeInit == TInit => TTypeOK
    BY OutboxRows DEF TInit, TTypeOK

\* Every step keeps the outbox well typed.
LEMMA TransportTypeStep == TTypeOK /\ [TNext]_tvars => TTypeOK'
    <1> SUFFICES ASSUME TTypeOK, [TNext]_tvars PROVE TTypeOK'
        OBVIOUS
    <1>1. ASSUME UNCHANGED transportVars PROVE TTypeOK'
        BY <1>1 DEF TTypeOK, transportVars
    <1>2. ASSUME NEW j \in Jobs, NEW p \in Packets, NEW o \in Owners,
                 NEW f \in Fences, NEW d \in Delays, TransportStep(j, p, o, f, d)
          PROVE  TTypeOK'
        <2>1. CASE CreateRemoteJob(j, p, o, f, d)
            BY <2>1, OutboxRows DEF CreateRemoteJob, TTypeOK
        <2>2. CASE RequeueRemoteJob(j, p, o, f, d)
            BY <2>2 DEF RequeueRemoteJob, TTypeOK
        <2>3. ASSUME NEW n \in AttemptNos, BindTransportAttempt(j, p, n, o, f, d)
              PROVE  TTypeOK'
            BY <2>3, OutboxRows DEF BindTransportAttempt, TTypeOK
        <2>4. CASE RecordTransportReceipt(j, p, "accepted", NoDigest, o, f, d)
            BY <2>4, OutboxRows DEF RecordTransportReceipt, TTypeOK
        <2>5. ASSUME NEW s \in Terminal, NEW g \in Digests,
                     RecordTransportReceipt(j, p, s, g, o, f, d)
              PROVE  TTypeOK'
            BY <2>5, OutboxRows DEF RecordTransportReceipt, TTypeOK
        <2>6. ASSUME NEW s \in Terminal, NEW g \in Digests,
                     RecordReceiptAndComplete(j, p, s, g, o, f, d)
              PROVE  TTypeOK'
            BY <2>6, OutboxRows DEF RecordReceiptAndComplete, TTypeOK
        <2>7. QED
            BY <1>2, <2>1, <2>2, <2>3, <2>4, <2>5, <2>6 DEF TransportStep
    <1>3. CASE StoreStep
        BY <1>1, <1>3 DEF StoreStep
    <1>4. CASE UNCHANGED tvars
        BY <1>1, <1>4 DEF tvars
    <1>5. QED
        BY <1>2, <1>3, <1>4 DEF TNext

\* The rows of the outbox have the columns and values the methods of the
\* transport write.
THEOREM TransportTypeCorrect == TSpec => []TTypeOK
    BY TransportTypeInit, TransportTypeStep, PTL DEF TSpec

\* A promotion is a completion by the claimant, which the ledger has a step
\* for; every other transport step leaves the ledger's tables alone or is the
\* ingress step it is built on.
LEMMA TransportStepRefines == TTypeOK /\ [TNext]_tvars => [Next]_vars
    <1> SUFFICES ASSUME TTypeOK, [TNext]_tvars PROVE [Next]_vars
        OBVIOUS
    <1>1. ASSUME NEW j \in Jobs, NEW p \in Packets, NEW o \in Owners,
                 NEW f \in Fences, NEW d \in Delays, TransportStep(j, p, o, f, d)
          PROVE  [Next]_vars
        <2>1. CASE CreateRemoteJob(j, p, o, f, d)
            BY <2>1 DEF CreateRemoteJob, Next
        <2>2. CASE RequeueRemoteJob(j, p, o, f, d)
            BY <2>2 DEF RequeueRemoteJob, Next, IngressStep
        <2>3. ASSUME NEW n \in AttemptNos, BindTransportAttempt(j, p, n, o, f, d)
              PROVE  [Next]_vars
            BY <2>3 DEF BindTransportAttempt
        <2>4. ASSUME NEW s, NEW g, RecordTransportReceipt(j, p, s, g, o, f, d)
              PROVE  [Next]_vars
            BY <2>4 DEF RecordTransportReceipt
        <2>5. ASSUME NEW s \in Terminal, NEW g \in Digests,
                     RecordReceiptAndComplete(j, p, s, g, o, f, d)
              PROVE  [Next]_vars
            <3>1. PICK n \in AttemptNos : n = outbox[j][p].attempt
                BY <2>5 DEF RecordReceiptAndComplete, TTypeOK, OutboxRow, AttemptNos
            <3>2. CASE UNCHANGED vars
                BY <3>2
            <3>3. CASE CompleteJob(j, n, o, f, d, s, Null)
                <4>1. s \in {"completed", "failed", "retry"} /\ Null \in RetryLeft(s, d)
                    BY DEF Terminal, RetryLeft
                <4>2. AttemptStep(j, o, f, d)
                    BY <3>3, <4>1 DEF AttemptStep
                <4>3. QED
                    BY <4>2 DEF Next
            <3>4. QED
                BY <2>5, <3>1, <3>2, <3>3 DEF RecordReceiptAndComplete, Promoted
        <2>6. QED
            BY <1>1, <2>1, <2>2, <2>3, <2>4, <2>5 DEF TransportStep
    <1>2. CASE StoreStep
        BY <1>2 DEF StoreStep, Next
    <1>3. CASE UNCHANGED tvars
        BY <1>3 DEF tvars
    <1>4. QED
        BY <1>1, <1>2, <1>3 DEF TNext

\* The store with its outbox implements the dispatch ledger: no receipt, no
\* binding and no promotion does to a job what the ledger's own transactions
\* could not do, whatever the order of deliveries, replays and takeovers.
THEOREM TransportImplementsStore == TSpec => ImplementsStore
    <1>1. TInit => Init
        BY DEF TInit
    <1>2. QED
        BY <1>1, TransportTypeCorrect, TransportStepRefines, PTL
        DEF TSpec, Spec, ImplementsStore

\* One execution of a job at a time and one controller per fence, with remote
\* receipts finishing attempts beside the controller that runs them.
THEOREM TransportKeepsSingleFlight == TSpec => [](SingleFlight /\ FenceOrder)
    BY TransportImplementsStore, OneExecutionAtATime, FencesAreOrdered, PTL
    DEF ImplementsStore

-----------------------------------------------------------------------------
(* Promotions *)

\* PromotedHasOutcome for one row, without the LET.
Witnessed(j, p) ==
    /\ outbox[j][p].attempt # 0 => attempts[j][outbox[j][p].attempt].status # "none"
    /\ reported[j][p] # "none" =>
          /\ outbox[j][p].status = reported[j][p]
          /\ outbox[j][p].attempt # 0
          /\ attempts[j][outbox[j][p].attempt].status \in OutcomeStatus

LEMMA WitnessedRows == PromotedHasOutcome <=> \A j \in Jobs, p \in Packets : Witnessed(j, p)
    BY DEF PromotedHasOutcome, Witnessed, OutcomeStatus

\* A step that leaves the row and its report alone keeps the witness, because
\* the ledger keeps outcomes.
LEMMA WitnessFrame ==
    ASSUME TTypeOK, TypeOK, SingleFlight, NumbersAreUsedInOrder, [Next]_vars,
           NEW j \in Jobs, NEW p \in Packets, Witnessed(j, p),
           outbox'[j][p] = outbox[j][p], reported'[j][p] = reported[j][p]
    PROVE  Witnessed(j, p)'
    <1>1. outbox[j][p].attempt # 0 => outbox[j][p].attempt \in AttemptNos
        BY StoreAssumption DEF TTypeOK, OutboxRow, AttemptNos
    <1>2. \A n \in AttemptNos : KeepsOutcome(j, n)
        BY OutcomeStep
    <1>3. QED
        BY <1>1, <1>2 DEF Witnessed, KeepsOutcome

LEMMA WitnessStep ==
    TTypeOK /\ TypeOK /\ SingleFlight /\ NumbersAreUsedInOrder
       /\ PromotedHasOutcome /\ [TNext]_tvars => PromotedHasOutcome'
    <1> SUFFICES ASSUME TTypeOK, TypeOK, SingleFlight, NumbersAreUsedInOrder,
                        \A j \in Jobs, p \in Packets : Witnessed(j, p),
                        [TNext]_tvars, NEW j \in Jobs, NEW p \in Packets
                 PROVE  Witnessed(j, p)'
        BY WitnessedRows DEF PromotedHasOutcome, Witnessed, OutcomeStatus
    <1>0. /\ [Next]_vars
          /\ outbox \in [Jobs -> [Packets -> OutboxRow]]
          /\ reported \in [Jobs -> [Packets -> Terminal \cup {"none"}]]
          /\ outbox[j][p].attempt # 0 => outbox[j][p].attempt \in AttemptNos
          /\ \A n \in AttemptNos : KeepsOutcome(j, n)
        BY TransportStepRefines, OutcomeStep, StoreAssumption
        DEF TTypeOK, OutboxRow, AttemptNos
    <1>1. ASSUME UNCHANGED <<outbox, reported>> PROVE Witnessed(j, p)'
        BY <1>0, <1>1, WitnessFrame
    <1>2. ASSUME NEW i \in Jobs, NEW q \in Packets, NEW o \in Owners,
                 NEW f \in Fences, NEW d \in Delays, TransportStep(i, q, o, f, d)
          PROVE  Witnessed(j, p)'
        <2>1. CASE CreateRemoteJob(i, q, o, f, d)
            <3>1. CASE i = j /\ q = p
                <4>1. outbox'[j][p] = EnqueuedRow /\ reported' = reported
                    BY <1>0, <2>1, <3>1 DEF CreateRemoteJob
                <4>2. jobs[j].status = "none"
                    BY <2>1, <3>1 DEF CreateRemoteJob, CreateJob
                <4>3. \A n \in AttemptNos : attempts[j][n].status = "none"
                    BY <4>2 DEF NumbersAreUsedInOrder, UsedNumbers
                <4>4. Witnessed(j, p)
                    OBVIOUS
                <4>5. reported[j][p] = "none"
                    BY <1>0, <4>3, <4>4 DEF Witnessed, OutcomeStatus
                <4>6. QED
                    BY <4>1, <4>5 DEF Witnessed, EnqueuedRow, NoRow
            <3>2. CASE ~(i = j /\ q = p)
                <4>1. outbox'[j][p] = outbox[j][p] /\ reported' = reported
                    BY <1>0, <2>1, <3>2 DEF CreateRemoteJob
                <4>2. QED
                    BY <1>0, <4>1, WitnessFrame
            <3>3. QED
                BY <3>1, <3>2
        <2>2. CASE RequeueRemoteJob(i, q, o, f, d)
            BY <1>1, <2>2 DEF RequeueRemoteJob
        <2>3. ASSUME NEW n \in AttemptNos, BindTransportAttempt(i, q, n, o, f, d)
              PROVE  Witnessed(j, p)'
            <3>1. CASE i = j /\ q = p
                <4>1. /\ outbox'[j][p] = [outbox[j][p] EXCEPT !.attempt = n]
                      /\ reported' = reported /\ attempts' = attempts
                      /\ attempts[j][n].status = "running"
                      /\ outbox[j][p].attempt \in {0, n}
                    BY <1>0, <2>3, <3>1 DEF BindTransportAttempt, Claimed, vars
                <4>2. outbox'[j][p].attempt = n
                    BY <1>0, <4>1 DEF OutboxRow
                <4>3. Witnessed(j, p)
                    OBVIOUS
                <4>4. reported[j][p] = "none"
                    BY <4>1, <4>3 DEF Witnessed, OutcomeStatus
                <4>5. QED
                    BY <4>1, <4>2, <4>4 DEF Witnessed
            <3>2. CASE ~(i = j /\ q = p)
                <4>1. outbox'[j][p] = outbox[j][p] /\ reported' = reported
                    BY <1>0, <2>3, <3>2 DEF BindTransportAttempt
                <4>2. QED
                    BY <1>0, <4>1, WitnessFrame
            <3>3. QED
                BY <3>1, <3>2
        <2>4. ASSUME NEW s, NEW g, RecordTransportReceipt(i, q, s, g, o, f, d)
              PROVE  Witnessed(j, p)'
            <3>1. CASE i = j /\ q = p
                <4>1. /\ outbox'[j][p] = Recorded(outbox[j][p], s, g)
                      /\ reported' = reported /\ attempts' = attempts
                      /\ Recordable(outbox[j][p], s, g)
                    BY <1>0, <2>4, <3>1 DEF RecordTransportReceipt, vars
                <4>2. /\ outbox'[j][p].attempt = outbox[j][p].attempt
                      /\ outbox'[j][p].status = s
                      /\ outbox[j][p].status \in Terminal => outbox[j][p].status = s
                    BY <1>0, <4>1 DEF Recorded, Recordable, OutboxRow
                <4>3. Witnessed(j, p) /\ reported[j][p] \in Terminal \cup {"none"}
                    BY <1>0
                <4>4. QED
                    BY <4>1, <4>2, <4>3 DEF Witnessed
            <3>2. CASE ~(i = j /\ q = p)
                <4>1. outbox'[j][p] = outbox[j][p] /\ reported' = reported
                    BY <1>0, <2>4, <3>2 DEF RecordTransportReceipt
                <4>2. QED
                    BY <1>0, <4>1, WitnessFrame
            <3>3. QED
                BY <3>1, <3>2
        <2>5. ASSUME NEW s \in Terminal, NEW g \in Digests,
                     RecordReceiptAndComplete(i, q, s, g, o, f, d)
              PROVE  Witnessed(j, p)'
            <3>1. CASE i = j /\ q = p
                <4> DEFINE n == outbox[j][p].attempt
                <4>1. /\ outbox'[j][p] = Recorded(outbox[j][p], s, g)
                      /\ reported'[j][p] = s /\ n # 0
                    BY <1>0, <2>5, <3>1 DEF RecordReceiptAndComplete
                <4>2. n \in AttemptNos
                    BY <1>0, <4>1
                <4>3. outbox'[j][p].attempt = n /\ outbox'[j][p].status = s
                    BY <1>0, <4>1 DEF Recorded, OutboxRow
                <4>4. attempts'[j][n].status \in OutcomeStatus
                    <5>1. CASE Settled(j, n) /\ UNCHANGED vars
                        BY <5>1 DEF Settled, OutcomeStatus, vars
                    <5>2. CASE Promoted(j, n, o, f, d, s)
                        <6>1. attempts' = [attempts EXCEPT ![j][n] = EndedAttempt(attempts[j][n], s)]
                            BY <5>2 DEF Promoted, CompleteJob
                        <6>2. /\ attempts \in [Jobs -> [AttemptNos -> AttemptRow]]
                              /\ attempts[j][n] \in AttemptRow
                            BY <4>2 DEF TypeOK
                        <6>3. attempts'[j][n] = EndedAttempt(attempts[j][n], s)
                            BY <4>2, <6>1, <6>2
                        <6>4. QED
                            BY <6>2, <6>3 DEF EndedAttempt, AttemptRow, Terminal, OutcomeStatus
                    <5>3. QED
                        BY <2>5, <3>1, <5>1, <5>2 DEF RecordReceiptAndComplete
                <4>5. QED
                    BY <4>1, <4>3, <4>4 DEF Witnessed, OutcomeStatus
            <3>2. CASE ~(i = j /\ q = p)
                <4>1. outbox'[j][p] = outbox[j][p] /\ reported'[j][p] = reported[j][p]
                    BY <1>0, <2>5, <3>2 DEF RecordReceiptAndComplete
                <4>2. QED
                    BY <1>0, <4>1, WitnessFrame
            <3>3. QED
                BY <3>1, <3>2
        <2>6. QED
            BY <1>2, <2>1, <2>2, <2>3, <2>4, <2>5 DEF TransportStep
    <1>3. CASE StoreStep
        BY <1>1, <1>3 DEF StoreStep, transportVars
    <1>4. CASE UNCHANGED tvars
        BY <1>1, <1>4 DEF tvars, transportVars
    <1>5. QED
        BY <1>2, <1>3, <1>4 DEF TNext

\* A promotion that was reported to a caller rests on an outcome the bound
\* attempt's own claimant recorded, for any number of jobs, packets and
\* controllers: no replay, rebinding or takeover leaves a report whose attempt
\* recovery abandoned, or whose receipt was overwritten.
THEOREM ReportedPromotionsHold == TSpec => []PromotedHasOutcome
    <1>1. TInit => PromotedHasOutcome
        BY DEF TInit, PromotedHasOutcome, NoRow
    <1>2. TSpec => [](TypeOK /\ SingleFlight /\ NumbersAreUsedInOrder)
        BY TransportImplementsStore, TypeCorrect, OneExecutionAtATime,
           AttemptsAreNumberedInOrder, PTL DEF ImplementsStore
    <1>3. QED
        BY <1>1, <1>2, TransportTypeCorrect, WitnessStep, PTL DEF TSpec
=============================================================================
