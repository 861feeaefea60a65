----------------------- MODULE SQLiteControllerProofs -----------------------
(***************************************************************************)
(* Theorems about SQLiteController: its processes take only steps of the    *)
(* dispatch ledger, a job never has two live children, a completion is      *)
(* final, and no slot is leaked, for any number of processes, jobs, lanes   *)
(* and attempts.                                                            *)
(***************************************************************************)
EXTENDS SQLiteController, DispatchStoreProofs, WellFoundedInduction

-----------------------------------------------------------------------------
(* Choices the loop makes *)

\* A set of jobs that is not empty has a first one.
LEMMA FirstIsOne ==
    ASSUME NEW S \in SUBSET Jobs, S # {}
    PROVE  First(S) \in S
    <1> DEFINE Ranks == {Rank[i] : i \in S}
    <1>1. Ranks \subseteq Nat /\ Ranks # {}
        BY StoreAssumption
    <1>2. \E x \in Ranks : \A y \in Ranks : ~(y < x)
        <2> HIDE DEF Ranks
        <2>1. PICK x \in Ranks : \A y \in Ranks : <<y, x>> \notin OpToRel(<, Nat)
            BY <1>1, WFMin, NatLessThanWellFounded, Zenon
        <2>2. \A y \in Ranks : ~(y < x)
            BY <1>1, <2>1, Zenon DEF OpToRel
        <2>3. QED
            BY <2>2
    <1>3. PICK j \in S : \A i \in S : ~(Rank[i] < Rank[j])
        BY <1>2
    <1>4. \A i \in S : Rank[j] \in Nat /\ Rank[i] \in Nat
        BY StoreAssumption
    <1>5. \A i \in S : Rank[j] <= Rank[i]
        BY <1>3, <1>4
    <1>6. QED
        BY <1>5 DEF First

\* A limit beyond the number of jobs selects what that number selects, so a
\* claim for any number of free lanes is a claim the ledger knows.
LEMMA SelectedSaturates ==
    ASSUME NEW m \in Nat, NEW o, NEW f, NEW d, m >= Cardinality(Jobs)
    PROVE  Selected(m, o, f, d, TRUE) = Selected(Cardinality(Jobs), o, f, d, TRUE)
    <1> DEFINE c == Cardinality(Jobs)
    <1>1. c \in Nat
        BY StoreAssumption, FS_CardinalityType
    <1>2. ASSUME NEW T \in SUBSET Jobs, NEW j \in Jobs, j \notin T
          PROVE  Cardinality(T) \in Nat /\ Cardinality(T) < c
        <2>1. IsFiniteSet(Jobs \ {j}) /\ Cardinality(Jobs \ {j}) = c - 1
            BY StoreAssumption, FS_RemoveElement
        <2>2. T \in SUBSET (Jobs \ {j})
            BY <1>2
        <2>3. IsFiniteSet(T) /\ Cardinality(T) <= c - 1
            BY <2>1, <2>2, FS_Subset
        <2>4. Cardinality(T) \in Nat
            BY <2>3, FS_CardinalityType
        <2>5. QED
            BY <1>1, <2>3, <2>4
    <1>3. \A k \in Nat : k <= k * WindowFactor /\ k * WindowFactor \in Nat
        BY StoreAssumption
    <1>4. ASSUME NEW j \in Jobs
          PROVE  LET T == {i \in Jobs : Runnable(i, d) /\ Rank[i] < Rank[j]}
                 IN  Cardinality(T) < c * WindowFactor /\ Cardinality(T) < m * WindowFactor
        <2> DEFINE T == {i \in Jobs : Runnable(i, d) /\ Rank[i] < Rank[j]}
        <2>1. j \notin T
            BY StoreAssumption
        <2>2. Cardinality(T) \in Nat /\ Cardinality(T) < c
            BY <1>2, <2>1
        <2>3. c <= c * WindowFactor /\ m <= m * WindowFactor /\ c * WindowFactor \in Nat
              /\ m * WindowFactor \in Nat
            BY <1>1, <1>3
        <2> HIDE DEF T, c
        <2>4. Cardinality(T) < c * WindowFactor /\ Cardinality(T) < m * WindowFactor
            BY <1>1, <2>2, <2>3 DEF c
        <2>5. QED
            BY <2>4 DEF T
    <1>5. Window(m, d) = {j \in Jobs : Runnable(j, d)} /\ Window(c, d) = {j \in Jobs : Runnable(j, d)}
        BY <1>4 DEF Window
    <1>6. QED
        <2> DEFINE fit == {j \in Window(c, d) : Claimable(j, o, f, d, TRUE)}
        <2>1. fit \subseteq Jobs
            BY DEF Window
        <2>2. ASSUME NEW j \in fit
              PROVE  LET T == {i \in fit : Rank[i] < Rank[j]}
                     IN  Cardinality(T) < c /\ Cardinality(T) < m
            <3> DEFINE T == {i \in fit : Rank[i] < Rank[j]}
            <3>0. Rank[j] \in Nat /\ j \in Jobs
                BY <2>1, StoreAssumption
            <3> HIDE DEF fit
            <3>1. j \notin T /\ T \in SUBSET Jobs
                BY <2>1, <3>0
            <3> HIDE DEF T
            <3>2. Cardinality(T) \in Nat /\ Cardinality(T) < c
                BY <1>2, <3>0, <3>1
            <3>3. QED
                BY <1>1, <3>2 DEF T
        <2>3. Selected(c, o, f, d, TRUE) = fit
            BY <2>2 DEF Selected
        <2>4. Selected(m, o, f, d, TRUE) = {j \in fit : Cardinality({i \in fit : Rank[i] < Rank[j]}) < m}
            BY <1>5 DEF Selected
        <2>5. QED
            BY <2>2, <2>3, <2>4

-----------------------------------------------------------------------------
(* Types, and steps of the ledger *)

LaneRow == [state : LaneStates, proc : Procs \cup {NoProc}]

\* A process that has started and not ended carries a fence an epoch had.
FenceCarried ==
    /\ lease.status = "active" => lease.fence \in Fences
    /\ \A p \in Procs : pc[p] \notin {"off", "gone"} => fence[p] \in Fences
ControllerTypes == CTypeOK /\ FenceCarried

LEMMA ControllerInit ==
    CInit => ControllerTypes /\ SingleFlight /\ NumbersAreUsedInOrder
    <1> SUFFICES ASSUME CInit
                 PROVE  ControllerTypes /\ SingleFlight /\ NumbersAreUsedInOrder
        OBVIOUS
    <1>1. QueuedJob \in JobRow /\ NoJob \in JobRow /\ NoAttempt \in AttemptRow
             /\ NoReservation \in ReservationRow
        BY EmptyRows, ReservationRows DEF QueuedJob, JobStatus
    <1>2. TypeOK
        BY <1>1, EmptyRows, StoreAssumption, TimerFacts DEF CInit, TypeOK, LeaseRow
    <1>3. CTypeOK
        BY <1>2, StoreAssumption, ControllerAssumption
        DEF CInit, CTypeOK, NoLane, LaneStates
    <1>4. FenceCarried
        BY DEF CInit, FenceCarried
    <1>5. \A j \in Jobs : jobs[j].status # "running" /\ \A n \in AttemptNos : attempts[j][n].status = "none"
        BY DEF CInit, QueuedJob, NoJob, NoAttempt
    <1>6. QED
        BY <1>3, <1>4, <1>5
        DEF ControllerTypes, SingleFlight, OneFlight, NumbersAreUsedInOrder, UsedNumbers

\* The bodies of the four compound ledger calls.
LEMMA LedgerCalls ==
    ASSUME NEW o \in Owners, NEW f \in Fences, NEW d \in Delays, NEW j \in Jobs
    PROVE  /\ LeaseStep(o, f, d) => Next
           /\ RequeueJob(j, o, f, d) => Next
           /\ ReserveAndClaimJob(j, o, f, d) => Next
           /\ AttemptStep(j, o, f, d) => Next
           /\ CreateJob(j) => Next
           /\ ScopeStep(o, f, d) => Next
    BY DEF Next, IngressStep, ClaimStep

\* Every step of a controller process, a lane, a heartbeat thread or a child
\* is a transaction of the ledger or leaves it alone.
LEMMA ControllerStepRefines ==
    ASSUME ControllerTypes, [CNext]_cvars
    PROVE  [Next]_vars
    <1>0. /\ OwnerOf \in [Procs -> Owners] /\ Target \in [Procs -> Jobs]
          /\ \A p \in Procs : cand[p] \in SUBSET Jobs /\ dead[p] \in SUBSET Jobs
          /\ \A p \in Procs : pc[p] \notin {"off", "gone"} => fence[p] \in Fences
        BY ControllerAssumption DEF ControllerTypes, CTypeOK, FenceCarried
    <1>1. ASSUME NEW p \in Procs, NEW d \in Delays, ProcessStep(p, d)
          PROVE  [Next]_vars
        <2>0. OwnerOf[p] \in Owners /\ Target[p] \in Jobs
            BY <1>0
        <2>1. CASE Start(p, d)
            <3>1. 1 \in Fences
                BY StoreAssumption DEF Fences
            <3>2. LeaseStep(OwnerOf[p], 1, d)
                BY <2>1 DEF Start, LeaseStep
            <3>3. QED
                BY <2>0, <3>1, <3>2 DEF Next
        <2>2. CASE Close(p)
            <3>1. CASE Release(OwnerOf[p], fence[p])
                <4>1. fence[p] \in Fences
                    BY <1>0, <2>2 DEF Close
                <4>2. LeaseStep(OwnerOf[p], fence[p], d)
                    BY <3>1 DEF LeaseStep
                <4>3. QED
                    BY <2>0, <4>1, <4>2 DEF Next
            <3>2. CASE UNCHANGED vars
                BY <3>2
            <3>3. QED
                BY <2>2, <3>1, <3>2 DEF Close
        <2>3. CASE Unwind(p, d)
            BY <2>3 DEF Unwind
        <2>4. CASE Enqueue(p, d)
            <3>1. fence[p] \in Fences
                BY <1>0, <2>4 DEF Enqueue
            <3>2. QED
                BY <2>0, <2>4, <3>1, LedgerCalls DEF Enqueue
        <2>5. CASE CollectEvidence(p)
            BY <2>5 DEF CollectEvidence
        <2>6. CASE Recover(p, d)
            <3>1. fence[p] \in Fences
                BY <1>0, <2>6 DEF Recover
            <3>2. CASE UNCHANGED vars
                BY <3>2
            <3>3. CASE RecoverExpiredJobs(OwnerOf[p], fence[p], d, "retry", dead[p])
                <4>1. ScopeStep(OwnerOf[p], fence[p], d)
                    BY <1>0, <3>3 DEF ScopeStep
                <4>2. QED
                    BY <2>0, <3>1, <4>1 DEF Next
            <3>4. QED
                BY <2>6, <3>2, <3>3 DEF Recover
        <2>7. CASE BeginPass(p)
            BY <2>7 DEF BeginPass
        <2>8. CASE ReserveLane(p, d)
            <3>1. fence[p] \in Fences /\ cand[p] # {}
                BY <1>0, <2>8 DEF ReserveLane
            <3>2. First(cand[p]) \in Jobs
                BY <1>0, <3>1, FirstIsOne
            <3>3. ReserveAndClaimJob(First(cand[p]), OwnerOf[p], fence[p], d)
                BY <2>8 DEF ReserveLane
            <3>4. QED
                BY <2>0, <3>1, <3>2, <3>3, LedgerCalls
        <2>9. CASE PassOver(p, d)
            BY <2>9 DEF PassOver
        <2>10. CASE ClaimRest(p, d)
            <3> DEFINE m == FreeLanes(p)
                       c == Cardinality(Jobs)
            <3>1. fence[p] \in Fences
                BY <1>0, <2>10 DEF ClaimRest, PassEnded
            <3>2. ClaimJobs(m, OwnerOf[p], fence[p], d, TRUE) /\ m > 0
                BY <2>10 DEF ClaimRest
            <3>3. m \in Nat
                <4>1. IsFiniteSet(AttemptNos)
                    BY StoreAssumption, FS_Interval DEF AttemptNos
                <4>2. IsFiniteSet(Jobs \X AttemptNos)
                    BY <4>1, StoreAssumption, FS_Product
                <4>3. LanesOf(p, {"claimed"}) \in SUBSET (Jobs \X AttemptNos)
                    BY DEF LanesOf
                <4>4. Cardinality(LanesOf(p, {"claimed"})) \in Nat
                    BY <4>2, <4>3, FS_Subset, FS_CardinalityType
                <4>5. QED
                    BY <3>2, <4>4, ControllerAssumption DEF FreeLanes
            <3>4. c \in Nat
                BY StoreAssumption, FS_CardinalityType
            <3>5. CASE m <= c
                <4>1. m \in 1..c
                    BY <3>2, <3>3, <3>4, <3>5
                <4>2. ScopeStep(OwnerOf[p], fence[p], d)
                    BY <3>2, <4>1 DEF ScopeStep
                <4>3. QED
                    BY <2>0, <3>1, <4>2 DEF Next
            <3>6. CASE m > c
                <4>1. Selected(m, OwnerOf[p], fence[p], d, TRUE) = Selected(c, OwnerOf[p], fence[p], d, TRUE)
                    <5>1. m >= Cardinality(Jobs)
                        BY <3>3, <3>4, <3>6
                    <5> HIDE DEF m
                    <5>2. QED
                        BY <3>3, <5>1, SelectedSaturates
                <4>2. ClaimJobs(c, OwnerOf[p], fence[p], d, TRUE)
                    BY <3>2, <4>1 DEF ClaimJobs
                <4>3. c # 0
                    <5>1. Selected(c, OwnerOf[p], fence[p], d, TRUE) # {}
                        BY <4>2 DEF ClaimJobs
                    <5>2. Selected(c, OwnerOf[p], fence[p], d, TRUE) \subseteq Jobs
                        BY DEF Selected, Window
                    <5>3. Jobs # {}
                        BY <5>1, <5>2
                    <5>4. QED
                        BY <5>3, StoreAssumption, FS_EmptySet
                <4>4. c \in 1..c
                    BY <3>4, <4>3
                <4>5. ScopeStep(OwnerOf[p], fence[p], d)
                    BY <4>2, <4>4 DEF ScopeStep
                <4>6. QED
                    BY <2>0, <3>1, <4>5 DEF Next
            <3>7. QED
                BY <3>3, <3>4, <3>5, <3>6
        <2>11. CASE NoneLeft(p, d)
            BY <2>11 DEF NoneLeft
        <2>12. CASE BatchDone(p)
            BY <2>12 DEF BatchDone
        <2>13. QED
            BY <1>1, <2>1, <2>2, <2>3, <2>4, <2>5, <2>6, <2>7, <2>8, <2>9, <2>10, <2>11, <2>12
            DEF ProcessStep
    <1>2. ASSUME NEW p \in Procs, NEW d \in Delays, NEW j \in Jobs, NEW n \in AttemptNos,
                 LaneStep(p, j, n, d)
          PROVE  [Next]_vars
        <2>1. CASE Finish(p, j, n, d)
            <3>1. fence[p] \in Fences /\ OwnerOf[p] \in Owners
                BY <1>0, <2>1 DEF Finish, At
            <3>2. PICK outcome \in {"completed", "failed", "retry"} :
                     \E r \in Backoffs(outcome, d) :
                        CompleteJob(j, n, OwnerOf[p], fence[p], d, outcome, r)
                BY <2>1 DEF Finish, Outcomes
            <3>3. Backoffs(outcome, d) \subseteq RetryLeft(outcome, d)
                BY DEF Backoffs, RetryLeft
            <3>4. AttemptStep(j, OwnerOf[p], fence[p], d)
                BY <3>2, <3>3 DEF AttemptStep
            <3>5. QED
                BY <3>1, <3>4, LedgerCalls
        <2>2. CASE ~Finish(p, j, n, d)
            BY <1>2, <2>2
            DEF LaneStep, Spawn, LaunchFails, WritePid, Reap, FinishFenced
        <2>3. QED
            BY <2>1, <2>2
    <1>3. ASSUME NEW p \in Procs, NEW d \in Delays, BeatLease(p, d)
          PROVE  [Next]_vars
        <2>1. fence[p] \in Fences /\ OwnerOf[p] \in Owners
            BY <1>0, <1>3 DEF BeatLease, Running
        <2>2. LeaseStep(OwnerOf[p], fence[p], d)
            BY <1>3 DEF BeatLease, LeaseStep
        <2>3. QED
            BY <2>1, <2>2 DEF Next
    <1>4. ASSUME NEW p \in Procs, NEW d \in Delays, NEW j \in Jobs, NEW n \in AttemptNos,
                 BeatJob(p, j, n, d)
          PROVE  [Next]_vars
        <2>1. fence[p] \in Fences /\ OwnerOf[p] \in Owners
            BY <1>0, <1>4 DEF BeatJob, At
        <2>2. AttemptStep(j, OwnerOf[p], fence[p], d)
            BY <1>4 DEF BeatJob, AttemptStep
        <2>3. QED
            BY <2>1, <2>2, LedgerCalls
    <1>5. ASSUME NEW p \in Procs, Refuse(p) \/ Crash(p) PROVE [Next]_vars
        BY <1>5 DEF Refuse, Crash
    <1>6. ASSUME NEW j \in Jobs, NEW n \in AttemptNos, ChildExit(j, n) PROVE [Next]_vars
        BY <1>6 DEF ChildExit
    <1>7. CASE CTick
        BY <1>7 DEF CTick, Next
    <1>8. CASE UNCHANGED cvars
        BY <1>8 DEF cvars, vars
    <1>9. QED
        BY <1>1, <1>2, <1>3, <1>4, <1>5, <1>6, <1>7, <1>8 DEF CNext


\* What a process may write into its own variables.
LEMMA ProcTypes ==
    ASSUME ControllerTypes, NEW p \in Procs
    PROVE  /\ \A label \in {"ingress", "evidence", "recover", "loop", "reserve",
                            "exec", "closing"} :
                 Goto(p, label) =>
                    /\ pc' \in [Procs -> {"off", "ingress", "evidence", "recover", "loop",
                                          "reserve", "exec", "closing", "gone"}]
                    /\ pc'[p] = label /\ \A q \in Procs : q # p => pc'[q] = pc[q]
           /\ Gone(p) =>
                    /\ pc' \in [Procs -> {"off", "ingress", "evidence", "recover", "loop",
                                          "reserve", "exec", "closing", "gone"}]
                    /\ pc'[p] = "gone" /\ \A q \in Procs : q # p => pc'[q] = pc[q]
                    /\ fence' \in [Procs -> 0..MaxFence]
                    /\ \A q \in Procs : q # p => fence'[q] = fence[q]
                    /\ dead' \in [Procs -> SUBSET Jobs]
                    /\ \A q \in Procs : q # p => dead'[q] = dead[q]
                    /\ cand' \in [Procs -> SUBSET Jobs]
           /\ Strand(p) => lane' \in [Jobs -> [AttemptNos -> LaneRow]]
    <1>1. /\ pc \in [Procs -> {"off", "ingress", "evidence", "recover", "loop",
                               "reserve", "exec", "closing", "gone"}]
          /\ fence \in [Procs -> 0..MaxFence] /\ 0 \in 0..MaxFence
          /\ dead \in [Procs -> SUBSET Jobs] /\ cand \in [Procs -> SUBSET Jobs]
          /\ lane \in [Jobs -> [AttemptNos -> LaneRow]] /\ NoLane \in LaneRow
        BY StoreAssumption DEF ControllerTypes, CTypeOK, LaneRow, NoLane, LaneStates
    <1>2. Strand(p) => lane' \in [Jobs -> [AttemptNos -> LaneRow]]
        BY <1>1 DEF Strand
    <1>3. QED
        BY <1>1, <1>2 DEF Goto, Gone

\* What the controller writes beside the ledger, grouped by variable: the
\* process variables and the fences, then the lanes, children and breadcrumbs.
Labels == {"off", "ingress", "evidence", "recover", "loop", "reserve", "exec",
           "closing", "gone"}
ProcOK ==
    /\ pc \in [Procs -> Labels]
    /\ fence \in [Procs -> 0..MaxFence]
    /\ dead \in [Procs -> SUBSET Jobs]
    /\ cand \in [Procs -> SUBSET Jobs]
    /\ \A p \in Procs : pc[p] \notin {"off", "gone"} => fence[p] \in Fences
ExecOK ==
    /\ lane \in [Jobs -> [AttemptNos -> LaneRow]]
    /\ child \in [Jobs -> [AttemptNos -> {"none", "alive", "exited"}]]
    /\ pidfile \in [PidFiles -> {NoPid} \cup (Jobs \X AttemptNos)]

LEMMA ControllerTypesStep ==
    ASSUME ControllerTypes, [CNext]_cvars
    PROVE  ControllerTypes'
    <1>0. /\ pc \in [Procs -> Labels]
          /\ fence \in [Procs -> 0..MaxFence]
          /\ dead \in [Procs -> SUBSET Jobs]
          /\ cand \in [Procs -> SUBSET Jobs]
          /\ \A p \in Procs : pc[p] \notin {"off", "gone"} => fence[p] \in Fences
          /\ lane \in [Jobs -> [AttemptNos -> LaneRow]]
          /\ child \in [Jobs -> [AttemptNos -> {"none", "alive", "exited"}]]
          /\ pidfile \in [PidFiles -> {NoPid} \cup (Jobs \X AttemptNos)]
          /\ lease.status = "active" => lease.fence \in Fences
          /\ lease \in LeaseRow
          /\ \A p \in Procs, st \in LaneStates : [state |-> st, proc |-> p] \in LaneRow
          /\ NoLane \in LaneRow
          /\ PidPath \in [Jobs -> [AttemptNos -> PidFiles]]
        BY ControllerAssumption
        DEF ControllerTypes, CTypeOK, FenceCarried, LaneRow, TypeOK, NoLane, LaneStates, Labels
    <1>1. TypeOK'
        BY ControllerStepRefines, TypeStep DEF ControllerTypes, CTypeOK
    <1>2. lease'.status = "active" => lease'.fence \in Fences
        <2>1. CASE UNCHANGED lease
            BY <1>0, <2>1
        <2>2. ASSUME NEW o \in Owners, NEW f \in Fences, NEW d \in Delays, LeaseStep(o, f, d)
              PROVE  lease'.status = "active" => lease'.fence \in Fences
            <3>1. CASE HeartbeatLease(o, f, d) \/ Release(o, f)
                <4>1. lease'.fence = lease.fence /\ lease'.status \in {"released", lease.status}
                    BY <1>0, <3>1 DEF HeartbeatLease, Release, Renewed, LeaseRow
                <4>2. QED
                    BY <1>0, <4>1
            <3>2. CASE Acquire(o, d)
                <4>1. \/ lease'.fence = lease.fence /\ lease.status = "active"
                      \/ lease'.fence = lease.fence + 1 /\ lease.fence < MaxFence
                    BY <1>0, <3>2 DEF Acquire, Renewed, LeaseRow
                <4>2. QED
                    BY <1>0, <4>1, StoreAssumption DEF LeaseRow, Fences
            <3>3. QED
                BY <2>2, <3>1, <3>2 DEF LeaseStep
        <2>3. CASE Tick
            <3>1. lease'.fence = lease.fence /\ lease'.status = lease.status
                BY <1>0, <2>3 DEF Tick, Aged, LeaseRow
            <3>2. QED
                BY <1>0, <3>1
        <2>4. ASSUME NEW o \in Owners, NEW f \in Fences, NEW d \in Delays, ScopeStep(o, f, d)
              PROVE  UNCHANGED lease
            BY <2>4 DEF ScopeStep, ClaimJobs, RecoverExpiredJobs
        <2>5. ASSUME NEW j \in Jobs, NEW o \in Owners, NEW f \in Fences, NEW d \in Delays,
                     \/ IngressStep(j, o, f, d) \/ ReservationStep(j, o, f, d)
                     \/ ClaimStep(j, o, f, d) \/ AttemptStep(j, o, f, d)
              PROVE  UNCHANGED lease
            BY <2>5
            DEF IngressStep, ReservationStep, ClaimStep, AttemptStep, RequeueJob,
                ImportLegacyJob, ReserveResources, HeartbeatReservation, ReleaseReservation,
                ReserveAndClaimJob, ClaimJob, HeartbeatJob, CompleteJob
        <2>6. ASSUME NEW j \in Jobs, CreateJob(j) PROVE UNCHANGED lease
            BY <2>6 DEF CreateJob
        <2>7. QED
            BY ControllerStepRefines, <2>1, <2>2, <2>3, <2>4, <2>5, <2>6 DEF Next, vars
    <1>3. ASSUME UNCHANGED procVars PROVE ProcOK'
        BY <1>0, <1>3 DEF procVars, ProcOK
    <1>4. ASSUME UNCHANGED execVars PROVE ExecOK'
        BY <1>0, <1>4 DEF execVars, ExecOK
    <1>5. ASSUME NEW p \in Procs, NEW d \in Delays, ProcessStep(p, d) PROVE (ProcOK /\ ExecOK)'
        <2> USE <1>0, ProcTypes DEF ProcOK, ExecOK, Labels
        <2>1. CASE Start(p, d)
            <3>1. lease'.fence \in Fences
                <4>1. lease'.status = "active"
                    BY <2>1 DEF Start, Acquire, Renewed, LeaseRow
                <4>2. QED
                    BY <1>2, <4>1
            <3>2. fence' \in [Procs -> 0..MaxFence] /\ fence'[p] \in Fences
                     /\ \A q \in Procs : q # p => fence'[q] = fence[q]
                BY <2>1, <3>1, StoreAssumption DEF Start, Fences
            <3>3. ProcOK'
                BY <2>1, <3>2 DEF Start
            <3>4. QED
                BY <2>1, <3>3 DEF Start
        <2>2. CASE Close(p)
            BY <2>2 DEF Close
        <2>3. CASE Unwind(p, d)
            BY <2>3 DEF Unwind
        <2>4. CASE Enqueue(p, d)
            BY <2>4 DEF Enqueue
        <2>5. CASE CollectEvidence(p)
            <3>1. dead' \in [Procs -> SUBSET Jobs]
                BY <2>5 DEF CollectEvidence, ExpiredRunning
            <3>2. QED
                BY <2>5, <3>1 DEF CollectEvidence
        <2>6. CASE Recover(p, d)
            BY <2>6 DEF Recover
        <2>7. CASE BeginPass(p)
            <3>1. Candidates \in SUBSET Jobs
                BY DEF Candidates, Waiting
            <3>2. QED
                BY <2>7, <3>1 DEF BeginPass
        <2>8. CASE ReserveLane(p, d)
            <3>1. lane' \in [Jobs -> [AttemptNos -> LaneRow]]
                <4>1. [state |-> "claimed", proc |-> p] \in LaneRow
                    BY DEF LaneStates
                <4>2. QED
                    BY <2>8, <4>1 DEF ReserveLane
            <3>2. cand' \in [Procs -> SUBSET Jobs]
                BY <2>8 DEF ReserveLane
            <3>3. QED
                BY <2>8, <3>1, <3>2 DEF ReserveLane
        <2>9. CASE PassOver(p, d)
            <3>1. cand' \in [Procs -> SUBSET Jobs]
                BY <2>9 DEF PassOver
            <3>2. QED
                BY <2>9, <3>1 DEF PassOver
        <2>10. CASE ClaimRest(p, d)
            <3>1. lane' \in [Jobs -> [AttemptNos -> LaneRow]]
                <4>1. [state |-> "claimed", proc |-> p] \in LaneRow
                    BY DEF LaneStates
                <4>2. QED
                    BY <2>10, <4>1 DEF ClaimRest
            <3>2. pc[p] = "reserve"
                BY <2>10 DEF ClaimRest, PassEnded
            <3>3. QED
                BY <2>10, <3>1, <3>2 DEF ClaimRest
        <2>11. CASE NoneLeft(p, d)
            <3>1. pc[p] = "reserve"
                BY <2>11 DEF NoneLeft, PassEnded
            <3>2. QED
                BY <2>11, <3>1 DEF NoneLeft
        <2>12. CASE BatchDone(p)
            BY <2>12 DEF BatchDone
        <2>13. QED
            BY <1>5, <2>1, <2>2, <2>3, <2>4, <2>5, <2>6, <2>7, <2>8, <2>9, <2>10, <2>11, <2>12
            DEF ProcessStep
    <1>6. ASSUME NEW p \in Procs, NEW d \in Delays, NEW j \in Jobs, NEW n \in AttemptNos,
                 LaneStep(p, j, n, d)
          PROVE  (ProcOK /\ ExecOK)'
        <2>1. \A st \in LaneStates : LaneGoto(j, n, st) => lane' \in [Jobs -> [AttemptNos -> LaneRow]]
            <3>1. ASSUME NEW st \in LaneStates, LaneGoto(j, n, st)
                  PROVE  lane' \in [Jobs -> [AttemptNos -> LaneRow]]
                <4>1. lane[j][n] \in LaneRow
                    BY <1>0
                <4>2. [lane[j][n] EXCEPT !.state = st] \in LaneRow
                    BY <4>1 DEF LaneRow
                <4>3. lane' = [lane EXCEPT ![j][n] = [lane[j][n] EXCEPT !.state = st]]
                    BY <3>1 DEF LaneGoto
                <4>4. QED
                    BY <1>0, <4>2, <4>3
            <3>2. QED
                BY <3>1
        <2>2. LaneEnds(j, n) => lane' \in [Jobs -> [AttemptNos -> LaneRow]]
            BY <1>0 DEF LaneEnds
        <2>3. lane' \in [Jobs -> [AttemptNos -> LaneRow]]
            BY <1>6, <2>1, <2>2
            DEF LaneStep, Spawn, LaunchFails, WritePid, Reap, Finish, FinishFenced, LaneStates
        <2>4. child' \in [Jobs -> [AttemptNos -> {"none", "alive", "exited"}]]
            <3>1. PICK c \in {"none", "alive", "exited"} :
                     child' = child \/ child' = [child EXCEPT ![j][n] = c]
                BY <1>6
                DEF LaneStep, Spawn, LaunchFails, WritePid, Reap, Finish, FinishFenced
            <3>2. CASE child' = child
                BY <1>0, <3>2
            <3>3. CASE child' = [child EXCEPT ![j][n] = c]
                <4> DEFINE States == {"none", "alive", "exited"}
                <4>1. c \in States /\ child \in [Jobs -> [AttemptNos -> States]]
                    BY <1>0
                <4> HIDE DEF States
                <4>2. child' \in [Jobs -> [AttemptNos -> States]]
                    BY <3>3, <4>1
                <4>3. QED
                    BY <4>2 DEF States
            <3>4. QED
                BY <3>1, <3>2, <3>3
        <2>5. pidfile' \in [PidFiles -> {NoPid} \cup (Jobs \X AttemptNos)]
            <3>1. PICK v \in {NoPid} \cup (Jobs \X AttemptNos) :
                     pidfile' = pidfile \/ pidfile' = [pidfile EXCEPT ![PidPath[j][n]] = v]
                BY <1>6
                DEF LaneStep, Spawn, LaunchFails, WritePid, Reap, Finish, FinishFenced
            <3>2. QED
                BY <1>0, <3>1
        <2>6. UNCHANGED procVars
            BY <1>6
            DEF LaneStep, Spawn, LaunchFails, WritePid, Reap, Finish, FinishFenced
        <2>7. QED
            BY <1>3, <2>3, <2>4, <2>5, <2>6 DEF ExecOK
    <1>7. ASSUME NEW p \in Procs, Crash(p) PROVE (ProcOK /\ ExecOK)'
        BY <1>0, <1>7, ProcTypes DEF Crash, ProcOK, ExecOK, Labels
    <1>8. ASSUME NEW p \in Procs, Refuse(p) PROVE (ProcOK /\ ExecOK)'
        <2>1. cand' \in [Procs -> SUBSET Jobs]
            BY <1>0, <1>8 DEF Refuse
        <2>2. QED
            BY <1>0, <1>8, <2>1 DEF Refuse, ProcOK, ExecOK
    <1>9. ASSUME NEW j \in Jobs, NEW n \in AttemptNos, ChildExit(j, n) PROVE (ProcOK /\ ExecOK)'
        BY <1>0, <1>3, <1>9 DEF ChildExit, ExecOK
    <1>10. ASSUME NEW p \in Procs, NEW d \in Delays,
                  \/ BeatLease(p, d)
                  \/ \E j \in Jobs, n \in AttemptNos : BeatJob(p, j, n, d)
           PROVE  (ProcOK /\ ExecOK)'
        BY <1>3, <1>4, <1>10 DEF BeatLease, BeatJob
    <1>11. ASSUME CTick \/ UNCHANGED cvars PROVE (ProcOK /\ ExecOK)'
        <2>1. UNCHANGED procVars /\ UNCHANGED execVars
            BY <1>11 DEF CTick, cvars, procVars, execVars
        <2>2. QED
            BY <1>3, <1>4, <2>1
    <1>12. (ProcOK /\ ExecOK)'
        BY <1>5, <1>6, <1>7, <1>8, <1>9, <1>10, <1>11 DEF CNext
    <1>13. QED
        BY <1>1, <1>2, <1>12 DEF ControllerTypes, CTypeOK, FenceCarried, LaneRow, ProcOK, ExecOK, Labels

\* The controller's own state and the ledger keep their types.
THEOREM ControllerTypeCorrect == CSpec => []ControllerTypes
    BY ControllerInit, ControllerTypesStep, PTL DEF CSpec

\* The controller processes use the ledger as its transactions allow: what is
\* proved of DispatchStore holds of every interleaving of controllers.
THEOREM ControllerImplementsStore ==
    ASSUME Preloaded = {}
    PROVE  CSpec => Spec
    <1>1. CInit => Init
        BY DEF CInit, Init
    <1>2. QED
        BY <1>1, ControllerTypeCorrect, ControllerStepRefines, PTL DEF CSpec, Spec

\* With processes, lanes and children around it the ledger still runs one
\* attempt of a job at a time and numbers the attempts in order.
LEMMA ControllerLedger == CSpec => [](TypeOK /\ SingleFlight /\ NumbersAreUsedInOrder)
    <1>1. ControllerTypes => TypeOK
        BY DEF ControllerTypes, CTypeOK
    <1>2. ControllerTypes /\ SingleFlight /\ NumbersAreUsedInOrder /\ [CNext]_cvars =>
             (SingleFlight /\ NumbersAreUsedInOrder)'
        BY <1>1, ControllerStepRefines, FlightStep, NumbersStep
    <1>3. QED
        BY <1>1, <1>2, ControllerInit, ControllerTypeCorrect, PTL DEF CSpec


-----------------------------------------------------------------------------
(* What a step may do to one job, and to one attempt's lane and child *)

\* A claim takes the next attempt of a job that waits.
TakesJob(j) ==
    /\ jobs[j].status \in {"queued", "retry"} /\ jobs'[j].status = "running"
    /\ NextAttemptNo(j) \in AttemptNos
    /\ jobs'[j].attempt_count = NextAttemptNo(j)
    /\ attempts[j][NextAttemptNo(j)].status = "none"
    /\ attempts'[j][NextAttemptNo(j)].status = "running"

LEMMA ClaimGives ==
    ASSUME TypeOK, NEW S \in SUBSET Jobs, NEW o, NEW f, NEW d,
           ClaimRows(S, o, f, d), \A i \in S : Runnable(i, d), NEW j \in Jobs
    PROVE  /\ j \in S => TakesJob(j)
           /\ j \notin S => jobs'[j] = jobs[j]
    <1>1. jobs[j] \in JobRow /\ attempts[j] \in [AttemptNos -> AttemptRow]
        BY DEF TypeOK
    <1>2. j \notin S => jobs'[j] = jobs[j]
        BY DEF ClaimRows
    <1>3. ASSUME j \in S PROVE TakesJob(j)
        <2>1. /\ jobs'[j] = ClaimedJob(jobs[j], o, f, d)
              /\ attempts'[j] = [attempts[j] EXCEPT ![NextAttemptNo(j)] = RunningAttempt(o, f, d)]
              /\ NextAttemptNo(j) \in AttemptNos
              /\ attempts[j][NextAttemptNo(j)].status = "none"
            BY <1>3 DEF ClaimRows
        <2>2. jobs'[j].attempt_count = NextAttemptNo(j) /\ jobs'[j].status = "running"
            BY <1>1, <2>1 DEF ClaimedJob, NextAttemptNo, JobRow
        <2>3. attempts'[j][NextAttemptNo(j)].status = "running"
            BY <1>1, <2>1 DEF RunningAttempt
        <2>4. QED
            BY <1>3, <2>1, <2>2, <2>3 DEF TakesJob, Runnable
    <1>4. QED
        BY <1>2, <1>3

SameStatus(j) == jobs'[j].status = jobs[j].status /\ SameCount(j)
EntersQueue(j) == jobs[j].status = "none" /\ jobs'[j].status = "queued"
Replanned(j) ==
    jobs[j].status \in {"failed", "blocked"} /\ jobs'[j].status = "queued" /\ SameCount(j)
Taken(j) ==
    TakesJob(j) /\ \E p \in Procs : pc[p] = "reserve" /\ lease.owner = OwnerOf[p]
Blocks(j) ==
    jobs[j].status = "running" /\ jobs'[j].status = "blocked" /\ SameCount(j)
Retried(j) ==
    /\ jobs[j].status = "running" /\ jobs'[j].status = "retry" /\ SameCount(j)
    /\ \E p \in Procs : pc[p] = "recover" /\ lease.owner = OwnerOf[p] /\ j \in dead[p]
Finished(j) ==
    /\ jobs[j].status = "running" /\ jobs'[j].status \in OutcomeStatus /\ SameCount(j)
    /\ jobs[j].attempt_count \in AttemptNos
    /\ lane[j][jobs[j].attempt_count].state \in {"passed", "erred"}
    /\ jobs'[j].status = "completed" => lane[j][jobs[j].attempt_count].state = "passed"

StatusStep(j) ==
    \/ SameStatus(j) \/ EntersQueue(j) \/ Replanned(j) \/ Taken(j)
    \/ Blocks(j) \/ Retried(j) \/ Finished(j)

\* Seen from one job, every step is one of the seven.
LEMMA StatusSteps ==
    ASSUME ControllerTypes, SingleFlight, [CNext]_cvars, NEW j \in Jobs
    PROVE  StatusStep(j)
    <1>0. /\ TypeOK /\ jobs \in [Jobs -> JobRow] /\ jobs[j] \in JobRow
          /\ OwnerOf \in [Procs -> Owners] /\ Target \in [Procs -> Jobs]
          /\ \A p \in Procs : cand[p] \in SUBSET Jobs
        BY ControllerAssumption DEF ControllerTypes, CTypeOK, TypeOK
    <1>1. ASSUME UNCHANGED jobs PROVE StatusStep(j)
        BY <1>1 DEF StatusStep, SameStatus, SameCount
    <1>2. ASSUME NEW p \in Procs, NEW d \in Delays, ProcessStep(p, d) PROVE StatusStep(j)
        <2>1. CASE Enqueue(p, d)
            <3>1. CASE RequeueJob(Target[p], OwnerOf[p], fence[p], d)
                         /\ jobs[Target[p]].status \in {"failed", "blocked"}
                <4>1. jobs' = [jobs EXCEPT ![Target[p]] = RequeuedJob(jobs[Target[p]])]
                    BY <3>1 DEF RequeueJob
                <4>2. CASE j = Target[p]
                    <5>1. jobs'[j] = RequeuedJob(jobs[j])
                        BY <1>0, <4>1, <4>2
                    <5>2. jobs'[j].status = "queued" /\ SameCount(j)
                        BY <1>0, <5>1 DEF RequeuedJob, JobRow, SameCount
                    <5>3. QED
                        BY <3>1, <4>2, <5>2 DEF StatusStep, Replanned
                <4>3. CASE j # Target[p]
                    BY <1>0, <4>1, <4>3 DEF StatusStep, SameStatus, SameCount
                <4>4. QED
                    BY <4>2, <4>3
            <3>2. CASE CreateJob(Target[p])
                <4>1. CASE j = Target[p]
                    BY <1>0, <3>2, <4>1
                    DEF CreateJob, QueuedJob, NoJob, StatusStep, EntersQueue
                <4>2. CASE j # Target[p]
                    BY <1>0, <3>2, <4>2 DEF CreateJob, StatusStep, SameStatus, SameCount
                <4>3. QED
                    BY <4>1, <4>2
            <3>3. CASE UNCHANGED vars
                BY <1>1, <3>3 DEF vars
            <3>4. QED
                BY <2>1, <3>1, <3>2, <3>3 DEF Enqueue
        <2>2. CASE Recover(p, d)
            <3>1. CASE UNCHANGED vars
                BY <1>1, <3>1 DEF vars
            <3>2. CASE RecoverExpiredJobs(OwnerOf[p], fence[p], d, "retry", dead[p])
                <4>1. pc[p] = "recover" /\ lease.owner = OwnerOf[p]
                    BY <2>2 DEF Recover, Holds, HoldsLease
                <4>2. CASE j \notin ExpiredRunning(d)
                    BY <3>2, <4>2 DEF RecoverExpiredJobs, StatusStep, SameStatus, SameCount
                <4>3. CASE j \in ExpiredRunning(d) /\ j \in dead[p]
                    <5>1. jobs'[j] = Unclaimed(jobs[j], "retry", Null) /\ jobs[j].status = "running"
                        BY <3>2, <4>3 DEF RecoverExpiredJobs, ExpiredRunning
                    <5>2. jobs'[j].status = "retry" /\ SameCount(j)
                        BY <1>0, <5>1 DEF Unclaimed, JobRow, SameCount
                    <5>3. QED
                        BY <4>1, <4>3, <5>1, <5>2 DEF StatusStep, Retried
                <4>4. CASE j \in ExpiredRunning(d) /\ j \notin dead[p]
                    <5>1. jobs'[j] = Unclaimed(jobs[j], "blocked", Null) /\ jobs[j].status = "running"
                        BY <3>2, <4>4 DEF RecoverExpiredJobs, ExpiredRunning
                    <5>2. jobs'[j].status = "blocked" /\ SameCount(j)
                        BY <1>0, <5>1 DEF Unclaimed, JobRow, SameCount
                    <5>3. QED
                        BY <5>1, <5>2 DEF StatusStep, Blocks
                <4>5. QED
                    BY <4>2, <4>3, <4>4
            <3>3. QED
                BY <2>2, <3>1, <3>2 DEF Recover
        <2>3. CASE ReserveLane(p, d)
            <3> DEFINE i == First(cand[p])
            <3>1. /\ pc[p] = "reserve" /\ lease.owner = OwnerOf[p] /\ cand[p] # {}
                  /\ ReserveAndClaimJob(i, OwnerOf[p], fence[p], d)
                BY <2>3 DEF ReserveLane, Holds, HoldsLease
            <3>2. i \in Jobs
                BY <1>0, <3>1, FirstIsOne
            <3> HIDE DEF i
            <3>3. ClaimRows({i}, OwnerOf[p], fence[p], d) /\ Runnable(i, d)
                BY <3>1 DEF ReserveAndClaimJob
            <3>4. (j \in {i} => TakesJob(j)) /\ (j \notin {i} => jobs'[j] = jobs[j])
                <4>1. {i} \in SUBSET Jobs /\ \A k \in {i} : Runnable(k, d)
                    BY <3>2, <3>3
                <4>2. QED
                    BY <1>0, <3>3, <4>1, ClaimGives
            <3>5. QED
                BY <3>1, <3>4 DEF StatusStep, Taken, SameStatus, SameCount
        <2>4. CASE ClaimRest(p, d)
            <3> DEFINE S == Selected(FreeLanes(p), OwnerOf[p], fence[p], d, TRUE)
            <3>1. /\ pc[p] = "reserve" /\ lease.owner = OwnerOf[p]
                  /\ ClaimRows(S, OwnerOf[p], fence[p], d)
                BY <2>4 DEF ClaimRest, PassEnded, ClaimJobs, HoldsLease
            <3>2. S \in SUBSET Jobs /\ \A k \in S : Runnable(k, d)
                BY DEF Selected, Window
            <3> HIDE DEF S
            <3>3. (j \in S => TakesJob(j)) /\ (j \notin S => jobs'[j] = jobs[j])
                BY <1>0, <3>1, <3>2, ClaimGives
            <3>4. QED
                BY <3>1, <3>3 DEF StatusStep, Taken, SameStatus, SameCount
        <2>5. CASE ~(Enqueue(p, d) \/ Recover(p, d) \/ ReserveLane(p, d) \/ ClaimRest(p, d))
            <3>1. UNCHANGED jobs
                BY <1>2, <2>5
                DEF ProcessStep, Start, Acquire, Close, Release, Unwind, CollectEvidence, BeginPass,
                    PassOver, NoneLeft, BatchDone, vars
            <3>2. QED
                BY <1>1, <3>1
        <2>6. QED
            BY <2>1, <2>2, <2>3, <2>4, <2>5
    <1>3. ASSUME NEW p \in Procs, NEW d \in Delays, NEW i \in Jobs, NEW n \in AttemptNos,
                 LaneStep(p, i, n, d)
          PROVE  StatusStep(j)
        <2>1. CASE Finish(p, i, n, d)
            <3>1. PICK outcome \in Outcomes(i, n, lane[i][n].state = "passed") :
                     \E r \in Backoffs(outcome, d) :
                        CompleteJob(i, n, OwnerOf[p], fence[p], d, outcome, r)
                BY <2>1 DEF Finish
            <3>2. PICK r : CompleteJob(i, n, OwnerOf[p], fence[p], d, outcome, r)
                BY <3>1
            <3>3. CASE i = j
                <4>1. /\ jobs[j].status = "running" /\ n = jobs[j].attempt_count
                      /\ jobs'[j] = Unclaimed(jobs[j], outcome, r)
                    BY <1>0, <3>2, <3>3 DEF CompleteJob, Claimed, SingleFlight, OneFlight
                <4>2. jobs'[j].status = outcome /\ SameCount(j)
                    BY <1>0, <4>1 DEF Unclaimed, JobRow, SameCount
                <4>3. lane[j][n].state \in {"passed", "erred"}
                    BY <2>1, <3>3 DEF Finish, At
                <4>4. /\ outcome \in OutcomeStatus
                      /\ outcome = "completed" => lane[j][n].state = "passed"
                    BY <3>1, <3>3 DEF Outcomes, OutcomeStatus
                <4>5. QED
                    BY <4>1, <4>2, <4>3, <4>4 DEF StatusStep, Finished
            <3>4. CASE i # j
                BY <1>0, <3>2, <3>4 DEF CompleteJob, StatusStep, SameStatus, SameCount
            <3>5. QED
                BY <3>3, <3>4
        <2>2. CASE ~Finish(p, i, n, d)
            <3>1. UNCHANGED jobs
                BY <1>3, <2>2
                DEF LaneStep, Spawn, LaunchFails, WritePid, Reap, FinishFenced, vars
            <3>2. QED
                BY <1>1, <3>1
        <2>3. QED
            BY <2>1, <2>2
    <1>4. ASSUME NEW p \in Procs, NEW d \in Delays, BeatLease(p, d) PROVE StatusStep(j)
        BY <1>1, <1>4 DEF BeatLease, HeartbeatLease
    <1>5. ASSUME NEW p \in Procs, NEW d \in Delays, NEW i \in Jobs, NEW n \in AttemptNos,
                 BeatJob(p, i, n, d)
          PROVE  StatusStep(j)
        <2>1. jobs' = [jobs EXCEPT ![i] = Renewed(jobs[i], d)]
            BY <1>5 DEF BeatJob, HeartbeatJob
        <2>2. QED
            BY <1>0, <2>1 DEF Renewed, JobRow, StatusStep, SameStatus, SameCount
    <1>6. ASSUME NEW p \in Procs, Refuse(p) \/ Crash(p) PROVE StatusStep(j)
        BY <1>1, <1>6 DEF Refuse, Crash, vars
    <1>7. ASSUME NEW i \in Jobs, NEW n \in AttemptNos, ChildExit(i, n) PROVE StatusStep(j)
        BY <1>1, <1>7 DEF ChildExit, vars
    <1>8. CASE CTick
        BY <1>0, <1>8 DEF CTick, Tick, Aged, JobRow, StatusStep, SameStatus, SameCount
    <1>9. CASE UNCHANGED cvars
        BY <1>1, <1>9 DEF cvars
    <1>10. QED
        BY <1>2, <1>3, <1>4, <1>5, <1>6, <1>7, <1>8, <1>9 DEF CNext


LaneState(j, n) == lane[j][n].state
SameChild(j, n) == child'[j][n] = child[j][n]

KeepsCell(j, n) == LaneState(j, n)' = LaneState(j, n) /\ SameChild(j, n)
ClearsCell(j, n) == LaneState(j, n)' = "none" /\ SameChild(j, n)
ClaimsCell(j, n) ==
    LaneState(j, n)' = "claimed" /\ SameChild(j, n) /\ TakesJob(j) /\ n = NextAttemptNo(j)
SpawnsCell(j, n) ==
    LaneState(j, n) = "claimed" /\ LaneState(j, n)' = "spawned" /\ child'[j][n] = "alive"
FailsCell(j, n) ==
    LaneState(j, n) = "claimed" /\ LaneState(j, n)' = "erred" /\ SameChild(j, n)
RecordsCell(j, n) ==
    LaneState(j, n) = "spawned" /\ LaneState(j, n)' = "recorded" /\ SameChild(j, n)
ExitsCell(j, n) ==
    /\ LaneState(j, n)' = LaneState(j, n)
    /\ child[j][n] = "alive" /\ child'[j][n] = "exited"
ReapsCell(j, n) ==
    /\ LaneState(j, n) \in {"spawned", "recorded"}
    /\ LaneState(j, n)' \in {"passed", "erred"} /\ child'[j][n] = "exited"

CellStep(j, n) ==
    \/ KeepsCell(j, n) \/ ClearsCell(j, n) \/ ClaimsCell(j, n) \/ SpawnsCell(j, n)
    \/ FailsCell(j, n) \/ RecordsCell(j, n) \/ ExitsCell(j, n) \/ ReapsCell(j, n)

\* Seen from one attempt, every step is one of the eight.
LEMMA CellSteps ==
    ASSUME ControllerTypes, [CNext]_cvars, NEW j \in Jobs, NEW n \in AttemptNos
    PROVE  CellStep(j, n)
    <1>0. /\ TypeOK /\ lane \in [Jobs -> [AttemptNos -> LaneRow]] /\ lane[j][n] \in LaneRow
          /\ child \in [Jobs -> [AttemptNos -> {"none", "alive", "exited"}]]
          /\ \A p \in Procs : cand[p] \in SUBSET Jobs
        BY DEF ControllerTypes, CTypeOK, LaneRow
    <1>1. ASSUME UNCHANGED <<lane, child>> PROVE CellStep(j, n)
        BY <1>1 DEF CellStep, KeepsCell, LaneState, SameChild
    <1>2. ASSUME NEW p \in Procs, Strand(p), UNCHANGED child PROVE CellStep(j, n)
        BY <1>2 DEF Strand, NoLane, CellStep, KeepsCell, ClearsCell, LaneState, SameChild
    <1>3. ASSUME NEW p \in Procs, NEW d \in Delays, ProcessStep(p, d) PROVE CellStep(j, n)
        <2>1. CASE ReserveLane(p, d)
            <3> DEFINE i == First(cand[p])
            <3>1. /\ cand[p] # {} /\ UNCHANGED child
                  /\ ReserveAndClaimJob(i, OwnerOf[p], fence[p], d)
                  /\ lane' = [lane EXCEPT ![i][NextAttemptNo(i)] = [state |-> "claimed", proc |-> p]]
                BY <2>1 DEF ReserveLane
            <3>2. i \in Jobs
                BY <1>0, <3>1, FirstIsOne
            <3> HIDE DEF i
            <3>3. TakesJob(i)
                <4>1. {i} \in SUBSET Jobs /\ \A k \in {i} : Runnable(k, d)
                    BY <3>1, <3>2 DEF ReserveAndClaimJob
                <4>2. ClaimRows({i}, OwnerOf[p], fence[p], d)
                    BY <3>1 DEF ReserveAndClaimJob
                <4>3. QED
                    BY <1>0, <3>2, <4>1, <4>2, ClaimGives
            <3>4. CASE i = j /\ n = NextAttemptNo(j)
                <4>1. lane'[j][n] = [state |-> "claimed", proc |-> p]
                    BY <1>0, <3>1, <3>4
                <4>2. QED
                    BY <3>1, <3>3, <3>4, <4>1 DEF CellStep, ClaimsCell, LaneState, SameChild
            <3>5. CASE ~(i = j /\ n = NextAttemptNo(j))
                <4>1. lane'[j][n] = lane[j][n]
                    BY <1>0, <3>1, <3>2, <3>5
                <4>2. QED
                    BY <3>1, <4>1 DEF CellStep, KeepsCell, LaneState, SameChild
            <3>6. QED
                BY <3>4, <3>5
        <2>2. CASE ClaimRest(p, d)
            <3> DEFINE S == Selected(FreeLanes(p), OwnerOf[p], fence[p], d, TRUE)
            <3>1. /\ ClaimRows(S, OwnerOf[p], fence[p], d) /\ UNCHANGED child
                  /\ lane' = [i \in Jobs |-> [k \in AttemptNos |->
                                IF i \in S /\ k = NextAttemptNo(i)
                                THEN [state |-> "claimed", proc |-> p] ELSE lane[i][k]]]
                BY <2>2 DEF ClaimRest, ClaimJobs
            <3>2. S \in SUBSET Jobs /\ \A k \in S : Runnable(k, d)
                BY DEF Selected, Window
            <3> HIDE DEF S
            <3>3. j \in S => TakesJob(j)
                BY <1>0, <3>1, <3>2, ClaimGives
            <3>4. QED
                BY <3>1, <3>3 DEF CellStep, KeepsCell, ClaimsCell, LaneState, SameChild
        <2>3. CASE Unwind(p, d)
            BY <1>2, <2>3 DEF Unwind
        <2>4. CASE ~(ReserveLane(p, d) \/ ClaimRest(p, d) \/ Unwind(p, d))
            <3>1. UNCHANGED <<lane, child>>
                BY <1>3, <2>4
                DEF ProcessStep, Start, Close, Enqueue, CollectEvidence, Recover, BeginPass,
                    PassOver, NoneLeft, BatchDone
            <3>2. QED
                BY <1>1, <3>1
        <2>5. QED
            BY <2>1, <2>2, <2>3, <2>4
    <1>4. ASSUME NEW p \in Procs, NEW d \in Delays, NEW i \in Jobs, NEW k \in AttemptNos,
                 LaneStep(p, i, k, d)
          PROVE  CellStep(j, n)
        <2>1. \A st \in LaneStates : LaneGoto(i, k, st) =>
                 lane'[j][n].state = IF i = j /\ k = n THEN st ELSE lane[j][n].state
            BY <1>0 DEF LaneGoto, LaneRow
        <2>2. LaneEnds(i, k) =>
                 lane'[j][n].state = IF i = j /\ k = n THEN "none" ELSE lane[j][n].state
            BY <1>0 DEF LaneEnds, NoLane
        <2>3. \A c : child' = [child EXCEPT ![i][k] = c] =>
                 child'[j][n] = IF i = j /\ k = n THEN c ELSE child[j][n]
            BY <1>0
        <2>4. "spawned" \in LaneStates /\ "erred" \in LaneStates /\ "recorded" \in LaneStates
                 /\ "passed" \in LaneStates
            BY DEF LaneStates
        <2> USE DEF CellStep, LaneState, SameChild
        <2>5. CASE Spawn(p, i, k)
            BY <2>1, <2>3, <2>4, <2>5 DEF Spawn, At, SpawnsCell, KeepsCell
        <2>6. CASE LaunchFails(p, i, k)
            BY <2>1, <2>4, <2>6 DEF LaunchFails, At, FailsCell, KeepsCell
        <2>7. CASE WritePid(p, i, k)
            BY <2>1, <2>4, <2>7 DEF WritePid, At, RecordsCell, KeepsCell
        <2>8. CASE Reap(p, i, k)
            BY <2>1, <2>3, <2>4, <2>8 DEF Reap, At, ReapsCell, KeepsCell
        <2>9. CASE Finish(p, i, k, d) \/ FinishFenced(p, i, k, d)
            BY <2>2, <2>9 DEF Finish, FinishFenced, ClearsCell, KeepsCell
        <2>10. QED
            BY <1>4, <2>5, <2>6, <2>7, <2>8, <2>9 DEF LaneStep
    <1>5. ASSUME NEW p \in Procs, NEW d \in Delays,
                 \/ BeatLease(p, d)
                 \/ \E i \in Jobs, k \in AttemptNos : BeatJob(p, i, k, d)
          PROVE  CellStep(j, n)
        BY <1>1, <1>5 DEF BeatLease, BeatJob, execVars
    <1>6. ASSUME NEW p \in Procs, Refuse(p) \/ Crash(p) PROVE CellStep(j, n)
        BY <1>1, <1>2, <1>6 DEF Refuse, Crash
    <1>7. ASSUME NEW i \in Jobs, NEW k \in AttemptNos, ChildExit(i, k) PROVE CellStep(j, n)
        BY <1>0, <1>7
        DEF ChildExit, CellStep, KeepsCell, ExitsCell, LaneState, SameChild
    <1>8. CASE CTick
        BY <1>1, <1>8 DEF CTick, execVars
    <1>9. CASE UNCHANGED cvars
        BY <1>1, <1>9 DEF cvars
    <1>10. QED
        BY <1>3, <1>4, <1>5, <1>6, <1>7, <1>8, <1>9 DEF CNext

-----------------------------------------------------------------------------
(* Lanes, children and breadcrumbs *)

\* Every attempt names a breadcrumb file of its own.
DistinctPidPaths ==
    \A i, j \in Jobs : \A m, n \in AttemptNos :
        PidPath[i][m] = PidPath[j][n] => i = j /\ m = n

\* An attempt that was not made has no lane and no child; a lane is as far as
\* its child is; a breadcrumb names its own attempt, whose child was started.
CellOK(j, n) ==
    /\ attempts[j][n].status = "none" => LaneState(j, n) = "none" /\ child[j][n] = "none"
    /\ LaneState(j, n) = "claimed" => child[j][n] = "none"
    /\ LaneState(j, n) \in {"spawned", "recorded"} => child[j][n] # "none"
    /\ LaneState(j, n) = "passed" => child[j][n] = "exited"
    /\ LaneState(j, n) = "erred" => child[j][n] # "alive"
PidOK(j, n) ==
    \/ pidfile[PidPath[j][n]] = NoPid
    \/ pidfile[PidPath[j][n]] = <<j, n>> /\ child[j][n] # "none"
LanesOK == \A j \in Jobs : \A n \in AttemptNos : CellOK(j, n) /\ PidOK(j, n)

LEMMA LanesInit == CInit => LanesOK
    BY ControllerAssumption DEF CInit, LanesOK, CellOK, PidOK, LaneState, NoLane

LEMMA LanesStep ==
    ASSUME DistinctPidPaths, ControllerTypes, SingleFlight, NumbersAreUsedInOrder,
           LanesOK, [CNext]_cvars
    PROVE  LanesOK'
    <1> SUFFICES ASSUME NEW j \in Jobs, NEW n \in AttemptNos
                 PROVE  CellOK(j, n)' /\ PidOK(j, n)'
        BY DEF LanesOK
    <1>1. CellStep(j, n) /\ CellOK(j, n) /\ PidOK(j, n) /\ KeepsOutcome(j, n)
        BY CellSteps, ControllerStepRefines, OutcomeStep
        DEF LanesOK, ControllerTypes, CTypeOK
    <1>2. child[j][n] \in {"none", "alive", "exited"}
        BY DEF ControllerTypes, CTypeOK
    <1>3. CellOK(j, n)'
        <2>1. attempts'[j][n].status = "none" => attempts[j][n].status = "none"
            BY <1>1 DEF KeepsOutcome
        <2> USE DEF CellOK, SameChild
        <2>2. CASE KeepsCell(j, n) \/ ClearsCell(j, n)
            BY <1>1, <2>1, <2>2 DEF KeepsCell, ClearsCell
        <2>3. CASE ClaimsCell(j, n)
            BY <1>1, <2>3 DEF ClaimsCell, TakesJob
        <2>4. CASE SpawnsCell(j, n) \/ FailsCell(j, n)
            BY <1>1, <2>1, <2>4 DEF SpawnsCell, FailsCell
        <2>5. CASE RecordsCell(j, n) \/ ExitsCell(j, n) \/ ReapsCell(j, n)
            BY <1>1, <2>1, <2>5 DEF RecordsCell, ExitsCell, ReapsCell
        <2>6. QED
            BY <1>1, <2>2, <2>3, <2>4, <2>5 DEF CellStep
    <1>4. child[j][n] # "none" => child'[j][n] # "none"
        BY <1>1 DEF CellStep, KeepsCell, ClearsCell, ClaimsCell, SpawnsCell, FailsCell,
                    RecordsCell, ExitsCell, ReapsCell, SameChild
    <1>5. ASSUME pidfile'[PidPath[j][n]] = pidfile[PidPath[j][n]] PROVE PidOK(j, n)'
        BY <1>1, <1>4, <1>5 DEF PidOK
    <1>6. /\ pidfile \in [PidFiles -> {NoPid} \cup (Jobs \X AttemptNos)]
          /\ PidPath[j][n] \in PidFiles
        BY ControllerAssumption DEF ControllerTypes, CTypeOK
    <1>7. ASSUME NEW p \in Procs, NEW d \in Delays, NEW i \in Jobs, NEW k \in AttemptNos,
                 LaneStep(p, i, k, d)
          PROVE  PidOK(j, n)'
        <2>1. CASE WritePid(p, i, k)
            <3>1. CASE i = j /\ k = n
                <4>1. pidfile'[PidPath[j][n]] = <<j, n>>
                    BY <1>6, <2>1, <3>1 DEF WritePid
                <4>2. child[j][n] # "none"
                    BY <1>1, <2>1, <3>1 DEF WritePid, At, CellOK, LaneState
                <4>3. QED
                    BY <1>4, <4>1, <4>2 DEF PidOK
            <3>2. CASE ~(i = j /\ k = n)
                <4>1. PidPath[i][k] # PidPath[j][n]
                    BY <3>2 DEF DistinctPidPaths
                <4>2. QED
                    BY <1>5, <1>6, <2>1, <4>1 DEF WritePid
            <3>3. QED
                BY <3>1, <3>2
        <2>2. CASE Reap(p, i, k)
            <3>1. pidfile' = [pidfile EXCEPT ![PidPath[i][k]] = NoPid]
                BY <2>2 DEF Reap
            <3>2. CASE PidPath[i][k] = PidPath[j][n]
                BY <1>6, <3>1, <3>2 DEF PidOK
            <3>3. CASE PidPath[i][k] # PidPath[j][n]
                BY <1>5, <1>6, <3>1, <3>3
            <3>4. QED
                BY <3>2, <3>3
        <2>3. CASE ~WritePid(p, i, k) /\ ~Reap(p, i, k)
            BY <1>5, <1>7, <2>3
            DEF LaneStep, Spawn, LaunchFails, Finish, FinishFenced
        <2>4. QED
            BY <2>1, <2>2, <2>3
    <1>8. ASSUME UNCHANGED pidfile PROVE PidOK(j, n)'
        BY <1>5, <1>8
    <1>9. ASSUME NEW p \in Procs, NEW d \in Delays, ProcessStep(p, d) PROVE UNCHANGED pidfile
        BY <1>9
        DEF ProcessStep, Start, Close, Unwind, Enqueue, CollectEvidence, Recover, BeginPass,
            ReserveLane, PassOver, ClaimRest, NoneLeft, BatchDone
    <1>10. ASSUME NEW p \in Procs, NEW d \in Delays,
                  \/ BeatLease(p, d) \/ Refuse(p) \/ Crash(p)
                  \/ \E i \in Jobs, k \in AttemptNos : BeatJob(p, i, k, d)
           PROVE  UNCHANGED pidfile
        BY <1>10 DEF BeatLease, BeatJob, Refuse, Crash, execVars
    <1>11. ASSUME NEW i \in Jobs, NEW k \in AttemptNos, ChildExit(i, k) PROVE UNCHANGED pidfile
        BY <1>11 DEF ChildExit
    <1>12. ASSUME CTick \/ UNCHANGED cvars PROVE UNCHANGED pidfile
        BY <1>12 DEF CTick, execVars, cvars
    <1>13. 0 \in Delays
        BY StoreAssumption DEF Delays
    <1>14. QED
        BY <1>3, <1>7, <1>8, <1>9, <1>10, <1>11, <1>12, <1>13 DEF CNext


-----------------------------------------------------------------------------
(* One live child *)

\* No two processes use one owner id (the default is a fresh uuid).
DistinctOwners == \A p, q \in Procs : OwnerOf[p] = OwnerOf[q] => p = q

\* A child that is alive, or that a claimed lane may still start.
Hot(j, n) == LaneState(j, n) = "claimed" \/ child[j][n] = "alive"
Calm(j) == \A n \in AttemptNos : ~Hot(j, n)

\* An operator requeues a blocked job only once nothing of it runs: blocked
\* means that recovery found no evidence that the old process is gone.
ReplanIsSafe ==
    \A j \in Jobs : jobs[j].status = "blocked" /\ jobs'[j].status = "queued" => Calm(j)

\* Only the current attempt of a job that runs, or was blocked, can be hot.
CurrentOnly(j) ==
    \A n \in AttemptNos : Hot(j, n) =>
        n = jobs[j].attempt_count /\ jobs[j].status \in {"running", "blocked"}

\* What a process took for dead is dead, as long as the lease is its own.
EvidenceHolds(p) ==
    pc[p] = "recover" /\ lease.owner = OwnerOf[p] =>
        \A j \in dead[p] : /\ jobs[j].attempt_count \in AttemptNos
                           /\ child[j][jobs[j].attempt_count] = "exited"
LiveInv == (\A j \in Jobs : CurrentOnly(j)) /\ (\A p \in Procs : EvidenceHolds(p))

LEMMA LiveInit == CInit => LiveInv
    BY DEF CInit, LiveInv, CurrentOnly, EvidenceHolds, Hot, LaneState, NoLane

\* An attempt becomes hot by a claim only.
LEMMA CurrentStep ==
    ASSUME ControllerTypes, SingleFlight, LanesOK, LiveInv, [CNext]_cvars, ReplanIsSafe,
           NEW j \in Jobs
    PROVE  CurrentOnly(j)'
    <1> SUFFICES ASSUME NEW n \in AttemptNos, Hot(j, n)'
                 PROVE  /\ n = jobs'[j].attempt_count
                        /\ jobs'[j].status \in {"running", "blocked"}
        BY DEF CurrentOnly
    <1>1. CellStep(j, n) /\ StatusStep(j) /\ CurrentOnly(j) /\ CellOK(j, n)
        BY CellSteps, StatusSteps DEF LiveInv, LanesOK
    <1>2. CASE ClaimsCell(j, n)
        BY <1>2 DEF ClaimsCell, TakesJob
    <1>3. CASE ~ClaimsCell(j, n)
        <2>1. Hot(j, n)
            BY <1>1, <1>3
            DEF CellStep, KeepsCell, ClearsCell, SpawnsCell, FailsCell, RecordsCell,
                ExitsCell, ReapsCell, SameChild, Hot
        <2>2. n = jobs[j].attempt_count /\ jobs[j].status \in {"running", "blocked"}
            BY <1>1, <2>1 DEF CurrentOnly
        <2>3. ~Replanned(j)
            BY <2>1, <2>2 DEF Replanned, ReplanIsSafe, Calm
        <2>4. ~Retried(j)
            <3>1. SUFFICES ASSUME Retried(j) PROVE FALSE
                OBVIOUS
            <3>2. child[j][n] = "exited"
                BY <2>2, <3>1 DEF Retried, LiveInv, EvidenceHolds
            <3>3. QED
                BY <1>1, <2>1, <3>2 DEF CellOK, Hot
        <2>5. ~Finished(j)
            BY <1>1, <2>1, <2>2 DEF Finished, CellOK, Hot, LaneState
        <2>6. QED
            BY <1>1, <2>2, <2>3, <2>4, <2>5
            DEF StatusStep, SameStatus, SameCount, EntersQueue, Taken, TakesJob, Blocks
    <1>4. QED
        BY <1>2, <1>3

\* A process is in recovery with evidence because it has just collected it, or
\* because it was there before, under the same lease.
LEMMA EvidenceSource ==
    ASSUME DistinctOwners, ControllerTypes, [CNext]_cvars, NEW p \in Procs,
           pc'[p] = "recover", lease'.owner = OwnerOf[p]
    PROVE  \/ CollectEvidence(p)
           \/ pc[p] = "recover" /\ lease.owner = OwnerOf[p] /\ dead'[p] = dead[p]
    <1>0. /\ pc \in [Procs -> Labels] /\ dead \in [Procs -> SUBSET Jobs]
          /\ lease \in LeaseRow /\ OwnerOf \in [Procs -> Owners]
        BY ControllerAssumption DEF ControllerTypes, CTypeOK, TypeOK, Labels
    <1>1. ASSUME UNCHANGED <<pc, dead>>, lease'.owner = lease.owner
          PROVE  pc[p] = "recover" /\ lease.owner = OwnerOf[p] /\ dead'[p] = dead[p]
        BY <1>1
    <1>2. ASSUME NEW q \in Procs, NEW d \in Delays, ProcessStep(q, d)
          PROVE  \/ CollectEvidence(p)
                 \/ pc[p] = "recover" /\ lease.owner = OwnerOf[p] /\ dead'[p] = dead[p]
        <2>0. \A label : Goto(q, label) =>
                 (q = p => pc'[p] = label) /\ (q # p => pc'[p] = pc[p])
            BY <1>0 DEF Goto
        <2>1. CASE Start(q, d)
            <3>1. lease'.owner = OwnerOf[q]
                BY <1>0, <2>1 DEF Start, Acquire, Renewed, LeaseRow
            <3>2. p = q
                BY <3>1 DEF DistinctOwners
            <3>3. QED
                BY <2>0, <2>1, <3>2 DEF Start
        <2>2. CASE Close(q)
            <3>1. lease'.owner = lease.owner
                BY <1>0, <2>2 DEF Close, Release, LeaseRow, vars
            <3>2. q # p /\ pc'[p] = pc[p] /\ dead'[p] = dead[p]
                BY <1>0, <2>2 DEF Close, Gone, Goto
            <3>3. QED
                BY <3>1, <3>2
        <2>3. CASE Unwind(q, d)
            BY <2>0, <2>3 DEF Unwind, vars
        <2>4. CASE Enqueue(q, d)
            BY <2>0, <2>4 DEF Enqueue, RequeueJob, CreateJob, vars
        <2>5. CASE CollectEvidence(q)
            <3>1. CASE q = p
                BY <2>5, <3>1
            <3>2. CASE q # p
                BY <1>0, <2>0, <2>5, <3>2 DEF CollectEvidence, vars
            <3>3. QED
                BY <3>1, <3>2
        <2>6. CASE Recover(q, d)
            <3>1. lease' = lease
                BY <2>6 DEF Recover, RecoverExpiredJobs, vars
            <3>2. q # p
                BY <2>0, <2>6 DEF Recover
            <3>3. QED
                BY <1>0, <2>0, <2>6, <3>1, <3>2 DEF Recover
        <2>7. CASE BeginPass(q)
            BY <2>0, <2>7 DEF BeginPass, vars
        <2>8. CASE ReserveLane(q, d)
            BY <2>8 DEF ReserveLane, ReserveAndClaimJob
        <2>9. CASE PassOver(q, d)
            BY <2>9 DEF PassOver, vars
        <2>10. CASE ClaimRest(q, d)
            BY <2>0, <2>10 DEF ClaimRest, ClaimJobs
        <2>11. CASE NoneLeft(q, d)
            BY <2>0, <2>11 DEF NoneLeft, vars
        <2>12. CASE BatchDone(q)
            BY <2>0, <2>12 DEF BatchDone, vars
        <2>13. QED
            BY <1>2, <2>1, <2>2, <2>3, <2>4, <2>5, <2>6, <2>7, <2>8, <2>9, <2>10, <2>11, <2>12
            DEF ProcessStep
    <1>3. ASSUME NEW q \in Procs, NEW d \in Delays, NEW i \in Jobs, NEW k \in AttemptNos,
                 LaneStep(q, i, k, d) \/ BeatJob(q, i, k, d)
          PROVE  pc[p] = "recover" /\ lease.owner = OwnerOf[p] /\ dead'[p] = dead[p]
        BY <1>3
        DEF LaneStep, Spawn, LaunchFails, WritePid, Reap, Finish, FinishFenced, CompleteJob,
            BeatJob, HeartbeatJob, procVars, vars
    <1>4. ASSUME NEW q \in Procs, NEW d \in Delays, BeatLease(q, d)
          PROVE  pc[p] = "recover" /\ lease.owner = OwnerOf[p] /\ dead'[p] = dead[p]
        <2>1. lease'.owner = lease.owner
            BY <1>0, <1>4 DEF BeatLease, HeartbeatLease, Renewed, LeaseRow
        <2>2. QED
            BY <1>4, <2>1 DEF BeatLease, procVars
    <1>5. ASSUME NEW q \in Procs, Refuse(q)
          PROVE  pc[p] = "recover" /\ lease.owner = OwnerOf[p] /\ dead'[p] = dead[p]
        BY <1>5 DEF Refuse, vars
    <1>6. ASSUME NEW q \in Procs, Crash(q)
          PROVE  pc[p] = "recover" /\ lease.owner = OwnerOf[p] /\ dead'[p] = dead[p]
        <2>1. q # p /\ pc'[p] = pc[p] /\ dead'[p] = dead[p]
            BY <1>0, <1>6 DEF Crash, Gone, Goto
        <2>2. QED
            BY <1>6, <2>1 DEF Crash, vars
    <1>7. ASSUME NEW i \in Jobs, NEW k \in AttemptNos, ChildExit(i, k)
          PROVE  pc[p] = "recover" /\ lease.owner = OwnerOf[p] /\ dead'[p] = dead[p]
        BY <1>7 DEF ChildExit, procVars, vars
    <1>8. CASE CTick
        <2>1. lease'.owner = lease.owner
            BY <1>0, <1>8 DEF CTick, Tick, Aged, LeaseRow
        <2>2. QED
            BY <1>8, <2>1 DEF CTick, procVars
    <1>9. CASE UNCHANGED cvars
        BY <1>9 DEF cvars
    <1>10. QED
        BY <1>2, <1>3, <1>4, <1>5, <1>6, <1>7, <1>8, <1>9 DEF CNext

\* Evidence stays true while the lease is its collector's: nobody else can
\* claim, so the attempt it is about stays the current one.
LEMMA EvidenceStep ==
    ASSUME DistinctOwners, ControllerTypes, SingleFlight, NumbersAreUsedInOrder, LanesOK,
           LiveInv, [CNext]_cvars, NEW p \in Procs
    PROVE  EvidenceHolds(p)'
    <1> SUFFICES ASSUME pc'[p] = "recover", lease'.owner = OwnerOf[p], NEW j \in dead'[p]
                 PROVE  /\ jobs'[j].attempt_count \in AttemptNos
                        /\ child'[j][jobs'[j].attempt_count] = "exited"
        BY DEF EvidenceHolds
    <1>1. CASE CollectEvidence(p)
        <2>1. j \in ExpiredRunning(0) /\ PidDead(j) /\ UNCHANGED <<jobs, child>>
            BY <1>1 DEF CollectEvidence, vars, ControllerTypes, CTypeOK
        <2>2. j \in Jobs /\ jobs[j].attempt_count \in AttemptNos
            BY <2>1 DEF ExpiredRunning, SingleFlight, OneFlight
        <2> DEFINE n == jobs[j].attempt_count
        <2>3. CellOK(j, n) /\ PidOK(j, n) /\ child[j][n] \in {"none", "alive", "exited"}
            BY <2>2 DEF LanesOK, ControllerTypes, CTypeOK
        <2>4. pidfile[PidPath[j][n]] # NoPid
            BY <2>1 DEF PidDead
        <2>5. pidfile[PidPath[j][n]] = <<j, n>> /\ child[j][n] # "none"
            BY <2>3, <2>4 DEF PidOK
        <2>6. child[j][n] # "alive"
            BY <2>1, <2>5 DEF PidDead
        <2>7. QED
            BY <2>1, <2>2, <2>3, <2>5, <2>6
    <1>2. CASE pc[p] = "recover" /\ lease.owner = OwnerOf[p] /\ dead'[p] = dead[p]
        <2> DEFINE n == jobs[j].attempt_count
        <2>1. n \in AttemptNos /\ child[j][n] = "exited" /\ j \in Jobs
            BY <1>2 DEF LiveInv, EvidenceHolds, ControllerTypes, CTypeOK
        <2>2. CellStep(j, n) /\ StatusStep(j) /\ CellOK(j, n) /\ UsedNumbers(j)
            BY <2>1, CellSteps, StatusSteps DEF LanesOK, NumbersAreUsedInOrder
        <2>3. ~EntersQueue(j)
            BY <2>1, <2>2 DEF EntersQueue, UsedNumbers, CellOK
        <2>4. ~Taken(j)
            BY <1>2 DEF Taken, DistinctOwners
        <2>5. jobs'[j].attempt_count = n
            BY <2>2, <2>3, <2>4
            DEF StatusStep, SameStatus, Replanned, Blocks, Retried, Finished, SameCount
        <2>6. child'[j][n] = "exited"
            <3> HIDE DEF n
            <3>1. QED
                BY <2>1, <2>2
                DEF CellStep, KeepsCell, ClearsCell, ClaimsCell, SpawnsCell, FailsCell,
                    RecordsCell, ExitsCell, ReapsCell, SameChild, CellOK
        <2>7. QED
            BY <2>1, <2>5, <2>6
    <1>3. QED
        BY <1>1, <1>2, EvidenceSource

\* The state of the world the recovery relies on.
RecoveryAssumption == DistinctOwners /\ DistinctPidPaths

LEMMA ChildrenInvariant ==
    ASSUME RecoveryAssumption
    PROVE  CSpec /\ [][ReplanIsSafe]_cvars =>
              [](ControllerTypes /\ SingleFlight /\ NumbersAreUsedInOrder /\ LanesOK /\ LiveInv)
    <1>0. DistinctOwners /\ DistinctPidPaths
        BY DEF RecoveryAssumption
    <1>1. ControllerTypes /\ SingleFlight /\ NumbersAreUsedInOrder /\ LanesOK /\ [CNext]_cvars
             => LanesOK'
        BY <1>0, LanesStep
    <1>2. ControllerTypes /\ SingleFlight /\ NumbersAreUsedInOrder /\ LanesOK /\ LiveInv
             /\ [CNext]_cvars /\ [ReplanIsSafe]_cvars => LiveInv'
        <2> SUFFICES ASSUME ControllerTypes, SingleFlight, NumbersAreUsedInOrder, LanesOK,
                            LiveInv, [CNext]_cvars, [ReplanIsSafe]_cvars
                     PROVE  LiveInv'
            OBVIOUS
        <2>1. CASE ReplanIsSafe
            BY <1>0, <2>1, CurrentStep, EvidenceStep DEF LiveInv
        <2>2. CASE UNCHANGED cvars
            BY <2>2 DEF cvars, LiveInv, CurrentOnly, EvidenceHolds, Hot, LaneState
        <2>3. QED
            BY <2>1, <2>2
    <1>3. QED
        BY <1>1, <1>2, LanesInit, LiveInit, ControllerTypeCorrect, ControllerLedger, PTL DEF CSpec

\* A job never has two live child processes, for any number of processes,
\* lanes and attempts, whatever crashes and however late heartbeats are: given
\* distinct owner ids, a breadcrumb per attempt, and operators who requeue a
\* blocked job only once nothing of it runs (recover_expired_jobs blocks a job
\* "rather than risking duplicate writes").
THEOREM OneLiveChild ==
    ASSUME RecoveryAssumption
    PROVE  CSpec /\ [][ReplanIsSafe]_cvars => []AtMostOneLiveChild
    <1>1. LiveInv => AtMostOneLiveChild
        <2> SUFFICES ASSUME LiveInv, NEW j \in Jobs
                     PROVE  Cardinality({n \in AttemptNos : child[j][n] = "alive"}) <= 1
            BY DEF AtMostOneLiveChild
        <2> DEFINE A == {n \in AttemptNos : child[j][n] = "alive"}
        <2>1. A \in SUBSET {jobs[j].attempt_count}
            BY DEF LiveInv, CurrentOnly, Hot
        <2> HIDE DEF A
        <2>2. /\ IsFiniteSet({jobs[j].attempt_count})
              /\ Cardinality({jobs[j].attempt_count}) = 1
            BY FS_Singleton
        <2>3. Cardinality(A) <= 1
            BY <2>1, <2>2, FS_Subset
        <2>4. QED
            BY <2>3 DEF A
    <1>2. QED
        BY <1>1, ChildrenInvariant, PTL

\* A job is completed only by its current attempt, after its own child has
\* ended and while no older child of it is alive to write to its artifacts.
THEOREM CompletionsAreFinal ==
    ASSUME RecoveryAssumption
    PROVE  CSpec /\ [][ReplanIsSafe]_cvars => CompletionIsFinal
    <1>1. ControllerTypes /\ SingleFlight /\ LanesOK /\ LiveInv /\ [CNext]_cvars =>
             [\A j \in Jobs :
                 jobs[j].status # "completed" /\ jobs'[j].status = "completed" =>
                    /\ child[j][jobs[j].attempt_count] = "exited"
                    /\ ~Alive(j)]_cvars
        <2> SUFFICES ASSUME ControllerTypes, SingleFlight, LanesOK, LiveInv, [CNext]_cvars,
                            NEW j \in Jobs,
                            jobs[j].status # "completed", jobs'[j].status = "completed"
                     PROVE  child[j][jobs[j].attempt_count] = "exited" /\ ~Alive(j)
            OBVIOUS
        <2>1. Finished(j)
            BY StatusSteps
            DEF StatusStep, SameStatus, EntersQueue, Replanned, Taken, TakesJob, Blocks, Retried
        <2>2. child[j][jobs[j].attempt_count] = "exited"
            BY <2>1 DEF Finished, LanesOK, CellOK, LaneState
        <2>3. ~Alive(j)
            BY <2>2 DEF Alive, LiveInv, CurrentOnly, Hot
        <2>4. QED
            BY <2>2, <2>3
    <1>2. QED
        BY <1>1, ChildrenInvariant, PTL DEF CSpec, CompletionIsFinal


-----------------------------------------------------------------------------
(* Slots *)

\* An active reservation belongs to the claim of its running job.
SlotNeeded(j) ==
    reservations[j].status = "active" =>
        /\ jobs[j].status = "running"
        /\ reservations[j].owner = jobs[j].claimed_by
        /\ reservations[j].fence = jobs[j].claim_fence

\* A live claim of a resource-bearing job has its reservation, with the same
\* deadline.
SlotHeld(j) ==
    j \in NeedsReservation /\ jobs[j].status = "running" /\ jobs[j].left > 0 =>
        /\ reservations[j].status = "active"
        /\ reservations[j].owner = jobs[j].claimed_by
        /\ reservations[j].fence = jobs[j].claim_fence
        /\ reservations[j].left = jobs[j].left

\* When readings of the clock do not wait for the write lock both are kept; in
\* general the first is.
SlotOK(j) == SlotNeeded(j) /\ (LockWait = 0 => SlotHeld(j))
SlotsOK == \A j \in Jobs : SlotOK(j)

LEMMA SlotsInit == CInit => SlotsOK
    BY DEF CInit, SlotsOK, SlotOK, SlotNeeded, SlotHeld, NoReservation, NoAttempt, QueuedJob, NoJob

LEMMA SlotFrame ==
    ASSUME NEW j \in Jobs, SlotOK(j), jobs'[j] = jobs[j], reservations'[j] = reservations[j]
    PROVE  SlotOK(j)'
    BY DEF SlotOK, SlotNeeded, SlotHeld

\* A row that is not running, and whose reservation is not active, is in order.
LEMMA SlotFree ==
    ASSUME NEW j \in Jobs, jobs'[j].status # "running", reservations'[j].status # "active"
    PROVE  SlotOK(j)'
    BY DEF SlotOK, SlotNeeded, SlotHeld

LEMMA ReleasedIsInactive ==
    ASSUME NEW r \in ReservationRow
    PROVE  ReleasedRow(r).status # "active"
    BY DEF ReleasedRow, InactiveRow, NoReservation, NoAttempt

\* The sweep of a reservation pass keeps what is live.
LEMMA SlotSwept ==
    ASSUME TypeOK, NEW j \in Jobs, SlotOK(j), NEW d \in Delays,
           jobs'[j] = jobs[j], reservations'[j] = Swept(d)[j]
    PROVE  SlotOK(j)'
    <1>1. reservations[j] \in ReservationRow /\ jobs[j] \in JobRow
        BY DEF TypeOK
    <1>2. CASE reservations'[j] = reservations[j]
        BY <1>2, SlotFrame
    <1>3. CASE reservations'[j] # reservations[j]
        <2>1. /\ reservations'[j] = InactiveRow("expired")
              /\ reservations[j].status = "active" /\ reservations[j].left + d <= 0
            BY <1>3 DEF Swept, Expired
        <2>2. reservations'[j].status # "active"
            BY <2>1 DEF InactiveRow, NoReservation, NoAttempt
        <2>3. ASSUME LockWait = 0 PROVE ~(jobs[j].left > 0 /\ j \in NeedsReservation /\ jobs[j].status = "running")
            <3>1. d = 0
                BY <2>3 DEF Delays
            <3>2. reservations[j].left <= 0
                BY <1>1, <2>1, <3>1, StoreAssumption DEF ReservationRow, Timer
            <3>3. QED
                BY <1>1, <2>3, <3>2, StoreAssumption DEF SlotOK, SlotHeld, JobRow, ReservationRow, Timer
        <2>4. QED
            BY <2>2, <2>3 DEF SlotOK, SlotNeeded, SlotHeld
    <1>4. QED
        BY <1>2, <1>3

LEMMA SlotsStep ==
    ASSUME ControllerTypes, SingleFlight, SlotsOK, [CNext]_cvars
    PROVE  SlotsOK'
    <1> SUFFICES ASSUME NEW j \in Jobs PROVE SlotOK(j)'
        BY DEF SlotsOK
    <1>0. /\ TypeOK /\ jobs \in [Jobs -> JobRow] /\ jobs[j] \in JobRow
          /\ reservations \in [Jobs -> ReservationRow] /\ reservations[j] \in ReservationRow
          /\ OwnerOf \in [Procs -> Owners] /\ Target \in [Procs -> Jobs]
          /\ \A p \in Procs : cand[p] \in SUBSET Jobs
          /\ SlotOK(j)
        BY ControllerAssumption DEF ControllerTypes, CTypeOK, TypeOK, SlotsOK
    <1>1. ASSUME UNCHANGED <<jobs, reservations>> PROVE SlotOK(j)'
        BY <1>0, <1>1, SlotFrame
    <1>2. ASSUME NEW p \in Procs, NEW d \in Delays, ProcessStep(p, d) PROVE SlotOK(j)'
        <2>1. CASE Enqueue(p, d)
            <3>1. CASE RequeueJob(Target[p], OwnerOf[p], fence[p], d)
                <4>1. CASE j = Target[p]
                    <5>1. /\ jobs'[j] = RequeuedJob(jobs[j])
                          /\ reservations'[j] = ReleasedRow(reservations[j])
                        BY <1>0, <3>1, <4>1 DEF RequeueJob
                    <5>2. jobs'[j].status # "running" /\ reservations'[j].status # "active"
                        BY <1>0, <5>1, ReleasedIsInactive DEF RequeuedJob, JobRow
                    <5>3. QED
                        BY <5>2, SlotFree
                <4>2. CASE j # Target[p]
                    BY <1>0, <3>1, <4>2, SlotFrame DEF RequeueJob
                <4>3. QED
                    BY <4>1, <4>2
            <3>2. CASE CreateJob(Target[p])
                <4>1. CASE j = Target[p]
                    <5>1. jobs[j].status = "none" /\ jobs'[j] = QueuedJob /\ reservations' = reservations
                        BY <1>0, <3>2, <4>1 DEF CreateJob
                    <5>2. jobs'[j].status # "running" /\ reservations'[j].status # "active"
                        BY <1>0, <5>1 DEF QueuedJob, NoJob, SlotOK, SlotNeeded
                    <5>3. QED
                        BY <5>2, SlotFree
                <4>2. CASE j # Target[p]
                    BY <1>0, <3>2, <4>2, SlotFrame DEF CreateJob
                <4>3. QED
                    BY <4>1, <4>2
            <3>3. CASE UNCHANGED vars
                BY <1>1, <3>3 DEF vars
            <3>4. QED
                BY <2>1, <3>1, <3>2, <3>3 DEF Enqueue
        <2>2. CASE Recover(p, d)
            <3>1. CASE UNCHANGED vars
                BY <1>1, <3>1 DEF vars
            <3>2. CASE RecoverExpiredJobs(OwnerOf[p], fence[p], d, "retry", dead[p])
                <4>1. CASE j \notin ExpiredRunning(d)
                    BY <1>0, <3>2, <4>1, SlotFrame DEF RecoverExpiredJobs
                <4>2. CASE j \in ExpiredRunning(d)
                    <5>1. PICK s \in {"retry", "blocked"} : jobs'[j] = Unclaimed(jobs[j], s, Null)
                        BY <3>2, <4>2 DEF RecoverExpiredJobs
                    <5>2. jobs'[j].status # "running"
                        BY <1>0, <5>1 DEF Unclaimed, JobRow
                    <5>3. reservations'[j].status # "active"
                        BY <1>0, <3>2, <4>2, ReleasedIsInactive DEF RecoverExpiredJobs
                    <5>4. QED
                        BY <5>2, <5>3, SlotFree
                <4>3. QED
                    BY <4>1, <4>2
            <3>3. QED
                BY <2>2, <3>1, <3>2 DEF Recover
        <2>3. CASE ReserveLane(p, d)
            <3> DEFINE i == First(cand[p])
                       o == OwnerOf[p]
                       f == fence[p]
            <3>1. cand[p] # {} /\ ReserveAndClaimJob(i, o, f, d)
                BY <2>3 DEF ReserveLane
            <3>2. i \in Jobs
                BY <1>0, <3>1, FirstIsOne
            <3> HIDE DEF i, o, f
            <3>3. /\ ClaimRows({i}, o, f, d) /\ Runnable(i, d)
                  /\ reservations' = Reserved(i, o, f, d)
                BY <3>1 DEF ReserveAndClaimJob
            <3>4. CASE j # i
                <4>1. jobs'[j] = jobs[j] /\ reservations'[j] = Swept(d)[j]
                    BY <3>2, <3>3, <3>4 DEF ClaimRows, Reserved, Swept
                <4>2. QED
                    BY <1>0, <4>1, SlotSwept
            <3>5. CASE j = i
                <4>1. reservations[j].status # "active"
                    BY <1>0, <3>3, <3>5 DEF Runnable, SlotOK, SlotNeeded
                <4>2. Swept(d) \in [Jobs -> ReservationRow] /\ Swept(d)[j].status # "active"
                    BY <1>0, <4>1, ReservationRows DEF Swept
                <4>3. reservations'[j] = [status |-> "active", owner |-> o, fence |-> f,
                                           left |-> LeaseExpiry(d)]
                    BY <3>3, <3>5, <4>2 DEF Reserved, OwnActive
                <4>4. jobs'[j] = ClaimedJob(jobs[j], o, f, d)
                    BY <3>3, <3>5 DEF ClaimRows
                <4>5. /\ jobs'[j].status = "running" /\ jobs'[j].claimed_by = o
                      /\ jobs'[j].claim_fence = f /\ jobs'[j].left = LeaseExpiry(d)
                    BY <1>0, <4>4 DEF ClaimedJob, JobRow
                <4>6. QED
                    BY <4>3, <4>5 DEF SlotOK, SlotNeeded, SlotHeld
            <3>6. QED
                BY <3>4, <3>5
        <2>4. CASE ClaimRest(p, d)
            <3> DEFINE S == Selected(FreeLanes(p), OwnerOf[p], fence[p], d, TRUE)
            <3>1. ClaimRows(S, OwnerOf[p], fence[p], d) /\ UNCHANGED reservations
                BY <2>4 DEF ClaimRest, ClaimJobs
            <3>2. \A k \in S : Runnable(k, d) /\ Claimable(k, OwnerOf[p], fence[p], d, TRUE)
                BY DEF Selected, Window
            <3> HIDE DEF S
            <3>3. CASE j \notin S
                BY <1>0, <3>1, <3>3, SlotFrame DEF ClaimRows
            <3>4. CASE j \in S
                <4>1. reservations[j].status # "active"
                    BY <1>0, <3>2, <3>4 DEF Runnable, SlotOK, SlotNeeded
                <4>2. j \notin NeedsReservation
                    BY <3>2, <3>4, <4>1 DEF Claimable, OwnActive
                <4>3. QED
                    BY <3>1, <4>1, <4>2 DEF SlotOK, SlotNeeded, SlotHeld
            <3>5. QED
                BY <3>3, <3>4
        <2>5. CASE ~(Enqueue(p, d) \/ Recover(p, d) \/ ReserveLane(p, d) \/ ClaimRest(p, d))
            <3>1. UNCHANGED <<jobs, reservations>>
                BY <1>2, <2>5
                DEF ProcessStep, Start, Acquire, Close, Release, Unwind, CollectEvidence, BeginPass,
                    PassOver, NoneLeft, BatchDone, vars
            <3>2. QED
                BY <1>1, <3>1
        <2>6. QED
            BY <2>1, <2>2, <2>3, <2>4, <2>5
    <1>3. ASSUME NEW p \in Procs, NEW d \in Delays, NEW i \in Jobs, NEW n \in AttemptNos,
                 LaneStep(p, i, n, d)
          PROVE  SlotOK(j)'
        <2>1. CASE Finish(p, i, n, d)
            <3> DEFINE o == OwnerOf[p]
                       f == fence[p]
            <3>1. PICK outcome \in OutcomeStatus : \E r : CompleteJob(i, n, o, f, d, outcome, r)
                BY <2>1 DEF Finish, Outcomes, OutcomeStatus
            <3>2. PICK r : CompleteJob(i, n, o, f, d, outcome, r)
                BY <3>1
            <3> HIDE DEF o, f
            <3>3. CASE i # j
                BY <1>0, <3>2, <3>3, SlotFrame DEF CompleteJob
            <3>4. CASE i = j
                <4>1. /\ jobs'[j] = Unclaimed(jobs[j], outcome, r)
                      /\ reservations'[j] = OwnReleasedRow(reservations[j], o, f)
                      /\ jobs[j].claimed_by = o /\ jobs[j].claim_fence = f
                    BY <1>0, <3>2, <3>4 DEF CompleteJob, Claimed
                <4>2. jobs'[j].status # "running"
                    BY <1>0, <4>1 DEF Unclaimed, JobRow, OutcomeStatus
                <4>3. reservations'[j].status # "active"
                    BY <1>0, <4>1, ReleasedIsInactive DEF OwnReleasedRow, SlotOK, SlotNeeded
                <4>4. QED
                    BY <4>2, <4>3, SlotFree
            <3>5. QED
                BY <3>3, <3>4
        <2>2. CASE ~Finish(p, i, n, d)
            <3>1. UNCHANGED <<jobs, reservations>>
                BY <1>3, <2>2
                DEF LaneStep, Spawn, LaunchFails, WritePid, Reap, FinishFenced, vars
            <3>2. QED
                BY <1>1, <3>1
        <2>3. QED
            BY <2>1, <2>2
    <1>4. ASSUME NEW p \in Procs, NEW d \in Delays, BeatLease(p, d) PROVE SlotOK(j)'
        BY <1>1, <1>4 DEF BeatLease, HeartbeatLease
    <1>5. ASSUME NEW p \in Procs, NEW d \in Delays, NEW i \in Jobs, NEW n \in AttemptNos,
                 BeatJob(p, i, n, d)
          PROVE  SlotOK(j)'
        <2> DEFINE o == OwnerOf[p]
                   f == fence[p]
        <2>1. HeartbeatJob(i, n, o, f, d)
            BY <1>5 DEF BeatJob
        <2> HIDE DEF o, f
        <2>2. CASE i # j
            BY <1>0, <2>1, <2>2, SlotFrame DEF HeartbeatJob
        <2>3. CASE i = j
            <3>1. /\ jobs'[j] = Renewed(jobs[j], d) /\ ~Expired(jobs[j].left, d)
                  /\ reservations'[j] = IF OwnActive(reservations, j, o, f)
                                        THEN Renewed(reservations[j], d) ELSE reservations[j]
                  /\ jobs[j].status = "running" /\ jobs[j].claimed_by = o /\ jobs[j].claim_fence = f
                BY <1>0, <2>1, <2>3 DEF HeartbeatJob, Claimed
            <3>2. /\ jobs'[j].status = "running" /\ jobs'[j].claimed_by = o
                  /\ jobs'[j].claim_fence = f /\ jobs'[j].left = LeaseExpiry(d)
                BY <1>0, <3>1 DEF Renewed, JobRow
            <3>3. CASE reservations[j].status = "active"
                <4>1. reservations'[j] = Renewed(reservations[j], d)
                         /\ reservations[j].owner = o /\ reservations[j].fence = f
                    BY <1>0, <3>1, <3>3 DEF OwnActive, SlotOK, SlotNeeded
                <4>2. /\ reservations'[j].status = "active" /\ reservations'[j].owner = o
                      /\ reservations'[j].fence = f /\ reservations'[j].left = LeaseExpiry(d)
                    BY <1>0, <3>3, <4>1 DEF Renewed, ReservationRow
                <4>3. QED
                    BY <3>2, <4>2 DEF SlotOK, SlotNeeded, SlotHeld
            <3>4. CASE reservations[j].status # "active"
                <4>1. reservations'[j].status # "active"
                    BY <3>1, <3>4 DEF OwnActive
                <4>2. ASSUME LockWait = 0 PROVE j \notin NeedsReservation
                    <5>1. d = 0
                        BY <4>2 DEF Delays
                    <5>2. jobs[j].left > 0
                        BY <1>0, <3>1, <5>1, StoreAssumption DEF Expired, JobRow, Timer
                    <5>3. QED
                        BY <1>0, <3>1, <3>4, <4>2, <5>2 DEF SlotOK, SlotHeld
                <4>3. QED
                    BY <4>1, <4>2 DEF SlotOK, SlotNeeded, SlotHeld
            <3>5. QED
                BY <3>3, <3>4
        <2>4. QED
            BY <2>2, <2>3
    <1>6. ASSUME NEW p \in Procs, Refuse(p) \/ Crash(p) PROVE SlotOK(j)'
        BY <1>1, <1>6 DEF Refuse, Crash, vars
    <1>7. ASSUME NEW i \in Jobs, NEW n \in AttemptNos, ChildExit(i, n) PROVE SlotOK(j)'
        BY <1>1, <1>7 DEF ChildExit, vars
    <1>8. CASE CTick
        <2>1. /\ jobs'[j] = [Aged(jobs[j]) EXCEPT !.retry_left = CountDown(jobs[j].retry_left)]
              /\ reservations'[j] = Aged(reservations[j])
            BY <1>8 DEF CTick, Tick
        <2>2. /\ jobs'[j].status = jobs[j].status /\ jobs'[j].claimed_by = jobs[j].claimed_by
              /\ jobs'[j].claim_fence = jobs[j].claim_fence
              /\ jobs'[j].left = CountDown(jobs[j].left)
            BY <1>0, <2>1 DEF Aged, JobRow
        <2>3. /\ reservations'[j].status = reservations[j].status
              /\ reservations'[j].owner = reservations[j].owner
              /\ reservations'[j].fence = reservations[j].fence
              /\ reservations'[j].left = CountDown(reservations[j].left)
            BY <1>0, <2>1 DEF Aged, ReservationRow
        <2>4. CountDown(jobs[j].left) > 0 => jobs[j].left > 0
            BY <1>0, StoreAssumption DEF CountDown, JobRow, Timer, Null
        <2>5. QED
            BY <1>0, <2>2, <2>3, <2>4 DEF SlotOK, SlotNeeded, SlotHeld
    <1>9. CASE UNCHANGED cvars
        BY <1>1, <1>9 DEF cvars
    <1>10. QED
        BY <1>2, <1>3, <1>4, <1>5, <1>6, <1>7, <1>8, <1>9 DEF CNext

LEMMA SlotsInvariant == CSpec => []SlotsOK
    BY SlotsInit, SlotsStep, ControllerTypeCorrect, ControllerLedger, PTL DEF CSpec

\* No slot is leaked: an active reservation belongs to a job that runs, under
\* the claim that runs it, through completion, retry, recovery and requeue,
\* crashes and takeovers, however old the clock readings are.
THEOREM NoSlotLeaks ==
    CSpec => [](\A j \in Jobs : reservations[j].status = "active" => jobs[j].status = "running")
    <1>1. SlotsOK => \A j \in Jobs : reservations[j].status = "active" => jobs[j].status = "running"
        BY DEF SlotsOK, SlotOK, SlotNeeded
    <1>2. QED
        BY <1>1, SlotsInvariant, PTL

\* When no call waits for the write lock with an old reading of the clock, a
\* live claim of a resource-bearing job also always has its slot.  A wait
\* breaks this half: a sweep can expire the reservation of a lane whose
\* heartbeat then renews the job with the older reading.
THEOREM SlotsAreHeldAsNeeded ==
    ASSUME LockWait = 0
    PROVE  CSpec => []SlotsFollowJobs
    <1>1. SlotsOK => SlotsFollowJobs
        BY StoreAssumption DEF SlotsOK, SlotOK, SlotNeeded, SlotHeld, SlotsFollowJobs, OwnActive
    <1>2. QED
        BY <1>1, SlotsInvariant, PTL

=============================================================================
