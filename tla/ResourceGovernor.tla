-------------------------- MODULE ResourceGovernor --------------------------
(***************************************************************************)
(* Admission of local lanes by the SQLite controller: one round of          *)
(* _ensure_reservations (scripts/sqlite_controller.py) takes one reading of *)
(* the machine and asks scripts/resource_governor.py about each candidate;  *)
(* the pressure tier in force is carried from report to report and stored   *)
(* with the claim, so a later controller continues from it.                 *)
(*                                                                          *)
(* A reading is the pressure tier its thresholds give and the memory left   *)
(* beyond the reserve, in lane units.  Disk evidence and the final launch   *)
(* gate (scripts/resource_admission.py) are the boolean `room`, read when a *)
(* lane is admitted and again before its child is created.  Remote          *)
(* candidates do not pass here.                                             *)
(***************************************************************************)
EXTENDS Integers, Sequences, FiniteSets, FiniteSetsExt, SequencesExt

CONSTANTS
    Candidates,     \* local jobs, in the order list_jobs returns them
    Ram, RamP90,    \* ram_gib and ram_gib_p90 of each
    Lanes,          \* max_lanes
    Readings,       \* the <<tier, headroom>> a reading of the machine may give
    RecoverySamples,\* policy recovery_samples
    DegradeSamples  \* policy degrade_samples

\* A P90 below the plain estimate is raised to it.
ASSUME GovernorAssumption ==
    /\ Candidates \in Seq(Range(Candidates))
    /\ Ram \in [Range(Candidates) -> Nat] /\ RamP90 \in [Range(Candidates) -> Nat]
    /\ \A j \in Range(Candidates) : Ram[j] <= RamP90[j]
    /\ Readings \subseteq {"normal", "conserve", "critical", "emergency"} \X Int
    /\ RecoverySamples \in Nat \ {0} /\ DegradeSamples \in Nat \ {0}

VARIABLES
    stored,         \* the governor_state row
    tier,           \* the hysteresis state in the controller's memory
    round,          \* the round under way: reading, places left in the list, promised RAM
    promised,       \* jobs with an active reservation
    lane,           \* the lane of each job: none, claimed, running or refused
    room,           \* is there space on the work and temporary filesystems?
    history         \* tiers of the readings taken, newest last (for properties)

governorVars == <<stored, tier, round, promised, lane, room, history>>

Tiers == <<"normal", "conserve", "critical", "emergency">>
Rank(t) == CHOOSE i \in 1..4 : Tiers[i] = t
NoTier == [effective |-> "none", pending |-> "none", samples |-> 0]
NoRound == [reading |-> <<"none", 0>>, todo |-> {}, pendingRam |-> 0, claims |-> 0]
RamOf(jobs) == MapThenSumSet(LAMBDA j : Ram[j], jobs)

GovernorInit ==
    /\ stored = NoTier
    /\ tier = NoTier
    /\ round = NoRound
    /\ promised = {}
    /\ lane = [j \in Range(Candidates) |-> "none"]
    /\ room = TRUE
    /\ history = <<>>

-----------------------------------------------------------------------------
\* update_hysteresis: one observation against the state carried along.
MutHysteresis(state, seen) ==             \* mutant: worsening waits like recovery does
    LET samples == IF state.pending = seen THEN state.samples + 1 ELSE 1
    IN  CASE state.effective = "none" -> [effective |-> seen, pending |-> "none", samples |-> 0]
          [] state.effective = seen -> [effective |-> seen, pending |-> "none", samples |-> 0]
          [] OTHER -> IF samples >= RecoverySamples
                      THEN [effective |-> seen, pending |-> "none", samples |-> 0]
                      ELSE [effective |-> state.effective, pending |-> seen, samples |-> samples]
Hysteresis(state, seen) ==
    LET samples == IF state.pending = seen THEN state.samples + 1 ELSE 1
        needed == IF Rank(seen) > Rank(state.effective) THEN DegradeSamples
                  ELSE RecoverySamples
    IN  CASE state.effective \in {"none", seen} ->
                [effective |-> seen, pending |-> "none", samples |-> 0]
          [] state.effective \notin {"none", seen} /\ samples >= needed ->
                [effective |-> seen, pending |-> "none", samples |-> 0]
          [] OTHER -> [effective |-> state.effective, pending |-> seen, samples |-> samples]

\* build_report for one lane: the tier in force is normal and a lane of that P90
\* fits into the headroom left by the RAM already promised.
LaneAllowed(j, state, reading, reserved) ==
    /\ state.effective = "normal"
    /\ RamP90[j] <= reading[2] - reserved

-----------------------------------------------------------------------------
(* A round of _ensure_reservations, candidate by candidate *)

\* The candidates are listed once, the promised RAM of the active reservations
\* is added up, and the machine is read once for the whole round.
BeginRound(reading) ==
    /\ round = NoRound
    /\ LET todo == {i \in DOMAIN Candidates : lane[Candidates[i]] = "none"}
       IN  /\ todo # {}
           /\ round' = [reading |-> reading, todo |-> todo,
                        pendingRam |-> RamOf(promised), claims |-> 0]
    /\ history' = IF Len(history) = RecoverySamples THEN Append(Tail(history), reading[1])
                  ELSE Append(history, reading[1])
    /\ UNCHANGED <<stored, tier, promised, lane, room>>

\* One candidate: the report moves the tier; an admitted lane is reserved and
\* claimed in one transaction that also stores the tier.
ConsiderCandidate ==
    /\ round.todo # {} /\ round.claims < Lanes
    /\ LET i == Min(round.todo)
           j == Candidates[i]
           next == Hysteresis(tier, round.reading[1])
       IN  /\ tier' = next
           /\ IF LaneAllowed(j, next, round.reading, round.pendingRam) /\ room
              THEN /\ promised' = promised \cup {j}
                   /\ lane' = [lane EXCEPT ![j] = "claimed"]
                   /\ stored' = next
                   /\ round' = [round EXCEPT !.todo = @ \ {i}, !.claims = @ + 1,
                                             !.pendingRam = @ + Ram[j]]
              ELSE /\ round' = [round EXCEPT !.todo = @ \ {i}]
                   /\ UNCHANGED <<promised, lane, stored>>
    /\ UNCHANGED <<room, history>>

\* The end of the round stores the tier (put_governor_state).
CloseRound ==
    /\ round # NoRound
    /\ round.todo = {} \/ round.claims = Lanes
    /\ stored' = tier
    /\ round' = NoRound
    /\ UNCHANGED <<tier, promised, lane, room, history>>

-----------------------------------------------------------------------------
(* Lanes *)

\* check_local_launch, just before the child is created: no room, no child.
LaunchLane(j) ==
    /\ lane[j] = "claimed"
    /\ round = NoRound
    /\ lane' = [lane EXCEPT ![j] = IF room THEN "running" ELSE "refused"]
    /\ promised' = IF room THEN promised ELSE promised \ {j}
    /\ UNCHANGED <<stored, tier, round, room, history>>

\* The job ends; its reservation is released and it may be queued again.
EndLane(j) ==
    /\ lane[j] \in {"running", "refused"}
    /\ lane' = [lane EXCEPT ![j] = "none"]
    /\ promised' = promised \ {j}
    /\ UNCHANGED <<stored, tier, round, room, history>>

DiskChanges ==
    /\ room' = ~room
    /\ UNCHANGED <<stored, tier, round, promised, lane, history>>

\* A controller dies within or between rounds; the next one reads the row.
GovernorCrash ==
    /\ tier' = stored
    /\ round' = NoRound
    /\ UNCHANGED <<stored, promised, lane, room, history>>

GovernorNext ==
    \/ \E reading \in Readings : BeginRound(reading)
    \/ ConsiderCandidate
    \/ CloseRound
    \/ \E j \in Range(Candidates) : LaunchLane(j)
    \/ \E j \in Range(Candidates) : EndLane(j)
    \/ DiskChanges
    \/ GovernorCrash

GovernorSpec == GovernorInit /\ [][GovernorNext]_governorVars

-----------------------------------------------------------------------------
NewlyClaimed == {j \in Range(Candidates) : lane[j] = "none" /\ lane'[j] = "claimed"}

\* A local lane is claimed only while the machine as it was read is under no
\* pressure and the RAM promised to all lanes, this one included, fits into
\* what the reading left beyond the reserve: a round that claims several lanes
\* on one reading does not spend the same memory twice.
LanesFitTheReading ==
    [][NewlyClaimed # {} =>
         /\ round.reading[1] = "normal"
         /\ RamOf(promised') <= round.reading[2]]_governorVars

\* A report moves the tier in force to a better one only after recovery_samples
\* readings in a row were better ("A recovery requires two consecutive healthy
\* samples, so a single transient free-memory spike cannot cause a new fan-out",
\* docs/research/resource-governor-v1.md:41): each reading is one sample.
RecoveryTakesReadings ==
    [][ConsiderCandidate /\ tier.effective # "none"
         /\ Rank(tier'.effective) < Rank(tier.effective) =>
            /\ Len(history) = RecoverySamples
            /\ \A i \in DOMAIN history : Rank(history[i]) < Rank(tier.effective)]_governorVars

\* The lanes claimed fit by their P90 too (sqlite_controller.py:889-892: "otherwise
\* ... a multi-lane claim could exceed the aggregate P90 budget").
LanesFitByP90 ==
    [][NewlyClaimed # {} =>
         MapThenSumSet(LAMBDA j : RamP90[j], promised') <= round.reading[2]]_governorVars
=============================================================================
