------------------------------ MODULE QuotaWake ------------------------------
(***************************************************************************)
(* Waiting for quota.  A watch projects saved quota snapshots to one        *)
(* decision per shared pool and a moment to plan again                      *)
(* (src/scripts/quota_window_watcher.py), the replan controller excludes    *)
(* the pools that are not ready and saves both                              *)
(* (src/scripts/replan_controller.py), and the durable worker, idle or with *)
(* its lanes busy, looks at the saved hint between bounded waits and        *)
(* records once that it is due (src/scripts/sqlite_controller.py).          *)
(*                                                                          *)
(* Time is counted in units; nobody lets time pass who has something to do. *)
(***************************************************************************)
EXTENDS Integers, Sequences, FiniteSets, FiniteSetsExt

CONSTANTS
    QuotaPools,     \* shared pools
    SnapshotFiles,  \* what the snapshot files say when a watch reads them: a set of sequences
    Lifetime,       \* ttl_seconds of a snapshot
    ReserveLevel,   \* --reserve-percent
    PilotAllowed,   \* --unknown-quota-policy pilot
    WatchPoll,      \* the watch's --poll-seconds
    PollWait,       \* the worker's --poll-seconds
    IdleBackoff,    \* --idle-backoff-seconds
    MaxWait,        \* --replan-max-wait-seconds
    LastMoment      \* bound on the clock

Absent == -1

\* Waits and shares are not negative; a snapshot is about a pool of the watch.
ASSUME WakeAssumption ==
    /\ {ReserveLevel, WatchPoll, PollWait, IdleBackoff, MaxWait} \subseteq Nat
    /\ Lifetime \in Int
    /\ SnapshotFiles \subseteq Seq([pool : QuotaPools, age : Nat, left : Nat \cup {Absent},
                              resets : SUBSET Nat, conflict : BOOLEAN, configured : BOOLEAN,
                              cooling : BOOLEAN])

NoHint == [target |-> Absent, reset |-> Absent, open |-> {}]
Down == [pc |-> "down", wake |-> Absent, watching |-> FALSE, look |-> Absent]

VARIABLES
    now,        \* UTC
    reading,    \* the snapshots of the last watch, and when it looked
    hint,       \* the saved replan artifact: when to plan again, which pools are open
    dueEvents,  \* replan_due events of the ledger, by feedback digest
    waiter,     \* the durable worker
    upSince     \* since when it runs

quotaVars == <<now, reading, hint, dueEvents, waiter, upSince>>

QuotaInit ==
    /\ now = 0
    /\ reading = [files |-> <<>>, at |-> Absent]
    /\ hint = NoHint
    /\ dueEvents = {}
    /\ waiter = Down
    /\ upSince = 0

-----------------------------------------------------------------------------
(* The watch reads the snapshot files, a sequence of                        *)
(*   [pool, age, left, resets, conflict, configured, cooling]               *)
(* with left = Absent if the balance is missing, the moments at which the   *)
(* exhausted windows end, a message about a login that conflicts, and a     *)
(* pool that cools down with quota left.                                    *)

NextReset(s) ==
    LET future == {t \in s.resets : t > now} IN IF future = {} THEN Absent ELSE Min(future)
Verdict(s) ==
    IF s.conflict THEN "needs_reauth"
    ELSE IF s.age > Lifetime THEN "blocked_stale"
    ELSE IF s.left = Absent
         THEN IF PilotAllowed /\ s.configured THEN "bounded_pilot" ELSE "blocked_unknown"
    ELSE IF s.left = 0 \/ s.cooling
         THEN IF NextReset(s) = Absent THEN "blocked_quota" ELSE "cooldown_until_reset"
    ELSE IF s.left <= ReserveLevel THEN "drain" ELSE "ready"

\* The newest observation of a pool counts, the later file if two are as new.
About(files, p) == {f \in DOMAIN files : files[f].pool = p}
Newest(files, p) ==
    LET youngest == Min({files[f].age : f \in About(files, p)})
    IN  files[Max({f \in About(files, p) : files[f].age = youngest})]
Observed(files) == {p \in QuotaPools : About(files, p) # {}}
PoolsThat(files, verdicts) == {p \in Observed(files) : Verdict(Newest(files, p)) \in verdicts}
ReadyPools(files) == PoolsThat(files, {"ready", "bounded_pilot"})
BlockedResets(files) ==
    {NextReset(Newest(files, p)) : p \in PoolsThat(files, {"cooldown_until_reset"})}

\* The decision that is saved holds the watch's feedback and, for the planner,
\* every pool that is not ready as an excluded one; a snapshot that cannot be
\* accepted, or none at all, means a short poll.
WakeAt(files, invalid) ==
    IF ~invalid /\ ReadyPools(files) = {} /\ BlockedResets(files) # {}
    THEN Min(BlockedResets(files)) ELSE now + WatchPoll
SaveDecision(files, invalid) ==                   \* bound: one watch at a time
    /\ reading.at < now
    /\ reading' = [files |-> files, at |-> now]
    /\ hint' = [target |-> WakeAt(files, invalid),
                reset |-> IF BlockedResets(files) = {} THEN Absent ELSE Min(BlockedResets(files)),
                open |-> QuotaPools \ (Observed(files) \ ReadyPools(files))]
    /\ UNCHANGED <<now, dueEvents, waiter, upSince>>

-----------------------------------------------------------------------------
(* The durable worker *)

\* build_replan_schedule: no hint, or one without a time, is due at once.
Due == hint.target <= now
SleepOf == IF Due THEN 0 ELSE Min({hint.target - now, MaxWait})

\* The feedback's digest names the event: recording it again is ignored.
HintDigest == [target |-> hint.target, reset |-> hint.reset]
Heard == IF Due THEN {HintDigest} ELSE {}
ObserveHint ==
    /\ dueEvents' = dueEvents \cup Heard
    /\ UNCHANGED <<now, reading, hint>>

StartWorker ==
    /\ waiter = Down
    /\ waiter' = [Down EXCEPT !.pc = "loop"]
    /\ upSince' = now
    /\ UNCHANGED <<now, reading, hint, dueEvents>>

\* An empty queue: a wait that neither the hint nor a pending retry may make
\* longer than the backoff.
MutIdleWait(retryIn) == Max({PollWait, SleepOf, Min({retryIn, IdleBackoff})})  \* mutant: until the hint is due
IdleWait(retryIn) == Max({PollWait, Min({SleepOf, IdleBackoff}), Min({retryIn, IdleBackoff})})
IdleRound(retryIn) ==
    /\ waiter.pc = "loop"
    /\ ObserveHint /\ UNCHANGED upSince
    /\ waiter' = [waiter EXCEPT !.pc = "asleep", !.wake = now + IdleWait(retryIn)]
WakeUp ==
    /\ waiter.pc = "asleep" /\ waiter.wake <= now
    /\ waiter' = [waiter EXCEPT !.pc = "loop"]
    /\ UNCHANGED <<now, reading, hint, dueEvents, upSince>>

\* Claims: the hint is looked at once and then by a thread beside the lanes.
LaunchBatch ==
    /\ waiter.pc = "loop"
    /\ ObserveHint /\ UNCHANGED upSince
    /\ waiter' = [waiter EXCEPT !.pc = "busy", !.watching = TRUE, !.look = now]
WatcherWait == LET sleep == IF SleepOf > 0 THEN SleepOf ELSE PollWait IN Min({sleep, IdleBackoff})
WatcherLooks ==
    /\ waiter.watching /\ waiter.look <= now
    /\ ObserveHint /\ UNCHANGED upSince
    /\ waiter' = [waiter EXCEPT !.look = now + WatcherWait]
BatchEnds ==
    /\ waiter.pc = "busy"
    /\ waiter' = [waiter EXCEPT !.pc = "loop", !.watching = FALSE, !.look = Absent]
    /\ UNCHANGED <<now, reading, hint, dueEvents, upSince>>

WorkerDies ==
    /\ waiter.pc # "down"
    /\ waiter' = Down
    /\ UNCHANGED <<now, reading, hint, dueEvents, upSince>>

\* Time passes when the worker waits.
TimePasses ==
    /\ now < LastMoment
    /\ waiter.pc # "loop"
    /\ waiter.pc = "asleep" => waiter.wake > now
    /\ waiter.watching => waiter.look > now
    /\ now' = now + 1
    /\ UNCHANGED <<reading, hint, dueEvents, waiter, upSince>>

QuotaNext ==
    \/ \E files \in SnapshotFiles, invalid \in BOOLEAN : SaveDecision(files, invalid)
    \/ StartWorker
    \/ \E retryIn \in {0, IdleBackoff + 1} : IdleRound(retryIn)
    \/ WakeUp
    \/ LaunchBatch
    \/ WatcherLooks
    \/ BatchEnds
    \/ WorkerDies
    \/ TimePasses

QuotaSpec == QuotaInit /\ [][QuotaNext]_quotaVars

-----------------------------------------------------------------------------
(* Properties *)

\* A hint that has been due for longer than the longest wait, while the worker
\* was up, is recorded, and none is recorded before it is due.
HeardInTime ==
    /\ waiter.pc # "down" /\ hint # NoHint
          /\ now - Max({hint.target, reading.at, upSince}) > Max({PollWait, IdleBackoff})
       => HintDigest \in dueEvents
    /\ \A e \in dueEvents : e.target <= now

\* A pool that is empty, as no snapshot as young denies, is closed to the planner;
\* the hint waits neither for long while some pool can run nor past the first
\* moment a window ends, and it waits for the end of a window that its pool's
\* youngest snapshot calls exhausted.
Empty(files, p) ==
    /\ About(files, p) # {}
    /\ \A f \in About(files, p) :
          files[f].left = 0 \/ \E g \in About(files, p) : files[g].age < files[f].age
Believed(s) == ~s.conflict /\ s.age <= Lifetime /\ s.left # Absent
Usable(s) == Believed(s) /\ s.left > ReserveLevel /\ ~s.cooling
WakesForReset ==
    LET files == reading.files
        alone(f) == About(files, files[f].pool) = {f}
        youngest(f) == \A g \in About(files, files[f].pool) : files[f].age <= files[g].age
        waits(f) == youngest(f) /\ (files[f].left = 0 \/ files[f].cooling)
        ends(f) == {t \in files[f].resets : t > now}
    IN  /\ \A p \in QuotaPools : Empty(files, p) => p \notin hint.open
        /\ \A f \in DOMAIN files :
              Usable(files[f]) /\ alone(f)
                 => files[f].pool \in hint.open /\ hint.target <= now + WatchPoll
        /\ hint.target > now + WatchPoll =>
              /\ \E f \in DOMAIN files : waits(f) /\ hint.target \in ends(f)
              /\ \A f \in DOMAIN files :
                    alone(f) /\ waits(f) /\ Believed(files[f]) =>
                       \A t \in ends(f) : hint.target <= t

\* A wait for quota ends in time: whatever the worker does meanwhile, a saved
\* hint is heard within one bounded wait of its time, never before, also after
\* a restart and under a hint that replaced another; and the hint itself is for
\* the end of the first exhausted window (watch, build_replan_schedule,
\* observe_replan_feedback, start_replan_watcher).
QuotaReturnsInTime ==
    [][HeardInTime' /\ (hint' # hint => WakesForReset')]_quotaVars
=============================================================================
