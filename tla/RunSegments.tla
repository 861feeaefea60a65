---------------------------- MODULE RunSegments ----------------------------
(***************************************************************************)
(* One continuous run in the dispatch ledger (scripts/sqlite_store.py):     *)
(* its bounded segments, the checkpoints of its attempts and its cleanup    *)
(* intents, all behind the fence of the controller lease.  Every method is  *)
(* one BEGIN IMMEDIATE transaction, so every method is one action; a method *)
(* that raises, or that returns an existing row, changes nothing.           *)
(*                                                                          *)
(* The lease is reduced to its owner, its fence and whether it is open:     *)
(* deadlines and stale clock readings are the subject of DispatchStore.     *)
(* A segment id is derived from run and sequence, so a sequence names it.   *)
(***************************************************************************)
EXTENDS Integers, Sequences

CONSTANTS
    Owners,         \* controller owner ids
    NoOwner,        \* the owner of a lease nobody ever took
    Identities,     \* pairs of manifest digest and capsule digest
    NoIdentity,     \* the identity of a segment that does not exist
    Attempts,       \* attempt ids of the run
    Digests,        \* state digests a checkpoint may carry
    NoDigest,       \* the NULL of previous_state_digest
    Requests,       \* request ids of cleanup intents
    Paths,          \* path digests of cleanup intents
    NoPath,         \* no intent under a request id
    MaxFence,       \* bound: controller epochs
    MaxSequence,    \* bound: segments
    MaxCheckpoints  \* bound: checkpoints of one attempt

ASSUME SegmentAssumption ==
    /\ NoOwner \notin Owners
    /\ NoIdentity \notin Identities
    /\ NoDigest \notin Digests
    /\ NoPath \notin Paths
    /\ MaxFence \in Nat \ {0}
    /\ MaxSequence \in Nat \ {0}
    /\ MaxCheckpoints \in Nat

VARIABLES
    lease,          \* the row of table leases for the controller scope
    segments,       \* table run_segments, keyed by sequence
    attempts,       \* the status of the run's attempts, which others change
    checkpoints,    \* table checkpoints: the rows of each attempt in order
    cleanup,        \* table cleanup_intents, keyed by request id
    events          \* the segment.* rows of table events in order

svars == <<lease, segments, attempts, checkpoints, cleanup, events>>

Fences == 1..MaxFence
SegmentNos == 1..MaxSequence
Terminal == {"finished", "failed", "aborted", "blocked"}

NoSegment == [status |-> "none", owner |-> NoOwner, fence |-> 0,
              identity |-> NoIdentity]
SegmentRow == [status : {"none", "running"} \cup Terminal,
               owner : Owners \cup {NoOwner}, fence : 0..MaxFence,
               identity : Identities \cup {NoIdentity}]
CheckpointRow == [state : Digests, previous : Digests \cup {NoDigest},
                  owner : Owners, fence : Fences, segment : 0..MaxSequence]
EventRow == [kind : {"started", "adopted", "finished"}, sequence : SegmentNos,
             owner : Owners, fence : Fences, status : {"running"} \cup Terminal]

SInit ==
    /\ lease = [owner |-> NoOwner, fence |-> 0, open |-> FALSE]
    /\ segments = [s \in SegmentNos |-> NoSegment]
    /\ attempts = [a \in Attempts |-> "none"]
    /\ checkpoints = [a \in Attempts |-> << >>]
    /\ cleanup = [r \in Requests |-> NoPath]
    /\ events = << >>

-----------------------------------------------------------------------------
(* The lease *)

\* acquire_controller_lease: the owner of an open lease gets its own fence
\* back; a lease that is not open starts a new epoch.
AcquiredFence(o) == IF lease.open /\ lease.owner = o THEN lease.fence ELSE lease.fence + 1
AcquireLease(o) ==
    /\ ~lease.open \/ lease.owner = o
    /\ AcquiredFence(o) \in Fences
    /\ lease' = [owner |-> o, fence |-> AcquiredFence(o), open |-> TRUE]

\* The lease runs out, or release_controller_lease closes it.
CloseLease(o, f) ==
    /\ lease.owner = o
    /\ lease.fence = f
    /\ lease' = [lease EXCEPT !.open = FALSE]

\* _assert_lease_tx
HoldsLease(o, f) == lease.open /\ lease.owner = o /\ lease.fence = f

-----------------------------------------------------------------------------
(* Segments *)

Active == {s \in SegmentNos : segments[s].status = "running"}
Exists(s) == segments[s].status # "none"

\* _active_segment_tx: the active segment with the highest sequence.
IsLatestActive(s) == s \in Active /\ \A t \in Active : t <= s
OwnedBy(row, o, f) == row.owner = o /\ row.fence = f

\* The compatibility check of begin_run_segment for an existing row.  The
\* status of that row is not looked at.
Compatible(s, o, f, id) ==
    Exists(s) /\ OwnedBy(segments[s], o, f) /\ segments[s].identity = id

Event(kind, s, o, f, status) ==
    [kind |-> kind, sequence |-> s, owner |-> o, fence |-> f, status |-> status]

\* begin_run_segment where it inserts a row.
MutBeginRunSegment(s, o, f, id) ==        \* mutant: does not look for an active one
    /\ HoldsLease(o, f)
    /\ ~Exists(s)
    /\ segments' = [segments EXCEPT ![s] =
          [status |-> "running", owner |-> o, fence |-> f, identity |-> id]]
    /\ events' = Append(events, Event("started", s, o, f, "running"))
BeginRunSegment(s, o, f, id) ==
    /\ HoldsLease(o, f)
    /\ ~Exists(s)
    /\ Active = {}
    /\ segments' = [segments EXCEPT ![s] =
          [status |-> "running", owner |-> o, fence |-> f, identity |-> id]]
    /\ events' = Append(events, Event("started", s, o, f, "running"))

\* finish_run_segment where it closes an active row of the caller's fence.
FinishRunSegment(s, o, f, status) ==
    /\ HoldsLease(o, f)
    /\ s \in Active
    /\ OwnedBy(segments[s], o, f)
    /\ segments' = [segments EXCEPT ![s].status = status]
    /\ events' = Append(events, Event("finished", s, o, f, status))

\* adopt_run_segment where it moves an active row to the caller's fence.
AdoptRunSegment(s, o, f, id) ==
    /\ HoldsLease(o, f)
    /\ s \in Active
    /\ segments[s].identity = id
    /\ ~OwnedBy(segments[s], o, f)
    /\ segments' = [segments EXCEPT ![s].owner = o, ![s].fence = f]
    /\ events' = Append(events, Event("adopted", s, o, f, "running"))

-----------------------------------------------------------------------------
(* Checkpoints and cleanup intents *)

\* The segment that append_checkpoint binds the row to (0 for NULL): the
\* active one, which has to be the caller's; without an active segment a
\* segment id that is given names a terminal segment, and the call raises.
CheckpointSegments(o, f) ==
    IF Active = {} THEN {0}
    ELSE {s \in Active : IsLatestActive(s) /\ OwnedBy(segments[s], o, f)}

\* append_checkpoint where it inserts a row: sequence and digest continue the
\* attempt's chain.  A replay of the same sequence and digest changes nothing.
MutAppendCheckpoint(a, o, f, digest) ==   \* mutant: links to the new digest
    /\ HoldsLease(o, f)
    /\ attempts[a] # "none"
    /\ Len(checkpoints[a]) < MaxCheckpoints
    /\ \E s \in CheckpointSegments(o, f) :
          checkpoints' = [checkpoints EXCEPT ![a] = Append(@,
             [state |-> digest, previous |-> digest, owner |-> o, fence |-> f,
              segment |-> s])]
AppendCheckpoint(a, o, f, digest) ==
    /\ HoldsLease(o, f)
    /\ attempts[a] # "none"
    /\ Len(checkpoints[a]) < MaxCheckpoints
    /\ \E s \in CheckpointSegments(o, f) :
          checkpoints' = [checkpoints EXCEPT ![a] = Append(@,
             [state |-> digest,
              previous |-> IF @ = << >> THEN NoDigest ELSE @[Len(@)].state,
              owner |-> o, fence |-> f, segment |-> s])]

\* record_cleanup_intent: a request id that is taken returns its row or raises.
RecordCleanupIntent(r, o, f, path) ==
    /\ HoldsLease(o, f)
    /\ cleanup[r] = NoPath
    /\ cleanup' = [cleanup EXCEPT ![r] = path]

\* Claims and completions of the run's attempts are the ledger's.
LedgerMovesAttempt(a) ==
    \/ attempts[a] = "none" /\ attempts' = [attempts EXCEPT ![a] = "running"]
    \/ attempts[a] = "running" /\ attempts' = [attempts EXCEPT ![a] = "ended"]

-----------------------------------------------------------------------------
SegmentStep(o, f) ==
    /\ \E s \in SegmentNos :
          \/ \E id \in Identities :
                BeginRunSegment(s, o, f, id) \/ AdoptRunSegment(s, o, f, id)
          \/ \E status \in Terminal : FinishRunSegment(s, o, f, status)
    /\ UNCHANGED <<lease, attempts, checkpoints, cleanup>>

NoteStep(o, f) ==
    \/ /\ \E a \in Attempts, digest \in Digests : AppendCheckpoint(a, o, f, digest)
       /\ UNCHANGED <<lease, segments, attempts, cleanup, events>>
    \/ /\ \E r \in Requests, path \in Paths : RecordCleanupIntent(r, o, f, path)
       /\ UNCHANGED <<lease, segments, attempts, checkpoints, events>>

LeaseStep(o) ==
    /\ AcquireLease(o) \/ \E f \in Fences : CloseLease(o, f)
    /\ UNCHANGED <<segments, attempts, checkpoints, cleanup, events>>

SNext ==
    \/ \E o \in Owners : LeaseStep(o) \/ \E f \in Fences : SegmentStep(o, f) \/ NoteStep(o, f)
    \/ /\ \E a \in Attempts : LedgerMovesAttempt(a)
       /\ UNCHANGED <<lease, segments, checkpoints, cleanup, events>>

SSpec == SInit /\ [][SNext]_svars

-----------------------------------------------------------------------------
(* Properties *)

\* Every row has the columns and values the schema and the methods allow.
STypeOK ==
    /\ lease \in [owner : Owners \cup {NoOwner}, fence : 0..MaxFence, open : BOOLEAN]
    /\ segments \in [SegmentNos -> SegmentRow]
    /\ attempts \in [Attempts -> {"none", "running", "ended"}]
    /\ checkpoints \in [Attempts -> Seq(CheckpointRow)]
    /\ cleanup \in [Requests -> Paths \cup {NoPath}]
    /\ events \in Seq(EventRow)

\* A run has at most one active segment, its fence is not newer than the
\* lease's, and under the lease's own fence it is the lease owner's: whatever
\* controllers begin, adopt and finish, in any order (begin_run_segment,
\* adopt_run_segment).
OneActiveSegment ==
    /\ \A s, t \in Active : s = t
    /\ \A s \in SegmentNos :
          /\ segments[s].fence <= lease.fence
          /\ Exists(s) /\ segments[s].fence = lease.fence =>
                segments[s].owner = lease.owner

\* The event log and the table tell the same story: the last event of a
\* segment carries the owner, the fence and the status of its row, and a
\* segment without an event has no row.
EventsMatchRows ==
    \A s \in SegmentNos :
        LET of == {i \in 1..Len(events) : events[i].sequence = s}
        IN  /\ Exists(s) <=> of # {}
            /\ \A i \in of :
                  (\A k \in of : k <= i) =>
                     /\ events[i].status = segments[s].status
                     /\ OwnedBy(segments[s], events[i].owner, events[i].fence)

\* The checkpoints of an attempt are one chain: each names the state of its
\* predecessor, and fences never decrease along it, so a controller that was
\* superseded adds nothing behind its successor (append_checkpoint against
\* adopt_run_segment).
CheckpointChain ==
    \A a \in Attempts : \A i \in 1..Len(checkpoints[a]) :
        LET row == checkpoints[a][i]
        IN  /\ i = 1 => row.previous = NoDigest
            /\ i > 1 => /\ row.previous = checkpoints[a][i - 1].state
                        /\ checkpoints[a][i - 1].fence <= row.fence
            /\ row.fence <= lease.fence

\* A segment is closed once: its outcome, its fence and its identity never
\* change afterwards; and an active segment changes hands only upwards in
\* fences, to the holder of the lease (finish_run_segment, adopt_run_segment).
SegmentsMoveForward ==
    [][\A s \in SegmentNos :
          /\ segments[s].status \in Terminal => segments'[s] = segments[s]
          /\ Exists(s) => segments'[s].identity = segments[s].identity
          /\ segments'[s] # segments[s] =>
                OwnedBy(segments'[s], lease.owner, lease.fence)]_svars

=============================================================================
