---------------------- MODULE DurableSupervisorProofs ----------------------
(***************************************************************************)
(* Theorems about run segments and the durable run loop. The tables of      *)
(* RunSegments are well typed, a run has at most one active segment, a      *)
(* closed segment stays as it is, and checkpoints form one chain per        *)
(* attempt. The loop's processes use the tables only as RunSegments allows, *)
(* and as long as they run one after the other (~ Overlap) they submit a    *)
(* segment once, leave no gap in the chain of segments, and know which one  *)
(* is theirs; all for any number of processes, owner ids, epochs, segments  *)
(* and checkpoints.                                                         *)
(***************************************************************************)
EXTENDS DurableSupervisor, WellFoundedInduction, TLAPS

-----------------------------------------------------------------------------
(* RunSegments *)

\* What a step of a run may be, with its bound variables named.
LEMMA StepCases ==
    ASSUME [SNext]_svars
    PROVE  \/ UNCHANGED svars
           \/ \E o \in Owners : LeaseStep(o)
           \/ \E o \in Owners, f \in Fences : SegmentStep(o, f)
           \/ \E o \in Owners, f \in Fences : NoteStep(o, f)
           \/ \E a \in Attempts :
                 /\ LedgerMovesAttempt(a)
                 /\ UNCHANGED <<lease, segments, checkpoints, cleanup, events>>
    BY DEF SNext

-----------------------------------------------------------------------------
(* Types *)

\* A new run has no rows.
LEMMA SegmentTypeInit == SInit => STypeOK
    BY SegmentAssumption
    DEF SInit, STypeOK, NoSegment, SegmentRow, CheckpointRow, EventRow, Fences, Terminal

\* A step of the lease leaves it an owner, a fence within the bound and a flag.
LEMMA LeaseType ==
    ASSUME STypeOK, NEW o \in Owners, LeaseStep(o)
    PROVE  STypeOK'
    <1>1. lease' \in [owner : Owners \cup {NoOwner}, fence : 0..MaxFence, open : BOOLEAN]
        <2>1. CASE AcquireLease(o)
            BY <2>1, SegmentAssumption DEF AcquireLease, Fences, STypeOK
        <2>2. ASSUME NEW f \in Fences, CloseLease(o, f)
              PROVE  lease' \in [owner : Owners \cup {NoOwner}, fence : 0..MaxFence,
                                 open : BOOLEAN]
            BY <2>2 DEF CloseLease, STypeOK
        <2>3. QED
            BY <2>1, <2>2 DEF LeaseStep
    <1>2. QED
        BY <1>1 DEF LeaseStep, STypeOK

\* Beginning, adopting and finishing write rows and events of the schema.
LEMMA SegmentType ==
    ASSUME STypeOK, NEW o \in Owners, NEW f \in Fences, SegmentStep(o, f)
    PROVE  STypeOK'
    <1>1. PICK s \in SegmentNos :
             \/ \E id \in Identities :
                   BeginRunSegment(s, o, f, id) \/ AdoptRunSegment(s, o, f, id)
             \/ \E status \in Terminal : FinishRunSegment(s, o, f, status)
        BY DEF SegmentStep
    <1>2. f \in 0..MaxFence /\ segments[s] \in SegmentRow
        BY SegmentAssumption DEF Fences, STypeOK
    <1>3. \A kind \in {"started", "adopted", "finished"},
             status \in {"running"} \cup Terminal :
                Event(kind, s, o, f, status) \in EventRow
        BY DEF Event, EventRow
    <1>4. segments' \in [SegmentNos -> SegmentRow] /\ events' \in Seq(EventRow)
        <2>1. ASSUME NEW id \in Identities, BeginRunSegment(s, o, f, id)
              PROVE  segments' \in [SegmentNos -> SegmentRow] /\ events' \in Seq(EventRow)
            <3>1. [status |-> "running", owner |-> o, fence |-> f, identity |-> id]
                     \in SegmentRow
                BY <1>2 DEF SegmentRow
            <3>2. QED
                BY <2>1, <1>3, <3>1 DEF BeginRunSegment, STypeOK
        <2>2. ASSUME NEW id \in Identities, AdoptRunSegment(s, o, f, id)
              PROVE  segments' \in [SegmentNos -> SegmentRow] /\ events' \in Seq(EventRow)
            <3>1. [segments[s] EXCEPT !.owner = o, !.fence = f] \in SegmentRow
                BY <1>2 DEF SegmentRow
            <3>2. segments' = [segments EXCEPT
                     ![s] = [segments[s] EXCEPT !.owner = o, !.fence = f]]
                BY <2>2 DEF AdoptRunSegment, STypeOK
            <3>3. QED
                BY <2>2, <1>3, <3>1, <3>2 DEF AdoptRunSegment, STypeOK
        <2>3. ASSUME NEW status \in Terminal, FinishRunSegment(s, o, f, status)
              PROVE  segments' \in [SegmentNos -> SegmentRow] /\ events' \in Seq(EventRow)
            <3>1. [segments[s] EXCEPT !.status = status] \in SegmentRow
                BY <1>2 DEF SegmentRow
            <3>2. QED
                BY <2>3, <1>3, <3>1 DEF FinishRunSegment, STypeOK
        <2>4. QED
            BY <1>1, <2>1, <2>2, <2>3
    <1>5. QED
        BY <1>4 DEF SegmentStep, STypeOK

\* A checkpoint that is appended has a predecessor of the same attempt or none.
LEMMA AppendedRow ==
    ASSUME STypeOK, NEW a \in Attempts, NEW digest \in Digests, NEW o \in Owners,
           NEW f \in Fences, AppendCheckpoint(a, o, f, digest)
    PROVE  \E row \in CheckpointRow :
              /\ row.fence = f
              /\ row.previous = IF checkpoints[a] = << >> THEN NoDigest
                                ELSE checkpoints[a][Len(checkpoints[a])].state
              /\ checkpoints' = [checkpoints EXCEPT ![a] = Append(@, row)]
    <1> DEFINE last == IF checkpoints[a] = << >> THEN NoDigest
                       ELSE checkpoints[a][Len(checkpoints[a])].state
               row(s) == [state |-> digest, previous |-> last, owner |-> o,
                          fence |-> f, segment |-> s]
    <1>1. PICK s \in CheckpointSegments(o, f) :
             checkpoints' = [checkpoints EXCEPT ![a] = Append(@, row(s))]
        BY DEF AppendCheckpoint, STypeOK
    <1>2. s \in 0..MaxSequence
        BY SegmentAssumption DEF CheckpointSegments, Active, SegmentNos
    <1>3. last \in Digests \cup {NoDigest}
        <2>1. checkpoints[a] \in Seq(CheckpointRow)
            BY DEF STypeOK
        <2>2. CASE checkpoints[a] # << >>
            <3>1. Len(checkpoints[a]) \in 1..Len(checkpoints[a])
                BY <2>1, <2>2
            <3>2. checkpoints[a][Len(checkpoints[a])] \in CheckpointRow
                BY <2>1, <3>1
            <3>3. QED
                BY <2>2, <3>2 DEF CheckpointRow
        <2>3. QED
            BY <2>2
    <1>4. row(s) \in CheckpointRow
        BY <1>2, <1>3 DEF CheckpointRow
    <1>5. QED
        BY <1>1, <1>4

\* Checkpoints and cleanup intents are rows of the schema.
LEMMA NoteType ==
    ASSUME STypeOK, NEW o \in Owners, NEW f \in Fences, NoteStep(o, f)
    PROVE  STypeOK'
    <1>1. ASSUME NEW a \in Attempts, NEW digest \in Digests,
                 AppendCheckpoint(a, o, f, digest),
                 UNCHANGED <<lease, segments, attempts, cleanup, events>>
          PROVE  STypeOK'
        <2>1. PICK row \in CheckpointRow :
                 checkpoints' = [checkpoints EXCEPT ![a] = Append(@, row)]
            BY <1>1, AppendedRow
        <2>2. Append(checkpoints[a], row) \in Seq(CheckpointRow)
            BY DEF STypeOK
        <2>3. QED
            BY <1>1, <2>1, <2>2 DEF STypeOK
    <1>2. ASSUME NEW r \in Requests, NEW path \in Paths,
                 RecordCleanupIntent(r, o, f, path),
                 UNCHANGED <<lease, segments, attempts, checkpoints, events>>
          PROVE  STypeOK'
        BY <1>2 DEF RecordCleanupIntent, STypeOK
    <1>3. QED
        BY <1>1, <1>2 DEF NoteStep

\* Every step keeps the tables well typed.
LEMMA SegmentTypeStep == STypeOK /\ [SNext]_svars => STypeOK'
    <1> SUFFICES ASSUME STypeOK, [SNext]_svars PROVE STypeOK'
        OBVIOUS
    <1>1. CASE UNCHANGED svars
        BY <1>1 DEF STypeOK, svars
    <1>2. ASSUME NEW a \in Attempts, LedgerMovesAttempt(a),
                 UNCHANGED <<lease, segments, checkpoints, cleanup, events>>
          PROVE  STypeOK'
        BY <1>2 DEF LedgerMovesAttempt, STypeOK
    <1>3. QED
        BY <1>1, <1>2, StepCases, LeaseType, SegmentType, NoteType

\* The tables of a run keep their columns in range (sqlite_store.py, the
\* schema and the methods begin_run_segment to record_cleanup_intent).
THEOREM SegmentsTypeCorrect == SSpec => []STypeOK
    BY SegmentTypeInit, SegmentTypeStep, PTL DEF SSpec

-----------------------------------------------------------------------------
(* One active segment *)

\* Without rows there is nothing to be active.
LEMMA OneActiveInit == SInit => OneActiveSegment
    BY SegmentAssumption
    DEF SInit, OneActiveSegment, Active, Exists, NoSegment

\* A new epoch makes every fence in the table older than the lease's, and an
\* epoch that goes on keeps its owner.
LEMMA OneActiveLease ==
    ASSUME STypeOK, OneActiveSegment, NEW o \in Owners, LeaseStep(o)
    PROVE  OneActiveSegment'
    <1>1. \A s \in SegmentNos : segments[s].fence \in 0..MaxFence
        BY DEF STypeOK, SegmentRow
    <1>2. CASE AcquireLease(o)
        <2>1. CASE lease.open /\ lease.owner = o
            BY <1>2, <2>1 DEF AcquireLease, AcquiredFence, LeaseStep, OneActiveSegment,
                              Active, Exists
        <2>2. CASE ~(lease.open /\ lease.owner = o)
            <3>1. lease.fence \in 0..MaxFence /\ lease'.fence = lease.fence + 1
                BY <1>2, <2>2 DEF AcquireLease, AcquiredFence, STypeOK
            <3>2. \A s \in SegmentNos : segments[s].fence < lease'.fence
                BY <1>1, <3>1, SegmentAssumption DEF OneActiveSegment
            <3>3. \A s \in SegmentNos : /\ segments[s].fence <= lease'.fence
                                        /\ segments[s].fence # lease'.fence
                BY <1>1, <3>1, <3>2, SegmentAssumption
            <3>4. QED
                BY <3>3 DEF LeaseStep, OneActiveSegment, Active, Exists
        <2>3. QED
            BY <2>1, <2>2
    <1>3. ASSUME NEW f \in Fences, CloseLease(o, f) PROVE OneActiveSegment'
        BY <1>3 DEF CloseLease, LeaseStep, OneActiveSegment, Active, Exists, STypeOK
    <1>4. QED
        BY <1>2, <1>3 DEF LeaseStep

\* A segment begins only where none is active; an adoption leaves the set of
\* active segments alone, a finish makes it smaller; and each writes the
\* owner and the fence of the lease.
LEMMA OneActiveSegmentStep ==
    ASSUME STypeOK, OneActiveSegment, NEW o \in Owners, NEW f \in Fences,
           SegmentStep(o, f)
    PROVE  OneActiveSegment'
    <1>1. PICK s \in SegmentNos :
             \/ \E id \in Identities :
                   BeginRunSegment(s, o, f, id) \/ AdoptRunSegment(s, o, f, id)
             \/ \E status \in Terminal : FinishRunSegment(s, o, f, status)
        BY DEF SegmentStep
    <1>2. lease.owner = o /\ lease.fence = f /\ lease' = lease /\ f \in Nat
        BY <1>1, SegmentAssumption
        DEF BeginRunSegment, AdoptRunSegment, FinishRunSegment, HoldsLease,
            SegmentStep, Fences
    <1>3. /\ \A t \in SegmentNos \ {s} : segments'[t] = segments[t]
          /\ segments'[s].owner = o /\ segments'[s].fence = f
        BY <1>1 DEF BeginRunSegment, AdoptRunSegment, FinishRunSegment, OwnedBy,
                    STypeOK, SegmentRow
    <1>4. \A t, u \in Active' : t = u
        <2>1. CASE Active = {}
            <3>1. Active' \subseteq {s}
                BY <1>3, <2>1 DEF Active
            <3>2. QED
                BY <3>1
        <2>2. CASE Active # {}
            <3>1. s \in Active
                BY <1>1, <2>2
                DEF BeginRunSegment, AdoptRunSegment, FinishRunSegment
            <3>2. Active' \subseteq Active
                BY <1>3, <3>1 DEF Active
            <3>3. QED
                BY <3>2 DEF OneActiveSegment
        <2>3. QED
            BY <2>1, <2>2
    <1>5. \A t \in SegmentNos :
             /\ segments'[t].fence <= lease'.fence
             /\ Exists(t)' /\ segments'[t].fence = lease'.fence =>
                   segments'[t].owner = lease'.owner
        BY <1>2, <1>3 DEF OneActiveSegment, Exists
    <1>6. QED
        BY <1>4, <1>5 DEF OneActiveSegment

\* Every step keeps at most one segment active.
LEMMA OneActiveStep == STypeOK /\ OneActiveSegment /\ [SNext]_svars => OneActiveSegment'
    <1> SUFFICES ASSUME STypeOK, OneActiveSegment, [SNext]_svars PROVE OneActiveSegment'
        OBVIOUS
    <1>1. ASSUME UNCHANGED <<lease, segments>> PROVE OneActiveSegment'
        BY <1>1 DEF OneActiveSegment, Active, Exists
    <1>2. CASE UNCHANGED svars
        BY <1>1, <1>2 DEF svars
    <1>3. ASSUME NEW o \in Owners, NEW f \in Fences, NoteStep(o, f)
          PROVE  OneActiveSegment'
        BY <1>1, <1>3 DEF NoteStep
    <1>4. QED
        BY <1>1, <1>2, <1>3, StepCases, OneActiveLease, OneActiveSegmentStep

\* Whatever controllers begin, adopt and finish, a run has at most one active
\* segment, and no row is ahead of the lease (begin_run_segment,
\* adopt_run_segment, finish_run_segment).
THEOREM OneSegmentAtATime == SSpec => []OneActiveSegment
    <1>1. STypeOK /\ OneActiveSegment /\ [SNext]_svars => STypeOK' /\ OneActiveSegment'
        BY SegmentTypeStep, OneActiveStep
    <1>2. SInit => STypeOK /\ OneActiveSegment
        BY SegmentTypeInit, OneActiveInit
    <1>3. QED
        BY <1>1, <1>2, PTL DEF SSpec

-----------------------------------------------------------------------------
(* Closed segments and chains of checkpoints *)

\* A closed segment is not active, and only active or missing ones change.
LEMMA ForwardStep ==
    ASSUME STypeOK, [SNext]_svars, NEW s \in SegmentNos
    PROVE  /\ segments[s].status \in Terminal => segments'[s] = segments[s]
           /\ Exists(s) => segments'[s].identity = segments[s].identity
           /\ segments'[s] # segments[s] =>
                 OwnedBy(segments'[s], lease.owner, lease.fence)
    <1>1. CASE segments' = segments
        BY <1>1
    <1>2. ASSUME NEW o \in Owners, NEW f \in Fences, NEW t \in SegmentNos,
                 NEW id \in Identities,
                 BeginRunSegment(t, o, f, id) \/ AdoptRunSegment(t, o, f, id)
          PROVE  /\ segments[s].status \in Terminal => segments'[s] = segments[s]
                 /\ Exists(s) => segments'[s].identity = segments[s].identity
                 /\ segments'[s] # segments[s] =>
                       OwnedBy(segments'[s], lease.owner, lease.fence)
        <2>1. CASE s # t
            BY <1>2, <2>1 DEF BeginRunSegment, AdoptRunSegment, STypeOK
        <2>2. CASE s = t /\ BeginRunSegment(t, o, f, id)
            BY <2>2 DEF BeginRunSegment, Exists, Terminal, HoldsLease, OwnedBy, STypeOK
        <2>3. CASE s = t /\ AdoptRunSegment(t, o, f, id)
            BY <2>3 DEF AdoptRunSegment, Active, Terminal, HoldsLease, OwnedBy, STypeOK,
                        SegmentRow
        <2>4. QED
            BY <1>2, <2>1, <2>2, <2>3
    <1>3. ASSUME NEW o \in Owners, NEW f \in Fences, NEW t \in SegmentNos,
                 NEW status \in Terminal, FinishRunSegment(t, o, f, status)
          PROVE  /\ segments[s].status \in Terminal => segments'[s] = segments[s]
                 /\ Exists(s) => segments'[s].identity = segments[s].identity
                 /\ segments'[s] # segments[s] =>
                       OwnedBy(segments'[s], lease.owner, lease.fence)
        <2>1. CASE s # t
            BY <1>3, <2>1 DEF FinishRunSegment, STypeOK
        <2>2. CASE s = t
            BY <1>3, <2>2 DEF FinishRunSegment, Active, Terminal, HoldsLease, OwnedBy,
                              STypeOK, SegmentRow
        <2>3. QED
            BY <2>1, <2>2
    <1>4. QED
        BY <1>1, <1>2, <1>3, StepCases DEF svars, LeaseStep, NoteStep, SegmentStep

\* A segment is closed once, keeps its identity, and changes hands only to the
\* holder of the lease (finish_run_segment, adopt_run_segment).
THEOREM SegmentsOnlyMoveForward == SSpec => SegmentsMoveForward
    <1>1. STypeOK /\ [SNext]_svars =>
             [\A s \in SegmentNos :
                /\ segments[s].status \in Terminal => segments'[s] = segments[s]
                /\ Exists(s) => segments'[s].identity = segments[s].identity
                /\ segments'[s] # segments[s] =>
                      OwnedBy(segments'[s], lease.owner, lease.fence)]_svars
        BY ForwardStep
    <1>2. QED
        BY <1>1, SegmentsTypeCorrect, PTL DEF SSpec, SegmentsMoveForward

\* No step takes the fence of the lease back.
LEMMA FenceGrows ==
    ASSUME STypeOK, [SNext]_svars
    PROVE  lease.fence <= lease'.fence /\ lease'.fence \in Nat
    <1>1. lease.fence \in Nat
        BY SegmentAssumption DEF STypeOK
    <1>2. CASE lease' = lease
        BY <1>1, <1>2
    <1>3. ASSUME NEW o \in Owners, LeaseStep(o)
          PROVE  lease.fence <= lease'.fence /\ lease'.fence \in Nat
        BY <1>1, <1>3 DEF LeaseStep, AcquireLease, AcquiredFence, CloseLease, STypeOK
    <1>4. QED
        BY <1>2, <1>3, StepCases DEF svars, SegmentStep, NoteStep

\* One more checkpoint, linked to the last one under the fence of the lease,
\* is one more link of the chain.
LEMMA ChainGrows ==
    ASSUME STypeOK, CheckpointChain, NEW o \in Owners, NEW f \in Fences,
           NEW a \in Attempts, NEW digest \in Digests,
           AppendCheckpoint(a, o, f, digest), lease' = lease
    PROVE  CheckpointChain'
    <1>1. PICK row \in CheckpointRow :
             /\ row.fence = f
             /\ row.previous = IF checkpoints[a] = << >> THEN NoDigest
                               ELSE checkpoints[a][Len(checkpoints[a])].state
             /\ checkpoints' = [checkpoints EXCEPT ![a] = Append(@, row)]
        BY AppendedRow
    <1>2. lease.fence = f /\ f \in Nat
        BY SegmentAssumption DEF AppendCheckpoint, HoldsLease, Fences
    <1>3. \A b \in Attempts : checkpoints[b] \in Seq(CheckpointRow)
        BY DEF STypeOK
    <1>4. SUFFICES ASSUME NEW b \in Attempts, NEW i \in 1..Len(checkpoints'[b])
                   PROVE  LET r == checkpoints'[b][i]
                          IN  /\ i = 1 => r.previous = NoDigest
                              /\ i > 1 => /\ r.previous = checkpoints'[b][i - 1].state
                                          /\ checkpoints'[b][i - 1].fence <= r.fence
                              /\ r.fence <= lease'.fence
        BY DEF CheckpointChain
    <1>5. CASE b # a
        <2>1. checkpoints'[b] = checkpoints[b]
            BY <1>1, <1>5 DEF STypeOK
        <2>2. QED
            BY <2>1 DEF CheckpointChain
    <1>6. CASE b = a
        <2>1. checkpoints'[a] = Append(checkpoints[a], row)
            BY <1>1 DEF STypeOK
        <2>2. CASE i \in 1..Len(checkpoints[a])
            <3>1. checkpoints'[a][i] = checkpoints[a][i]
                BY <1>3, <2>1, <2>2
            <3>2. i > 1 => checkpoints'[a][i - 1] = checkpoints[a][i - 1]
                BY <1>3, <2>1, <2>2
            <3>3. QED
                BY <1>6, <2>2, <3>1, <3>2 DEF CheckpointChain
        <2>3. CASE i = Len(checkpoints[a]) + 1
            <3>1. checkpoints'[a][i] = row
                BY <1>3, <2>1, <2>3
            <3>2. CASE i = 1
                <4>1. checkpoints[a] = << >>
                    BY <1>3, <2>3, <3>2
                <4>2. QED
                    BY <1>1, <1>2, <1>6, <3>1, <3>2, <4>1
            <3>3. CASE i > 1
                <4>1. /\ checkpoints[a] # << >>
                      /\ i - 1 = Len(checkpoints[a])
                      /\ i - 1 \in 1..Len(checkpoints[a])
                    BY <1>3, <2>3, <3>3
                <4>2. checkpoints'[a][i - 1] = checkpoints[a][i - 1]
                    BY <1>3, <2>1, <4>1
                <4>3. checkpoints[a][i - 1].fence <= lease.fence
                    BY <4>1 DEF CheckpointChain
                <4>4. QED
                    BY <1>1, <1>2, <1>6, <3>1, <3>3, <4>1, <4>2, <4>3
            <3>4. QED
                BY <2>3, <3>2, <3>3, <1>3
        <2>4. QED
            BY <1>3, <1>6, <2>1, <2>2, <2>3
    <1>7. QED
        BY <1>5, <1>6

\* Every step keeps the checkpoints of an attempt one chain.
LEMMA ChainStep == STypeOK /\ CheckpointChain /\ [SNext]_svars => CheckpointChain'
    <1> SUFFICES ASSUME STypeOK, CheckpointChain, [SNext]_svars PROVE CheckpointChain'
        OBVIOUS
    <1>1. CASE checkpoints' = checkpoints
        <2>1. \A a \in Attempts : \A i \in 1..Len(checkpoints[a]) :
                 checkpoints[a][i].fence \in Nat
            <3>1. ASSUME NEW a \in Attempts, NEW i \in 1..Len(checkpoints[a])
                  PROVE  checkpoints[a][i].fence \in Nat
                <4>1. checkpoints[a] \in Seq(CheckpointRow)
                    BY DEF STypeOK
                <4>2. checkpoints[a][i] \in CheckpointRow
                    BY <4>1
                <4>3. QED
                    BY <4>2, SegmentAssumption DEF CheckpointRow, Fences
            <3>2. QED
                BY <3>1
        <2>2. \A a \in Attempts : \A i \in 1..Len(checkpoints[a]) :
                 checkpoints[a][i].fence <= lease'.fence
            <3>1. lease.fence <= lease'.fence /\ lease.fence \in Nat /\ lease'.fence \in Nat
                BY FenceGrows, SegmentAssumption DEF STypeOK
            <3>2. \A a \in Attempts : \A i \in 1..Len(checkpoints[a]) :
                     checkpoints[a][i].fence <= lease.fence
                BY DEF CheckpointChain
            <3>3. QED
                BY <2>1, <3>1, <3>2
        <2>3. QED
            BY <1>1, <2>2 DEF CheckpointChain
    <1>2. ASSUME NEW o \in Owners, NEW f \in Fences, NEW a \in Attempts,
                 NEW digest \in Digests, AppendCheckpoint(a, o, f, digest),
                 lease' = lease
          PROVE  CheckpointChain'
        BY <1>2, ChainGrows
    <1>3. QED
        BY <1>1, <1>2, StepCases DEF svars, LeaseStep, SegmentStep, NoteStep

\* The checkpoints of an attempt form one chain whose fences never decrease: a
\* superseded controller adds nothing behind its successor (append_checkpoint).
THEOREM CheckpointsFormAChain == SSpec => []CheckpointChain
    <1>1. SInit => CheckpointChain
        BY DEF SInit, CheckpointChain
    <1>2. QED
        BY <1>1, ChainStep, SegmentsTypeCorrect, PTL DEF SSpec

-----------------------------------------------------------------------------
(* DurableSupervisor *)

Sups == [pc : PC, fence : 0..MaxFence, identity : Identities \cup {NoIdentity},
         active : 0..MaxSequence, next : 1..(MaxSequence + 1), started : BOOLEAN,
         closing : {"none", "roll", "planned_end", "stop"}]

\* A lease that was ever taken has an owner and a fence.
LeaseTaken ==
    /\ lease.open => lease.owner \in Owners
    /\ lease.owner \in Owners => lease.fence \in Fences

\* A process that is up was started with an identity and a fence, and it deals
\* with a segment wherever the code dereferences _active.
Working == {"submit", "intent", "call", "receipt", "seal", "flush", "finish"}
ProcKnows(p) ==
    /\ sup[p].pc # "down" => sup[p].identity \in Identities /\ sup[p].fence \in Fences
    /\ sup[p].pc \in Working => sup[p].active \in SegmentNos
    /\ sup[p].pc \in {"down", "restore", "load"} => sup[p].active = 0

\* The part that needs no hypothesis.
MemoryInv ==
    /\ TypeOK
    /\ qsubs \in [SegmentNos -> Nat]
    /\ LeaseTaken
    /\ \A p \in Procs : ProcKnows(p)

\* One process at a time.
Lone == \A p, q \in Procs : sup[p].pc # "down" /\ sup[q].pc # "down" => p = q

\* The sidecars against PBS: an intent precedes the submission, a receipt
\* follows it, and the intent is sealed after the receipt.
SidecarsTrue ==
    \A s \in SegmentNos :
        /\ intent[s].status = "none" => pbs[s] = "none"
        /\ intent[s].status = "submitted" => receipt[s].status # "none"
        /\ receipt[s].status # "none" => pbs[s] # "none"
        /\ qsubs[s] = IF pbs[s] = "none" THEN 0 ELSE 1

\* How far a process is with the submission of its segment.
SubmissionKnown(p) ==
    LET s == sup[p].active
    IN  /\ sup[p].pc \in {"intent", "call"} => pbs[s] = "none"
        /\ sup[p].pc = "call" => intent[s].status # "none"
        /\ sup[p].pc = "receipt" => pbs[s] # "none"
        /\ sup[p].pc = "seal" => receipt[s].status # "none"

SubmissionInv == SidecarsTrue /\ \A p \in Procs : SubmissionKnown(p)

\* Receipts are of segments that exist.
ReceiptsOfSegments == \A s \in SegmentNos : receipt[s].status # "none" => Exists(s)

\* What a process believes of the segments: its own exists, and while it holds
\* the lease its own is running for it, and all numbers below the next one are
\* taken and no others.
SegmentKnown(p) ==
    /\ sup[p].active # 0 => Exists(sup[p].active)
    /\ HoldsLease(OwnerOf[p], sup[p].fence) =>
          /\ sup[p].active # 0 => sup[p].active \in OwnActive(p)
          /\ sup[p].pc \notin {"down", "restore", "load", "exit"} \/ sup[p].active # 0 =>
                \A s \in SegmentNos : Exists(s) <=> s < sup[p].next

SegmentInv ==
    /\ SegmentsWithoutGaps
    /\ ReceiptsOfSegments
    /\ \A p \in Procs : SegmentKnown(p)

-----------------------------------------------------------------------------
(* Types, and the segment table *)

IntentFile == [status : {"none", "submitting", "submitted"},
               owner : Owners \cup {NoOwner}, identity : Identities \cup {NoIdentity}]
ReceiptFile == [status : {"none", "accepted", "ended"},
                owner : Owners \cup {NoOwner}, identity : Identities \cup {NoIdentity}]
FilesTyped ==
    /\ intent \in [SegmentNos -> IntentFile]
    /\ receipt \in [SegmentNos -> ReceiptFile]
    /\ pbs \in [SegmentNos -> {"none", "queued", "ended"}]
    /\ qsubs \in [SegmentNos -> Nat]
SupTyped == sup \in [Procs -> Sups]

LEMMA MemoryParts ==
    /\ MemoryInv <=> /\ STypeOK /\ LeaseTaken /\ SupTyped /\ FilesTyped
                     /\ \A p \in Procs : ProcKnows(p)
    /\ MemoryInv' <=> /\ STypeOK' /\ LeaseTaken' /\ SupTyped' /\ FilesTyped'
                      /\ \A p \in Procs : ProcKnows(p)'
BY DEF MemoryInv, TypeOK, SupTyped, FilesTyped, Sups, IntentFile, ReceiptFile

LEMMA DownTyped == Down \in Sups
BY SegmentAssumption DEF Down, Sups, PC

LEMMA MemoryInit == Init => MemoryInv
<1>1. SUFFICES ASSUME Init
               PROVE  STypeOK /\ LeaseTaken /\ SupTyped /\ FilesTyped /\ \A p \in Procs : ProcKnows(p)
  BY MemoryParts
<1>2. STypeOK
  BY <1>1, SegmentTypeInit DEF Init
<1>3. LeaseTaken
  BY <1>1, SegmentAssumption DEF Init, SInit, LeaseTaken
<1>4. SupTyped
  BY <1>1, DownTyped DEF Init, SupTyped
<1>5. FilesTyped
  BY <1>1 DEF Init, FilesTyped, NoFile, IntentFile, ReceiptFile
<1>6. \A p \in Procs : ProcKnows(p)
  BY <1>1 DEF Init, ProcKnows, Down, Working
<1> QED BY <1>2, <1>3, <1>4, <1>5, <1>6

\* What a process does to the segment table is a method of the table.
LEMMA ProcUsesSegments ==
    ASSUME MemoryInv, NEW p \in Procs,
           Start(p) \/ ProcStep(p) \/ StopLoop(p) \/ Crash(p)
    PROVE  [SNext]_svars
<1>0. OwnerOf[p] \in Owners
  BY SupervisorAssumption
<1>k. ProcKnows(p)
  BY DEF MemoryInv
<1>1. CASE UNCHANGED svars
  BY <1>1
<1>2. CASE Start(p)
  BY <1>0, <1>2 DEF Start, KeepTables, LeaseStep, SNext
<1>3. CASE Restore(p)
  <2>1. ASSUME NEW s \in Active, AdoptRunSegment(s, OwnerOf[p], sup[p].fence, sup[p].identity),
               UNCHANGED lease, KeepTables
        PROVE  SNext
    <3>1. sup[p].fence \in Fences /\ sup[p].identity \in Identities /\ s \in SegmentNos
      BY <1>3, <1>k DEF Restore, ProcKnows, Active
    <3>2. SegmentStep(OwnerOf[p], sup[p].fence)
      BY <2>1, <3>1 DEF SegmentStep, KeepTables
    <3> QED BY <1>0, <3>1, <3>2 DEF SNext
  <2> QED BY <1>1, <1>3, <2>1 DEF Restore, OnlySup, KeepStore
<1>4. CASE OpenSegment(p)
  <2>1. ASSUME sup[p].next \in SegmentNos,
               BeginRunSegment(sup[p].next, OwnerOf[p], sup[p].fence, sup[p].identity),
               UNCHANGED lease, KeepTables
        PROVE  SNext
    <3>1. sup[p].fence \in Fences /\ sup[p].identity \in Identities
      BY <1>4, <1>k DEF OpenSegment, ProcKnows
    <3>2. SegmentStep(OwnerOf[p], sup[p].fence)
      BY <2>1, <3>1 DEF SegmentStep, KeepTables
    <3> QED BY <1>0, <3>1, <3>2 DEF SNext
  <2> QED BY <1>1, <1>4, <2>1 DEF OpenSegment, OnlySup, KeepStore
<1>5. CASE FinishSegment(p)
  <2>1. ASSUME FinishRunSegment(sup[p].active, OwnerOf[p], sup[p].fence, ClosedAs(p)),
               UNCHANGED lease, KeepTables
        PROVE  SNext
    <3>1. sup[p].fence \in Fences /\ sup[p].active \in SegmentNos /\ ClosedAs(p) \in Terminal
      BY <1>5, <1>k DEF FinishSegment, ProcKnows, Working, ClosedAs, Terminal
    <3>2. SegmentStep(OwnerOf[p], sup[p].fence)
      BY <2>1, <3>1 DEF SegmentStep, KeepTables
    <3> QED BY <1>0, <3>1, <3>2 DEF SNext
  <2> QED BY <1>1, <1>5, <2>1 DEF FinishSegment, OnlySup, KeepStore
<1>6. CASE Leave(p)
  <2>1. sup[p].fence \in Fences
    BY <1>6, <1>k DEF Leave, ProcKnows
  <2>2. CASE CloseLease(OwnerOf[p], sup[p].fence)
    <3>1. LeaseStep(OwnerOf[p])
      BY <1>6, <2>1, <2>2 DEF Leave, LeaseStep, KeepTables
    <3> QED BY <1>0, <3>1 DEF SNext
  <2>3. CASE UNCHANGED lease
    BY <1>1, <1>6, <2>3 DEF Leave, KeepTables, svars
  <2> QED BY <1>6, <2>2, <2>3 DEF Leave
<1> QED BY <1>1, <1>2, <1>3, <1>4, <1>5, <1>6 DEF ProcStep, StopLoop, Crash, Load, SubmitSegment, WriteIntent, CallSubmit,
           PersistReceipt, SealIntent, Tick, Flush, Reconcile, OnlySup, KeepStore

LEMMA UsesSegments ==
    ASSUME MemoryInv, [Next]_vars
    PROVE  [SNext]_svars
<1>1. ASSUME NEW p \in Procs, Start(p) \/ ProcStep(p) \/ StopLoop(p) \/ Crash(p) PROVE [SNext]_svars
  BY <1>1, ProcUsesSegments
<1>2. CASE LeaseRunsOut
  <2>1. lease.owner \in Owners /\ lease.fence \in Fences
    BY <1>2 DEF LeaseRunsOut, MemoryInv, LeaseTaken
  <2>2. LeaseStep(lease.owner)
    BY <1>2, <2>1 DEF LeaseRunsOut, LeaseStep, KeepTables
  <2> QED BY <2>1, <2>2 DEF SNext
<1>3. CASE LedgerStep
  BY <1>3 DEF LedgerStep, SNext
<1>4. CASE UNCHANGED svars
  BY <1>4
<1> QED BY <1>1, <1>2, <1>3, <1>4 DEF Next, PBSJobEnds, KeepStore, vars

LEMMA LeaseTakenStep ==
    ASSUME STypeOK, LeaseTaken, [SNext]_svars
    PROVE  LeaseTaken'
<1>1. ASSUME NEW o \in Owners, LeaseStep(o) PROVE LeaseTaken'
  BY <1>1 DEF LeaseStep, AcquireLease, CloseLease, LeaseTaken, STypeOK
<1>2. CASE UNCHANGED lease
  BY <1>2 DEF LeaseTaken
<1> QED BY <1>1, <1>2, StepCases DEF svars, SegmentStep, NoteStep

\* The new memory of a process that stays up: what it was started with is kept.
Carries(p) ==
    /\ sup'[p].fence = sup[p].fence
    /\ sup'[p].identity = sup[p].identity
KeepsSegment(p) ==
    /\ sup'[p].active = sup[p].active
    /\ sup'[p].next = sup[p].next
OthersKeep(p) == \A q \in Procs \ {p} : sup'[q] = sup[q]

\* A change of the control state and of nothing that a segment depends on.
Moves(p, pc) ==
    /\ SupTyped' /\ OthersKeep(p)
    /\ Carries(p) /\ KeepsSegment(p)
    /\ sup'[p].pc = pc

LEMMA NewMemory ==
    ASSUME SupTyped, NEW p \in Procs, NEW r \in Sups, sup' = [sup EXCEPT ![p] = r]
    PROVE  SupTyped' /\ OthersKeep(p) /\ sup'[p] = r
BY DEF SupTyped, OthersKeep

LEMMA GotoMoves ==
    ASSUME SupTyped, NEW p \in Procs, NEW pc \in PC, Goto(p, pc)
    PROVE  Moves(p, pc)
<1>1. sup'[p] = [sup[p] EXCEPT !.pc = pc] /\ \A q \in Procs \ {p} : sup'[q] = sup[q]
  BY DEF Goto, SupTyped
<1>2. [sup[p] EXCEPT !.pc = pc] \in Sups
  BY DEF SupTyped, Sups
<1>3. SupTyped'
  BY <1>1, <1>2 DEF Goto, SupTyped
<1> QED BY <1>1, <1>3 DEF Moves, OthersKeep, Carries, KeepsSegment, SupTyped, Sups

LEMMA StartedMoves ==
    ASSUME SupTyped, NEW p \in Procs,
           sup' = [sup EXCEPT ![p].pc = "loop", ![p].started = TRUE]
    PROVE  Moves(p, "loop")
BY DEF Moves, OthersKeep, Carries, KeepsSegment, SupTyped, Sups, PC

LEMMA ClosingMoves ==
    ASSUME SupTyped, NEW p \in Procs, NEW way \in {"roll", "planned_end", "stop"},
           sup' = [sup EXCEPT ![p].pc = "flush", ![p].closing = way]
    PROVE  Moves(p, "flush")
BY DEF Moves, OthersKeep, Carries, KeepsSegment, SupTyped, Sups, PC

LEMMA RaisesMoves ==
    ASSUME SupTyped, NEW p \in Procs, Raises(p)
    PROVE  Moves(p, "loop") \/ Moves(p, "exit")
BY GotoMoves DEF Raises, PC

\* Going down, and coming up.
LEMMA GoesDown ==
    ASSUME SupTyped, NEW p \in Procs, sup' = [sup EXCEPT ![p] = Down]
    PROVE  SupTyped' /\ OthersKeep(p) /\ sup'[p] = Down
BY DownTyped DEF SupTyped, OthersKeep

LEMMA ComesUp ==
    ASSUME MemoryInv, NEW p \in Procs, Start(p)
    PROVE  /\ SupTyped' /\ OthersKeep(p)
           /\ sup'[p].pc = "restore" /\ sup'[p].active = 0
           /\ sup'[p].identity \in Identities /\ sup'[p].fence \in Fences
<1>0. SupTyped
  BY MemoryParts
<1>1. lease'.fence \in Fences
  BY DEF Start, AcquireLease
<1>2. PICK id \in Identities :
         sup' = [sup EXCEPT ![p] = [Down EXCEPT !.pc = "restore", !.identity = id, !.fence = lease'.fence]]
  BY DEF Start
<1> DEFINE r == [Down EXCEPT !.pc = "restore", !.identity = id, !.fence = lease'.fence]
<1>3. r.pc = "restore" /\ r.active = 0 /\ r.identity = id /\ r.fence = lease'.fence
  BY DEF Down
<1>4. lease'.fence \in 0..MaxFence
  BY <1>1, SegmentAssumption DEF Fences
<1>5. r \in Sups
  <2>1. Down \in Sups
    BY DownTyped
  <2> QED BY <1>4, <2>1 DEF Sups, PC
<1>6. sup' = [sup EXCEPT ![p] = r]
  BY <1>2
<1> HIDE DEF r
<1>7. SupTyped' /\ OthersKeep(p) /\ sup'[p] = r
  BY <1>0, <1>5, <1>6, NewMemory
<1> QED BY <1>1, <1>3, <1>7

\* A set of segment numbers has a smallest and a largest one.
LEMMA SmallestIsOne ==
    ASSUME NEW S \in SUBSET Nat, S # {}
    PROVE  Min(S) \in S /\ \A y \in S : Min(S) <= y
<1>1. \E x \in S : \A y \in S : ~(y < x)
  <2>1. PICK x \in S : \A y \in S : <<y, x>> \notin OpToRel(<, Nat)
    BY WFMin, NatLessThanWellFounded, Zenon
  <2> QED BY <2>1, Zenon DEF OpToRel
<1>2. \E x \in S : \A y \in S : x <= y
  BY <1>1
<1> QED BY <1>2 DEF Min

LEMMA LargestIsOne ==
    ASSUME NEW n \in Nat, NEW S \in SUBSET (0..n), S # {}
    PROVE  Max(S) \in S /\ \A y \in S : y <= Max(S)
<1> DEFINE T == {n - x : x \in S}
<1>1. T \in SUBSET Nat /\ T # {}
  <2>1. \A x \in S : n - x \in Nat
    OBVIOUS
  <2> QED BY <2>1
<1>2. Min(T) \in T /\ \A y \in T : Min(T) <= y
  BY <1>1, SmallestIsOne
<1>3. PICK x \in S : Min(T) = n - x
  BY <1>2
<1>4. \A y \in S : n - x <= n - y
  BY <1>2, <1>3
<1>5. \A y \in S : x >= y
  BY <1>4
<1> QED BY <1>5 DEF Max

LEMMA SeenBound ==
    ASSUME MemoryInv
    PROVE  /\ NextSequence \in 1..(MaxSequence + 1)
           /\ \A s \in SegmentNos : s \in Seen => s < NextSequence
           /\ NextSequence = 1 \/ NextSequence - 1 \in Seen
<1>1. MaxSequence \in Nat /\ Seen \cup {0} \in SUBSET (0..MaxSequence) /\ Seen \subseteq SegmentNos
  BY SegmentAssumption DEF Seen, SegmentNos
<1>2. /\ Max(Seen \cup {0}) \in Seen \cup {0}
      /\ \A y \in Seen \cup {0} : y <= Max(Seen \cup {0})
  BY <1>1, LargestIsOne
<1> DEFINE m == Max(Seen \cup {0})
<1> HIDE DEF m
<1>3. m \in Seen \cup {0} /\ NextSequence = m + 1 /\ \A y \in Seen : y <= m
  BY <1>2 DEF m, NextSequence
<1> QED BY <1>1, <1>3 DEF SegmentNos

\* The three steps that change what a process knows of its segment.
LEMMA LoadStep ==
    ASSUME MemoryInv, NEW p \in Procs, Load(p)
    PROVE  /\ sup[p].pc = "load" /\ OnlySup
           /\ \/ Moves(p, "exit")
              \/ /\ SupTyped' /\ OthersKeep(p) /\ Carries(p)
                 /\ sup'[p].pc = "open"
                 /\ OwnActive(p) = {} => sup'[p].active = 0
                 /\ OwnActive(p) # {} => sup'[p].active \in OwnActive(p)
                 /\ sup'[p].next = NextSequence
<1>0. SupTyped
  BY MemoryParts
<1> DEFINE a == IF OwnActive(p) = {} THEN 0 ELSE Min(OwnActive(p))
<1>1. OwnActive(p) # {} => Min(OwnActive(p)) \in OwnActive(p)
  <2>1. OwnActive(p) \in SUBSET Nat
    BY DEF OwnActive, Active, SegmentNos
  <2> QED BY <2>1, SmallestIsOne
<1>2. a \in 0..MaxSequence
  BY <1>1, SegmentAssumption DEF OwnActive, Active, SegmentNos
<1>3. NextSequence \in 1..(MaxSequence + 1)
  BY SeenBound
<1>4. CASE Goto(p, "exit")
  BY <1>0, <1>4, GotoMoves DEF Load, PC
<1>5. ASSUME sup' = [sup EXCEPT ![p].pc = "open", ![p].active = a, ![p].next = NextSequence]
      PROVE  /\ SupTyped' /\ OthersKeep(p) /\ Carries(p)
             /\ sup'[p].pc = "open"
             /\ sup'[p].active = a
             /\ sup'[p].next = NextSequence
  <2> DEFINE r == [sup[p] EXCEPT !.pc = "open", !.active = a, !.next = NextSequence]
  <2>1. sup[p] \in Sups
    BY <1>0 DEF SupTyped
  <2> HIDE DEF a
  <2>2. r \in Sups /\ r.pc = "open" /\ r.active = a /\ r.next = NextSequence
        /\ r.fence = sup[p].fence /\ r.identity = sup[p].identity
    BY <1>2, <1>3, <2>1 DEF Sups, PC
  <2>3. sup' = [sup EXCEPT ![p] = r]
    BY <1>0, <1>5 DEF SupTyped
  <2> HIDE DEF r
  <2> QED BY <1>0, <2>2, <2>3, NewMemory DEF Carries
<1> QED BY <1>1, <1>4, <1>5 DEF Load

LEMMA OpenedStep ==
    ASSUME SupTyped, NEW p \in Procs, NEW s \in SegmentNos, Opened(p, s)
    PROVE  /\ SupTyped' /\ OthersKeep(p) /\ Carries(p)
           /\ sup'[p].pc = "submit" /\ sup'[p].active = s /\ sup'[p].next = s + 1
<1>1. s \in 0..MaxSequence /\ s + 1 \in 1..(MaxSequence + 1)
  BY SegmentAssumption DEF SegmentNos
<1> DEFINE r == [sup[p] EXCEPT !.pc = "submit", !.active = s, !.next = s + 1]
<1>2. sup[p] \in Sups
  BY DEF SupTyped
<1>3. r \in Sups /\ r.pc = "submit" /\ r.active = s /\ r.next = s + 1
      /\ r.fence = sup[p].fence /\ r.identity = sup[p].identity
  BY <1>1, <1>2 DEF Sups, PC
<1>4. sup' = [sup EXCEPT ![p] = r]
  BY DEF Opened, SupTyped
<1> HIDE DEF r
<1> QED BY <1>3, <1>4, NewMemory DEF Carries

LEMMA ClosedStep ==
    ASSUME SupTyped, NEW p \in Procs,
           sup' = [sup EXCEPT ![p].pc = IF sup[p].closing = "roll" THEN "open" ELSE "exit",
                              ![p].active = 0, ![p].closing = "none"]
    PROVE  /\ SupTyped' /\ OthersKeep(p) /\ Carries(p)
           /\ sup'[p].pc \in {"open", "exit"} /\ sup'[p].active = 0
           /\ sup'[p].next = sup[p].next
<1> DEFINE l == IF sup[p].closing = "roll" THEN "open" ELSE "exit"
<1> DEFINE r == [sup[p] EXCEPT !.pc = l, !.active = 0, !.closing = "none"]
<1>1. l \in {"open", "exit"} /\ 0 \in 0..MaxSequence /\ sup[p] \in Sups
  BY SegmentAssumption DEF SupTyped
<1>2. sup' = [sup EXCEPT ![p] = r]
  BY DEF SupTyped
<1> HIDE DEF l
<1>3. r \in Sups /\ r.pc = l /\ r.active = 0 /\ r.next = sup[p].next
      /\ r.fence = sup[p].fence /\ r.identity = sup[p].identity
  BY <1>1 DEF Sups, PC
<1> HIDE DEF r
<1> QED BY <1>1, <1>2, <1>3, NewMemory DEF Carries

\* The steps that leave sidecars and PBS alone, and the ones of a submission.
Sending == {"intent", "call", "receipt", "seal"}
QuietStep(p) ==
    \/ Start(p) \/ Restore(p) \/ Load(p) \/ OpenSegment(p) \/ Tick(p) \/ StopLoop(p)
    \/ Flush(p) \/ FinishSegment(p) \/ Leave(p) \/ Crash(p)
SubmitStep(p) ==
    \/ SubmitSegment(p) \/ WriteIntent(p) \/ CallSubmit(p) \/ PersistReceipt(p)
    \/ SealIntent(p) \/ \E s \in SegmentNos : Reconcile(p, s)

LEMMA MovesKnows ==
    ASSUME NEW p \in Procs, ProcKnows(p), NEW l \in PC, sup[p].pc # "down", Moves(p, l),
           l \in Working => sup[p].active \in SegmentNos,
           l = "load" => sup[p].active = 0, l \notin {"down", "restore"}
    PROVE  ProcKnows(p)'
BY DEF ProcKnows, Moves, Carries, KeepsSegment

LEMMA QuietMemory ==
    ASSUME MemoryInv, NEW p \in Procs, QuietStep(p)
    PROVE  /\ SupTyped' /\ OthersKeep(p) /\ ProcKnows(p)'
           /\ KeepWorld /\ sup'[p].pc \notin Sending
<1>0. SupTyped /\ ProcKnows(p) /\ sup[p].active \in 0..MaxSequence
  BY MemoryParts DEF SupTyped, Sups
<1>a. sup[p].active # 0 => sup[p].active \in SegmentNos
  BY <1>0, SegmentAssumption DEF SegmentNos
<1>1. CASE Start(p)
  BY <1>1, ComesUp DEF Start, KeepWorld, ProcKnows, Working, Sending
<1>2. CASE Leave(p) \/ Crash(p)
  BY <1>0, <1>2, GoesDown DEF Leave, Crash, OnlySup, KeepWorld, ProcKnows, Working, Sending, Down
<1>3. CASE Restore(p)
  <2>1. Moves(p, "load") \/ Moves(p, "exit")
    BY <1>0, <1>3, GotoMoves DEF Restore, PC
  <2>2. sup[p].pc = "restore" /\ KeepWorld
    BY <1>3 DEF Restore, OnlySup
  <2> QED BY <1>0, <2>1, <2>2, MovesKnows DEF Moves, Sending, Working, ProcKnows, PC
<1>4. CASE Load(p)
  <2>1. CASE Moves(p, "exit")
    BY <1>0, <1>4, <2>1, LoadStep, MovesKnows DEF Moves, Sending, Working, PC, OnlySup
  <2>2. CASE ~Moves(p, "exit")
    BY <1>0, <1>4, <2>2, LoadStep DEF ProcKnows, Carries, Working, Sending, OnlySup
  <2> QED BY <2>1, <2>2
<1>5. CASE OpenSegment(p)
  <2>1. sup[p].pc = "open" /\ KeepWorld
    BY <1>5 DEF OpenSegment, OnlySup
  <2>2. CASE sup[p].active # 0 /\ Goto(p, "submit")
    BY <1>0, <1>a, <2>1, <2>2, GotoMoves, MovesKnows DEF Moves, Sending, Working, PC
  <2>3. CASE Raises(p)
    BY <1>0, <2>1, <2>3, RaisesMoves, MovesKnows DEF Moves, Sending, Working, PC
  <2>4. CASE sup[p].next \in SegmentNos /\ Opened(p, sup[p].next)
    BY <1>0, <2>1, <2>4, OpenedStep DEF ProcKnows, Carries, Working, Sending
  <2> QED BY <1>5, <2>2, <2>3, <2>4 DEF OpenSegment
<1>6. CASE Tick(p) \/ StopLoop(p)
  <2>1. sup[p].pc = "loop" /\ KeepWorld
    BY <1>6 DEF Tick, StopLoop, OnlySup
  <2>2. CASE Goto(p, "open") \/ Goto(p, "exit")
    BY <1>0, <2>1, <2>2, GotoMoves, MovesKnows DEF Moves, Sending, Working, PC
  <2>3. CASE Raises(p)
    BY <1>0, <2>1, <2>3, RaisesMoves, MovesKnows DEF Moves, Sending, Working, PC
  <2>4. ASSUME NEW way \in {"roll", "planned_end", "stop"}, sup[p].active # 0,
               sup' = [sup EXCEPT ![p].pc = "flush", ![p].closing = way]
        PROVE  /\ SupTyped' /\ OthersKeep(p) /\ ProcKnows(p)'
               /\ KeepWorld /\ sup'[p].pc \notin Sending
    BY <1>0, <1>a, <2>1, <2>4, ClosingMoves, MovesKnows DEF Moves, Sending, Working, PC
  <2> QED BY <1>6, <2>2, <2>3, <2>4 DEF Tick, StopLoop
<1>7. CASE Flush(p)
  <2>1. sup[p].pc = "flush" /\ KeepWorld /\ (Goto(p, "finish") \/ Goto(p, "exit"))
    BY <1>7 DEF Flush, OnlySup
  <2>2. sup[p].active \in SegmentNos
    BY <1>0, <2>1 DEF ProcKnows, Working
  <2> QED BY <1>0, <2>1, <2>2, GotoMoves, MovesKnows DEF Moves, Sending, Working, PC
<1>8. CASE FinishSegment(p)
  <2>1. sup[p].pc = "finish" /\ KeepWorld
    BY <1>8 DEF FinishSegment, OnlySup
  <2>2. CASE Raises(p) \/ Goto(p, "exit")
    BY <1>0, <2>1, <2>2, RaisesMoves, GotoMoves, MovesKnows DEF Moves, Sending, Working, PC
  <2>3. CASE sup' = [sup EXCEPT ![p].pc = IF sup[p].closing = "roll" THEN "open" ELSE "exit",
                                ![p].active = 0, ![p].closing = "none"]
    BY <1>0, <2>1, <2>3, ClosedStep DEF ProcKnows, Carries, Working, Sending
  <2> QED BY <1>8, <2>2, <2>3 DEF FinishSegment
<1> QED BY <1>1, <1>2, <1>3, <1>4, <1>5, <1>6, <1>7, <1>8 DEF QuietStep

\* A submission moves the process on and keeps its segment.
LEMMA SubmitMemory ==
    ASSUME MemoryInv, NEW p \in Procs, SubmitStep(p)
    PROVE  /\ SupTyped' /\ OthersKeep(p) /\ ProcKnows(p)'
           /\ Carries(p) /\ KeepsSegment(p)
           /\ UNCHANGED svars
<1>0. SupTyped /\ ProcKnows(p)
  BY MemoryParts
<1>1. CASE \E s \in SegmentNos : Reconcile(p, s)
  BY <1>0, <1>1 DEF Reconcile, KeepStore, SupTyped, OthersKeep, ProcKnows, Carries, KeepsSegment
<1>2. ASSUME sup[p].pc \in {"submit", "intent", "call", "receipt", "seal"}, UNCHANGED svars,
             NEW l \in {"loop", "exit", "intent", "call", "receipt", "seal"}, Moves(p, l)
      PROVE  /\ SupTyped' /\ OthersKeep(p) /\ ProcKnows(p)'
             /\ Carries(p) /\ KeepsSegment(p)
             /\ UNCHANGED svars
  <2>1. sup[p].active \in SegmentNos
    BY <1>0, <1>2 DEF ProcKnows, Working
  <2> QED BY <1>0, <1>2, <2>1, MovesKnows DEF Moves, Working, PC
<1>3. CASE SubmitSegment(p)
  <2>1. Moves(p, "loop") \/ Moves(p, "exit") \/ Moves(p, "intent") \/ Moves(p, "receipt")
    BY <1>0, <1>3, GotoMoves, StartedMoves, RaisesMoves DEF SubmitSegment, PC
  <2> QED BY <1>2, <1>3, <2>1 DEF SubmitSegment, OnlySup, KeepStore
<1>4. CASE WriteIntent(p)
  BY <1>0, <1>2, <1>4, GotoMoves DEF WriteIntent, KeepStore, PC
<1>5. CASE CallSubmit(p)
  <2>1. Moves(p, "loop") \/ Moves(p, "receipt")
    BY <1>0, <1>5, GotoMoves, StartedMoves DEF CallSubmit, PC
  <2> QED BY <1>2, <1>5, <2>1 DEF CallSubmit, KeepStore
<1>6. CASE PersistReceipt(p)
  BY <1>0, <1>2, <1>6, GotoMoves DEF PersistReceipt, KeepStore, PC
<1>7. CASE SealIntent(p)
  BY <1>0, <1>2, <1>7, StartedMoves DEF SealIntent, KeepStore, PC
<1> QED BY <1>1, <1>3, <1>4, <1>5, <1>6, <1>7 DEF SubmitStep

LEMMA FileTyped ==
    ASSUME MemoryInv, NEW p \in Procs, sup[p].pc # "down"
    PROVE  /\ \A t \in {"none", "submitting", "submitted"} : File(p, t) \in IntentFile
           /\ \A t \in {"none", "accepted", "ended"} : File(p, t) \in ReceiptFile
           /\ \A t \in {"none", "submitting", "submitted", "accepted", "ended"} :
                 File(p, t).status = t
<1>1. OwnerOf[p] \in Owners /\ sup[p].identity \in Identities
  BY SupervisorAssumption DEF MemoryInv, ProcKnows
<1> QED BY <1>1 DEF File, IntentFile, ReceiptFile

\* What a submission does to the sidecars and to PBS.
LEMMA SubmitFiles ==
    ASSUME MemoryInv, NEW p \in Procs, SubmitStep(p)
    PROVE  FilesTyped'
<1>0. FilesTyped
  BY MemoryParts
<1>1. CASE SubmitSegment(p)
  BY <1>0, <1>1 DEF SubmitSegment, OnlySup, KeepWorld, FilesTyped
<1>2. CASE WriteIntent(p)
  <2>1. File(p, "submitting") \in IntentFile
    BY <1>2, FileTyped DEF WriteIntent
  <2> QED BY <1>0, <1>2, <2>1 DEF WriteIntent, FilesTyped
<1>3. CASE CallSubmit(p)
  BY <1>0, <1>3 DEF CallSubmit, FilesTyped
<1>4. CASE PersistReceipt(p)
  <2>1. sup[p].active \in SegmentNos
    BY <1>4 DEF PersistReceipt, MemoryInv, ProcKnows, Working
  <2>2. File(p, ReceiptStatus(sup[p].active)) \in ReceiptFile
    BY <1>0, <1>4, <2>1, FileTyped DEF PersistReceipt, ReceiptStatus, FilesTyped
  <2> QED BY <1>0, <1>4, <2>2 DEF PersistReceipt, FilesTyped
<1>5. CASE SealIntent(p)
  <2>1. File(p, "submitted") \in IntentFile
    BY <1>5, FileTyped DEF SealIntent
  <2> QED BY <1>0, <1>5, <2>1 DEF SealIntent, FilesTyped
<1>6. ASSUME NEW s \in SegmentNos, Reconcile(p, s) PROVE FilesTyped'
  <2>1. File(p, "submitted") \in IntentFile /\ File(p, pbs[s]) \in ReceiptFile
    BY <1>6, FileTyped DEF Reconcile
  <2> QED BY <1>0, <1>6, <2>1 DEF Reconcile, FilesTyped
<1> QED BY <1>1, <1>2, <1>3, <1>4, <1>5, <1>6 DEF SubmitStep

LEMMA ProcStepKinds ==
    ASSUME NEW p \in Procs, Start(p) \/ ProcStep(p) \/ StopLoop(p) \/ Crash(p)
    PROVE  QuietStep(p) \/ SubmitStep(p)
BY DEF ProcStep, QuietStep, SubmitStep

LEMMA MemoryStep ==
    ASSUME MemoryInv, [Next]_vars
    PROVE  MemoryInv'
<1>1. STypeOK' /\ LeaseTaken'
  BY UsesSegments, SegmentTypeStep, LeaseTakenStep DEF MemoryInv, TypeOK
<1>2. SupTyped' /\ FilesTyped' /\ \A p \in Procs : ProcKnows(p)'
  <2>0. SupTyped /\ FilesTyped /\ \A p \in Procs : ProcKnows(p)
    BY MemoryParts
  <2>1. ASSUME NEW p \in Procs, Start(p) \/ ProcStep(p) \/ StopLoop(p) \/ Crash(p)
        PROVE  SupTyped' /\ FilesTyped' /\ \A q \in Procs : ProcKnows(q)'
    <3>1. SupTyped' /\ OthersKeep(p) /\ ProcKnows(p)'
      BY <2>1, ProcStepKinds, QuietMemory, SubmitMemory
    <3>2. FilesTyped'
      <4>1. CASE QuietStep(p)
        BY <2>0, <4>1, QuietMemory DEF KeepWorld, FilesTyped
      <4> QED BY <2>1, <4>1, ProcStepKinds, SubmitFiles
    <3>3. \A q \in Procs : ProcKnows(q)'
      BY <2>0, <3>1 DEF OthersKeep, ProcKnows
    <3> QED BY <3>1, <3>2, <3>3
  <2>2. CASE UNCHANGED <<sup, intent, receipt, qsubs>> /\ FilesTyped'
    BY <2>0, <2>2 DEF SupTyped, ProcKnows
  <2>3. ASSUME NEW s \in SegmentNos, PBSJobEnds(s) PROVE FilesTyped'
    BY <2>0, <2>3 DEF PBSJobEnds, FilesTyped
  <2>4. CASE LeaseRunsOut \/ LedgerStep \/ UNCHANGED vars
    BY <2>0, <2>2, <2>4 DEF LeaseRunsOut, LedgerStep, KeepWorld, vars, dvars, FilesTyped
  <2> QED BY <2>1, <2>2, <2>3, <2>4 DEF Next, PBSJobEnds
<1> QED BY <1>1, <1>2, MemoryParts

\* Tables, sidecars and memory hold what the code can put there, whatever
\* overlaps, crashes or is lost.
THEOREM SupervisorTypeCorrect == Spec => []TypeOK
<1>1. MemoryInv => TypeOK
  BY DEF MemoryInv
<1> QED BY <1>1, MemoryInit, MemoryStep, PTL DEF Spec

\* The processes keep to the segment table's methods, whatever overlaps, so all
\* that is proved of the table holds of every run of the loop.
THEOREM SupervisorsUseSegments == Spec => ImplementsSegments
<1>1. Spec => []MemoryInv
  BY MemoryInit, MemoryStep, PTL DEF Spec
<1>2. Init => SInit
  BY DEF Init
<1>3. MemoryInv /\ [Next]_vars => [SNext]_svars
  BY UsesSegments
<1> QED BY <1>1, <1>2, <1>3, PTL DEF Spec, ImplementsSegments, SSpec

-----------------------------------------------------------------------------
(* One process at a time *)

LEMMA LoneStep ==
    ASSUME MemoryInv, Lone, ~Overlap, [Next]_vars
    PROVE  Lone'
<1>1. ASSUME NEW p \in Procs, Start(p) \/ ProcStep(p) \/ StopLoop(p) \/ Crash(p) PROVE Lone'
  <2>1. OthersKeep(p)
    BY <1>1, ProcStepKinds, QuietMemory, SubmitMemory
  <2>2. CASE Start(p)
    BY <2>1, <2>2 DEF Start, Lone, OthersKeep
  <2>3. CASE ~Start(p)
    <3>1. sup[p].pc # "down"
      BY <1>1, <2>3 DEF ProcStep, StopLoop, Crash, Restore, Load, OpenSegment, SubmitSegment, WriteIntent, CallSubmit,
         PersistReceipt, SealIntent, Tick, Flush, FinishSegment, Leave, Reconcile
    <3> QED BY <2>1, <3>1 DEF Lone, OthersKeep
  <2> QED BY <2>2, <2>3
<1>2. CASE UNCHANGED sup
  BY <1>2 DEF Lone
<1> QED BY <1>1, <1>2 DEF Next, PBSJobEnds, LeaseRunsOut, LedgerStep, vars, dvars

\* While one process is up the others are down.
LEMMA OthersDown ==
    ASSUME Lone, NEW p \in Procs, sup[p].pc # "down", NEW q \in Procs \ {p}
    PROVE  sup[q].pc = "down"
BY DEF Lone

-----------------------------------------------------------------------------
(* A segment is submitted once *)

\* The others are down, so only the process itself has a submission to know of.
LEMMA SubmissionOthers ==
    ASSUME Lone, NEW p \in Procs, sup[p].pc # "down", OthersKeep(p),
           SidecarsTrue', SubmissionKnown(p)'
    PROVE  SubmissionInv'
<1>1. \A q \in Procs \ {p} : sup'[q].pc = "down"
  BY OthersDown DEF OthersKeep
<1>2. \A q \in Procs \ {p} : SubmissionKnown(q)'
  BY <1>1 DEF SubmissionKnown
<1> QED BY <1>2 DEF SubmissionInv

LEMMA SubmissionQuiet ==
    ASSUME MemoryInv, SubmissionInv, NEW p \in Procs, QuietStep(p)
    PROVE  SubmissionInv'
<1>1. OthersKeep(p) /\ KeepWorld /\ sup'[p].pc \notin Sending
  BY QuietMemory
<1>2. SidecarsTrue'
  BY <1>1 DEF SubmissionInv, SidecarsTrue, KeepWorld
<1>3. SubmissionKnown(p)'
  BY <1>1 DEF SubmissionKnown, Sending
<1>4. \A q \in Procs \ {p} : SubmissionKnown(q)'
  BY <1>1 DEF SubmissionInv, SubmissionKnown, OthersKeep, KeepWorld
<1> QED BY <1>2, <1>3, <1>4 DEF SubmissionInv

LEMMA SubmissionStep ==
    ASSUME MemoryInv, Lone, SubmissionInv, NEW p \in Procs, SubmitStep(p)
    PROVE  SubmissionInv'
<1>0. /\ SupTyped /\ FilesTyped /\ FilesTyped' /\ SidecarsTrue /\ SubmissionKnown(p)
      /\ sup[p].pc # "down" /\ OthersKeep(p) /\ sup'[p].active = sup[p].active
  BY MemoryParts, SubmitMemory, SubmitFiles
  DEF SubmissionInv, KeepsSegment, SubmitStep, SubmitSegment, WriteIntent, CallSubmit, PersistReceipt,
      SealIntent, Reconcile
<1> DEFINE a == sup[p].active
<1>1. SUFFICES SidecarsTrue' /\ SubmissionKnown(p)'
  BY <1>0, SubmissionOthers
<1>a. sup[p].pc \in Working => a \in SegmentNos
  BY DEF MemoryInv, ProcKnows
<1>2. CASE SubmitSegment(p)
  <2>1. UNCHANGED <<intent, receipt, pbs, qsubs>> /\ sup[p].pc = "submit" /\ a \in SegmentNos
    BY <1>2, <1>a DEF SubmitSegment, OnlySup, KeepWorld, Working
  <2>2. SidecarsTrue'
    BY <1>0, <2>1 DEF SidecarsTrue
  <2>3. CASE sup'[p].pc \in {"loop", "exit"}
    BY <2>2, <2>3 DEF SubmissionKnown
  <2>4. ASSUME receipt[a].status = "none",
               intent[a].status = "none" \/ intent[a].status = "submitted",
               sup'[p].pc = "intent"
        PROVE  SubmissionKnown(p)'
    BY <1>0, <2>1, <2>4 DEF SubmissionKnown, SidecarsTrue
  <2>5. ASSUME pbs[a] # "none", sup'[p].pc = "receipt"
        PROVE  SubmissionKnown(p)'
    BY <1>0, <2>1, <2>5 DEF SubmissionKnown
  <2> QED BY <1>0, <1>2, <2>2, <2>3, <2>4, <2>5, GotoMoves, StartedMoves, RaisesMoves DEF SubmitSegment, Moves, PC
<1>3. CASE WriteIntent(p)
  <2>1. /\ intent' = [intent EXCEPT ![a] = File(p, "submitting")]
        /\ UNCHANGED <<receipt, pbs, qsubs>>
        /\ sup[p].pc = "intent" /\ sup'[p].pc = "call" /\ a \in SegmentNos
    BY <1>0, <1>3, <1>a, GotoMoves DEF WriteIntent, Moves, PC, Working
  <2>2. File(p, "submitting").status = "submitting"
    BY DEF File
  <2>3. intent'[a].status = "submitting" /\ \A s \in SegmentNos \ {a} : intent'[s] = intent[s]
    BY <1>0, <2>1, <2>2 DEF FilesTyped
  <2>4. SidecarsTrue'
    BY <1>0, <2>1, <2>3 DEF SidecarsTrue
  <2>5. SubmissionKnown(p)'
    BY <1>0, <2>1, <2>3 DEF SubmissionKnown
  <2> QED BY <2>4, <2>5
<1>4. CASE CallSubmit(p)
  <2>1. /\ UNCHANGED <<intent, receipt>>
        /\ sup[p].pc = "call" /\ a \in SegmentNos
        /\ pbs[a] = "none" /\ intent[a].status # "none"
    BY <1>0, <1>4, <1>a DEF CallSubmit, Working, SubmissionKnown
  <2>2. qsubs[a] = 0 /\ receipt[a].status = "none"
    BY <1>0, <2>1 DEF SidecarsTrue
  <2>3. CASE UNCHANGED <<pbs, qsubs>> /\ sup'[p].pc = "loop"
    BY <1>0, <2>1, <2>3 DEF SidecarsTrue, SubmissionKnown
  <2>4. CASE /\ pbs' = [pbs EXCEPT ![a] = IF @ = "none" THEN "queued" ELSE @]
             /\ qsubs' = [qsubs EXCEPT ![a] = @ + 1]
             /\ sup'[p].pc \in {"receipt", "loop"}
    <3>1. /\ pbs'[a] = "queued" /\ qsubs'[a] = 1
          /\ \A s \in SegmentNos \ {a} : pbs'[s] = pbs[s] /\ qsubs'[s] = qsubs[s]
      BY <1>0, <2>1, <2>2, <2>4 DEF FilesTyped
    <3>2. SidecarsTrue'
      BY <1>0, <2>1, <2>2, <3>1 DEF SidecarsTrue
    <3>3. SubmissionKnown(p)'
      BY <1>0, <2>4, <3>1 DEF SubmissionKnown
    <3> QED BY <3>2, <3>3
  <2> QED BY <1>0, <1>4, <2>3, <2>4, GotoMoves, StartedMoves DEF CallSubmit, Moves, PC
<1>5. CASE PersistReceipt(p)
  <2>1. /\ receipt' = [receipt EXCEPT ![a] = File(p, ReceiptStatus(a))]
        /\ UNCHANGED <<intent, pbs, qsubs>>
        /\ sup[p].pc = "receipt" /\ sup'[p].pc = "seal" /\ a \in SegmentNos /\ pbs[a] # "none"
    BY <1>0, <1>5, <1>a, GotoMoves DEF PersistReceipt, Moves, PC, Working, SubmissionKnown
  <2>2. File(p, ReceiptStatus(a)).status # "none"
    BY <2>1 DEF File, ReceiptStatus
  <2>3. receipt'[a].status # "none" /\ \A s \in SegmentNos \ {a} : receipt'[s] = receipt[s]
    BY <1>0, <2>1, <2>2 DEF FilesTyped
  <2>4. SidecarsTrue'
    BY <1>0, <2>1, <2>3 DEF SidecarsTrue
  <2>5. SubmissionKnown(p)'
    BY <1>0, <2>1, <2>3 DEF SubmissionKnown
  <2> QED BY <2>4, <2>5
<1>6. CASE SealIntent(p)
  <2>1. /\ intent' = [intent EXCEPT ![a] = File(p, "submitted")]
        /\ UNCHANGED <<receipt, pbs, qsubs>>
        /\ sup'[p].pc = "loop" /\ a \in SegmentNos /\ receipt[a].status # "none"
    BY <1>0, <1>6, <1>a, StartedMoves DEF SealIntent, Moves, Working, SubmissionKnown
  <2>2. File(p, "submitted").status = "submitted"
    BY DEF File
  <2>3. intent'[a].status = "submitted" /\ \A s \in SegmentNos \ {a} : intent'[s] = intent[s]
    BY <1>0, <2>1, <2>2 DEF FilesTyped
  <2> QED BY <1>0, <2>1, <2>3 DEF SidecarsTrue, SubmissionKnown
<1>7. ASSUME NEW s \in SegmentNos, Reconcile(p, s) PROVE SidecarsTrue' /\ SubmissionKnown(p)'
  <2>1. /\ receipt' = [receipt EXCEPT ![s] = File(p, pbs[s])]
        /\ intent' = [intent EXCEPT ![s] = File(p, "submitted")]
        /\ pbs[s] = "ended" /\ sup'[p].pc = "loop" /\ UNCHANGED <<pbs, qsubs>>
    BY <1>0, <1>7 DEF Reconcile
  <2>2. File(p, "submitted").status = "submitted" /\ File(p, pbs[s]).status = "ended"
    BY <2>1 DEF File
  <2>3. /\ intent'[s].status = "submitted" /\ receipt'[s].status = "ended"
        /\ \A t \in SegmentNos \ {s} : intent'[t] = intent[t] /\ receipt'[t] = receipt[t]
    BY <1>0, <2>1, <2>2 DEF FilesTyped
  <2> QED BY <1>0, <2>1, <2>3 DEF SidecarsTrue, SubmissionKnown
<1> QED BY <1>2, <1>3, <1>4, <1>5, <1>6, <1>7 DEF SubmitStep

LEMMA SubmissionInvariant ==
    ASSUME MemoryInv, Lone, SubmissionInv, [Next]_vars
    PROVE  SubmissionInv'
<1>1. ASSUME NEW p \in Procs, Start(p) \/ ProcStep(p) \/ StopLoop(p) \/ Crash(p) PROVE SubmissionInv'
  BY <1>1, ProcStepKinds, SubmissionQuiet, SubmissionStep
<1>2. ASSUME NEW s \in SegmentNos, PBSJobEnds(s) PROVE SubmissionInv'
  <2>1. FilesTyped
    BY MemoryParts
  <2>2. \A t \in SegmentNos : pbs'[t] = "none" <=> pbs[t] = "none"
    BY <1>2, <2>1 DEF PBSJobEnds, FilesTyped
  <2>3. \A p \in Procs : sup[p].pc \in Working => sup[p].active \in SegmentNos
    BY DEF MemoryInv, ProcKnows
  <2> QED BY <1>2, <2>2, <2>3 DEF PBSJobEnds, SubmissionInv, SidecarsTrue, SubmissionKnown, Working
<1>3. CASE UNCHANGED dvars
  BY <1>3 DEF dvars, SubmissionInv, SidecarsTrue, SubmissionKnown
<1> QED BY <1>1, <1>2, <1>3 DEF Next, LeaseRunsOut, LedgerStep, KeepWorld, vars, dvars

-----------------------------------------------------------------------------
(* The chain of segments, and what a process knows of it *)

\* A process that is down, or that has not looked yet, claims nothing.
LEMMA NothingKnown ==
    ASSUME NEW p \in Procs, sup[p].active = 0, sup[p].pc \in {"down", "restore", "load", "exit"}
    PROVE  SegmentKnown(p)
BY DEF SegmentKnown

\* What a process knew stays true when neither its segment nor the table changes.
LEMMA KnownKept ==
    ASSUME NEW p \in Procs, SegmentKnown(p), Carries(p), KeepsSegment(p), UNCHANGED <<lease, segments>>,
           sup[p].pc \in {"down", "restore", "load", "exit"} =>
              sup'[p].pc \in {"down", "restore", "load", "exit"}
    PROVE  SegmentKnown(p)'
<1>1. OwnActive(p)' = OwnActive(p)
  BY DEF OwnActive, Active, OwnedBy, Carries
<1>2. HoldsLease(OwnerOf[p], sup[p].fence)' = HoldsLease(OwnerOf[p], sup[p].fence)
  BY DEF HoldsLease, Carries
<1>3. \A s \in SegmentNos : Exists(s)' = Exists(s)
  BY DEF Exists
<1> QED BY <1>1, <1>2, <1>3 DEF SegmentKnown, KeepsSegment, Exists

\* The others are down.
LEMMA SegmentOthers ==
    ASSUME MemoryInv', Lone', NEW p \in Procs, sup'[p].pc # "down",
           SegmentsWithoutGaps', ReceiptsOfSegments', SegmentKnown(p)'
    PROVE  SegmentInv'
<1>1. ASSUME NEW q \in Procs \ {p} PROVE SegmentKnown(q)'
  <2>1. sup'[q].pc = "down" /\ sup'[q].active = 0
    BY <1>1 DEF Lone, MemoryInv, ProcKnows
  <2> QED BY <2>1 DEF SegmentKnown
<1> QED BY <1>1 DEF SegmentInv

\* A process went down.
LEMMA SegmentDown ==
    ASSUME MemoryInv, Lone, SegmentInv, NEW p \in Procs, sup[p].pc # "down", OthersKeep(p), sup'[p] = Down,
           UNCHANGED <<segments, receipt>>
    PROVE  SegmentInv'
<1>1. ASSUME NEW q \in Procs PROVE SegmentKnown(q)'
  <2>1. sup'[q].pc = "down" /\ sup'[q].active = 0
    BY <1>1 DEF Lone, MemoryInv, ProcKnows, OthersKeep, Down
  <2> QED BY <2>1 DEF SegmentKnown
<1>2. SegmentsWithoutGaps' /\ ReceiptsOfSegments'
  BY DEF SegmentInv, SegmentsWithoutGaps, ReceiptsOfSegments, Exists
<1> QED BY <1>1, <1>2 DEF SegmentInv

\* A process changed its control state only.
LEMMA SegmentMoves ==
    ASSUME MemoryInv, MemoryInv', Lone', SegmentInv, NEW p \in Procs, NEW l \in PC \ {"down"}, Moves(p, l),
           UNCHANGED <<lease, segments, receipt>>,
           sup[p].pc \in {"restore", "load", "exit"} => l \in {"restore", "load", "exit"},
           sup[p].pc # "down"
    PROVE  SegmentInv'
<1>1. SegmentsWithoutGaps' /\ ReceiptsOfSegments'
  BY DEF SegmentInv, SegmentsWithoutGaps, ReceiptsOfSegments, Exists
<1>2. SegmentKnown(p)'
  BY KnownKept DEF SegmentInv, Moves
<1> QED BY <1>1, <1>2, SegmentOthers DEF Moves

\* The receipts a submission writes are of the process's own segment, or of one
\* that has a receipt.
LEMMA SegmentSubmit ==
    ASSUME MemoryInv, MemoryInv', Lone', SegmentInv, NEW p \in Procs, SubmitStep(p)
    PROVE  SegmentInv'
<1>0. FilesTyped /\ SupTyped
  BY MemoryParts
<1>1. /\ UNCHANGED <<lease, segments>> /\ Carries(p) /\ KeepsSegment(p)
      /\ sup[p].pc \notin {"down", "restore", "load", "exit"}
      /\ sup'[p].pc # "down"
  <2>1. sup'[p].pc # "down"
    BY <1>0, GotoMoves, StartedMoves, RaisesMoves
    DEF SubmitStep, SubmitSegment, WriteIntent, CallSubmit, PersistReceipt, SealIntent, Reconcile, Moves, PC
  <2> QED BY <2>1, SubmitMemory
          DEF svars, SubmitStep, SubmitSegment, WriteIntent, CallSubmit, PersistReceipt, SealIntent, Reconcile
<1>2. SegmentsWithoutGaps' /\ SegmentKnown(p)'
  BY <1>1, KnownKept DEF SegmentInv, SegmentsWithoutGaps, Exists
<1>3. ReceiptsOfSegments'
  <2>1. CASE PersistReceipt(p)
    <3>1. sup[p].active \in SegmentNos
      BY <2>1 DEF PersistReceipt, MemoryInv, ProcKnows, Working
    <3>2. Exists(sup[p].active)
      BY <3>1, SegmentAssumption DEF SegmentInv, SegmentKnown, SegmentNos
    <3> QED BY <1>0, <1>1, <2>1, <3>2 DEF PersistReceipt, SegmentInv, ReceiptsOfSegments, Exists, FilesTyped
  <2>2. ASSUME NEW s \in SegmentNos, Reconcile(p, s) PROVE ReceiptsOfSegments'
    BY <1>0, <1>1, <2>2 DEF Reconcile, SegmentInv, ReceiptsOfSegments, Exists, FilesTyped
  <2>3. CASE UNCHANGED receipt
    BY <1>1, <2>3 DEF SegmentInv, ReceiptsOfSegments, Exists
  <2> QED BY <2>1, <2>2, <2>3 DEF SubmitStep, SubmitSegment, WriteIntent, CallSubmit, SealIntent, OnlySup, KeepWorld
<1> QED BY <1>1, <1>2, <1>3, SegmentOthers

\* _load_submission_state: the numbers taken are those below the next one.
LEMMA SegmentLoad ==
    ASSUME MemoryInv, MemoryInv', Lone', SegmentInv, NEW p \in Procs, Load(p)
    PROVE  SegmentInv'
<1>1. sup[p].pc = "load" /\ UNCHANGED <<lease, segments, receipt>>
  BY LoadStep DEF OnlySup, KeepStore, KeepWorld, svars
<1>2. CASE Moves(p, "exit")
  BY <1>1, <1>2, SegmentMoves DEF PC
<1>3. CASE ~Moves(p, "exit")
  <2>1. /\ OthersKeep(p) /\ Carries(p) /\ sup'[p].pc = "open"
        /\ OwnActive(p) = {} => sup'[p].active = 0
        /\ OwnActive(p) # {} => sup'[p].active \in OwnActive(p)
        /\ sup'[p].next = NextSequence
    BY <1>3, LoadStep
  <2>2. SegmentsWithoutGaps' /\ ReceiptsOfSegments'
    BY <1>1 DEF SegmentInv, SegmentsWithoutGaps, ReceiptsOfSegments, Exists
  <2>3. ASSUME NEW s \in SegmentNos PROVE Exists(s) <=> s < NextSequence
    <3>1. Exists(s) => s < NextSequence
      BY SeenBound DEF Seen
    <3>2. ASSUME s < NextSequence PROVE Exists(s)
      <4>1. NextSequence \in Int /\ s \in Int /\ s >= 1
        BY SeenBound, SegmentAssumption DEF SegmentNos
      <4>2. NextSequence - 1 \in Seen
        BY <3>2, <4>1, SeenBound
      <4>3. NextSequence - 1 \in SegmentNos /\ Exists(NextSequence - 1)
        BY <4>2 DEF Seen, SegmentInv, ReceiptsOfSegments
      <4>4. CASE s = NextSequence - 1
        BY <4>3, <4>4
      <4>5. CASE s # NextSequence - 1
        <5>1. s \in 1..((NextSequence - 1) - 1)
          BY <3>2, <4>1, <4>5
        <5>2. segments[s].status \in Terminal
          BY <4>3, <5>1 DEF SegmentInv, SegmentsWithoutGaps
        <5> QED BY <5>2 DEF Exists, Terminal
      <4> QED BY <4>4, <4>5
    <3> QED BY <3>1, <3>2
  <2>4. OwnActive(p)' = OwnActive(p) /\ \A s \in OwnActive(p) : Exists(s) /\ s \in SegmentNos
    BY <1>1, <2>1 DEF OwnActive, Active, OwnedBy, Carries, Exists
  <2>5. SegmentKnown(p)'
    <3>1. sup'[p].active # 0 => sup'[p].active \in OwnActive(p)
      BY <2>1
    <3>2. \A s \in SegmentNos : Exists(s)' <=> s < sup'[p].next
      BY <1>1, <2>1, <2>3 DEF Exists
    <3>3. sup'[p].active # 0 => segments'[sup'[p].active].status # "none"
      BY <1>1, <2>4, <3>1 DEF Exists
    <3> QED BY <2>4, <3>1, <3>2, <3>3 DEF SegmentKnown, Exists
  <2> QED BY <2>1, <2>2, <2>5, SegmentOthers
<1> QED BY <1>2, <1>3

\* _open_segment: a new segment takes the next number when none is active.
LEMMA SegmentOpen ==
    ASSUME MemoryInv, MemoryInv', Lone', SegmentInv, NEW p \in Procs, OpenSegment(p)
    PROVE  SegmentInv'
<1>0. SupTyped /\ STypeOK /\ sup[p].pc = "open" /\ UNCHANGED <<lease, receipt>>
  BY MemoryParts DEF OpenSegment, OnlySup, KeepWorld, KeepStore, svars
<1>1. CASE UNCHANGED segments /\ (Goto(p, "submit") \/ Raises(p))
  BY <1>0, <1>1, GotoMoves, RaisesMoves, SegmentMoves DEF PC
<1> DEFINE n == sup[p].next
<1>2. ASSUME n \in SegmentNos, HoldsLease(OwnerOf[p], sup[p].fence)
      PROVE  ~Exists(n) /\ \A s \in SegmentNos : Exists(s) <=> s < n
  BY <1>0, <1>2 DEF SegmentInv, SegmentKnown, SegmentNos
<1>3. ASSUME n \in SegmentNos, BeginRunSegment(n, OwnerOf[p], sup[p].fence, sup[p].identity), Opened(p, n)
      PROVE  SegmentInv'
  <2>1. /\ HoldsLease(OwnerOf[p], sup[p].fence) /\ Active = {}
        /\ segments'[n] = [status |-> "running", owner |-> OwnerOf[p], fence |-> sup[p].fence,
                           identity |-> sup[p].identity]
        /\ \A s \in SegmentNos \ {n} : segments'[s] = segments[s]
    BY <1>0, <1>3 DEF BeginRunSegment, STypeOK
  <2>2. \A s \in SegmentNos : Exists(s) <=> s < n
    BY <1>2, <1>3, <2>1
  <2>3. /\ Carries(p) /\ sup'[p].pc = "submit" /\ sup'[p].active = n /\ sup'[p].next = n + 1
    BY <1>0, <1>3, OpenedStep
  <2>4. \A s \in SegmentNos : Exists(s)' <=> s < n + 1
    BY <1>3, <2>1, <2>2 DEF Exists, SegmentNos
  <2>5. \A s \in SegmentNos : s < n => segments'[s].status \in Terminal
    <3>1. \A s \in SegmentNos : segments[s].status \in {"none", "running"} \cup Terminal
      BY <1>0 DEF STypeOK, SegmentRow
    <3>2. \A s \in SegmentNos : s < n => segments[s].status # "none" /\ segments[s].status # "running"
      BY <2>1, <2>2 DEF Exists, Active
    <3>3. \A s \in SegmentNos : s < n => segments'[s] = segments[s]
      BY <1>3, <2>1 DEF SegmentNos
    <3> QED BY <3>1, <3>2, <3>3
  <2>6. SegmentsWithoutGaps'
    <3>1. ASSUME NEW s \in SegmentNos, Exists(s)', NEW t \in 1..(s - 1) PROVE segments'[t].status \in Terminal
      <4>1. s < n + 1
        BY <2>4, <3>1
      <4>2. t \in SegmentNos /\ t < n
        BY <1>3, <3>1, <4>1, SegmentAssumption DEF SegmentNos
      <4> QED BY <2>5, <4>2
    <3> QED BY <3>1 DEF SegmentsWithoutGaps
  <2>7. ReceiptsOfSegments'
    BY <1>0, <2>1 DEF SegmentInv, ReceiptsOfSegments, Exists
  <2>8. n \in OwnActive(p)'
    BY <1>3, <2>1, <2>3 DEF OwnActive, Active, OwnedBy, Carries
  <2>9. SegmentKnown(p)'
    <3>1. segments'[n].status # "none"
      BY <2>1
    <3> HIDE DEF n
    <3> QED BY <2>3, <2>4, <2>8, <3>1 DEF SegmentKnown, Exists
  <2> QED BY <2>3, <2>6, <2>7, <2>9, SegmentOthers
<1>4. ~(n \in SegmentNos /\ HoldsLease(OwnerOf[p], sup[p].fence) /\ Exists(n))
  BY <1>2
<1> QED BY <1>0, <1>1, <1>3, <1>4 DEF OpenSegment, Compatible, OnlySup, KeepStore, svars

\* Adoption and closing change a row in place.
LEMMA SegmentRestore ==
    ASSUME MemoryInv, MemoryInv', Lone', SegmentInv, NEW p \in Procs, Restore(p)
    PROVE  SegmentInv'
<1>0. SupTyped /\ STypeOK /\ sup[p].pc = "restore" /\ UNCHANGED <<lease, receipt>> /\ sup[p].active = 0
  BY MemoryParts DEF Restore, OnlySup, KeepWorld, KeepStore, svars, ProcKnows
<1>1. Moves(p, "load") \/ Moves(p, "exit")
  BY <1>0, GotoMoves DEF Restore, PC
<1>2. \A s \in SegmentNos : segments'[s].status = segments[s].status
  <2>1. ASSUME NEW s \in Active, AdoptRunSegment(s, OwnerOf[p], sup[p].fence, sup[p].identity),
               NEW t \in SegmentNos
        PROVE  segments'[t].status = segments[t].status
    BY <1>0, <2>1 DEF AdoptRunSegment, STypeOK, SegmentRow
  <2> QED BY <2>1 DEF Restore, OnlySup, KeepStore, svars
<1>3. SegmentsWithoutGaps' /\ ReceiptsOfSegments'
  <2>1. \A s \in SegmentNos : \A t \in 1..(s - 1) : t \in SegmentNos
    BY SegmentAssumption DEF SegmentNos
  <2> QED BY <1>0, <1>2, <2>1 DEF SegmentInv, SegmentsWithoutGaps, ReceiptsOfSegments, Exists
<1>4. SegmentKnown(p)'
  BY <1>0, <1>1 DEF Moves, KeepsSegment, SegmentKnown
<1> QED BY <1>1, <1>3, <1>4, SegmentOthers DEF Moves

LEMMA SegmentFinish ==
    ASSUME MemoryInv, MemoryInv', Lone', SegmentInv, NEW p \in Procs, FinishSegment(p)
    PROVE  SegmentInv'
<1>0. SupTyped /\ STypeOK /\ sup[p].pc = "finish" /\ UNCHANGED <<lease, receipt>>
  BY MemoryParts DEF FinishSegment, OnlySup, KeepWorld, KeepStore, svars
<1>1. CASE UNCHANGED segments /\ (Raises(p) \/ Goto(p, "exit"))
  BY <1>0, <1>1, GotoMoves, RaisesMoves, SegmentMoves DEF PC
<1>2. ASSUME sup' = [sup EXCEPT ![p].pc = IF sup[p].closing = "roll" THEN "open" ELSE "exit",
                               ![p].active = 0, ![p].closing = "none"],
             \A s \in SegmentNos :
                \/ segments'[s] = segments[s]
                \/ segments[s].status = "running" /\ segments'[s].status \in Terminal
      PROVE  SegmentInv'
  <2>1. /\ Carries(p) /\ sup'[p].pc \in {"open", "exit"} /\ sup'[p].active = 0
        /\ sup'[p].next = sup[p].next
    BY <1>0, <1>2, ClosedStep
  <2>2. \A s \in SegmentNos : Exists(s)' <=> Exists(s)
    BY <1>2 DEF Exists, Terminal
  <2>3. \A s \in SegmentNos : segments[s].status \in Terminal => segments'[s].status \in Terminal
    BY <1>2 DEF Terminal
  <2>4. \A s \in SegmentNos : \A t \in 1..(s - 1) : t \in SegmentNos
    BY SegmentAssumption DEF SegmentNos
  <2>5. SegmentsWithoutGaps' /\ ReceiptsOfSegments'
    BY <1>0, <2>2, <2>3, <2>4 DEF SegmentInv, SegmentsWithoutGaps, ReceiptsOfSegments
  <2>6. HoldsLease(OwnerOf[p], sup[p].fence)' = HoldsLease(OwnerOf[p], sup[p].fence)
    BY <1>0, <2>1 DEF HoldsLease, Carries
  <2>7. SegmentKnown(p)'
    BY <1>0, <2>1, <2>2, <2>6 DEF SegmentInv, SegmentKnown
  <2> QED BY <2>1, <2>5, <2>7, SegmentOthers
<1>3. ASSUME FinishRunSegment(sup[p].active, OwnerOf[p], sup[p].fence, ClosedAs(p))
      PROVE  \A s \in SegmentNos :
                \/ segments'[s] = segments[s]
                \/ segments[s].status = "running" /\ segments'[s].status \in Terminal
  BY <1>0, <1>3 DEF FinishRunSegment, ClosedAs, Terminal, Active, STypeOK, SegmentRow
<1> QED BY <1>0, <1>1, <1>2, <1>3 DEF FinishSegment, OnlySup, KeepStore, svars

LEMMA SegmentInvariant ==
    ASSUME MemoryInv, MemoryInv', Lone, Lone', SegmentInv, [Next]_vars
    PROVE  SegmentInv'
<1>0. SupTyped
  BY MemoryParts
<1>1. ASSUME NEW p \in Procs, QuietStep(p) PROVE SegmentInv'
  <2>1. CASE Start(p)
    <3>1. /\ UNCHANGED <<segments, receipt>>
          /\ sup'[p].pc = "restore" /\ sup'[p].active = 0
      BY <2>1, ComesUp DEF Start
    <3>2. SegmentsWithoutGaps' /\ ReceiptsOfSegments'
      BY <3>1 DEF SegmentInv, SegmentsWithoutGaps, ReceiptsOfSegments, Exists
    <3>3. SegmentKnown(p)'
      BY <3>1 DEF SegmentKnown
    <3> QED BY <3>1, <3>2, <3>3, SegmentOthers
  <2>2. CASE Leave(p) \/ Crash(p)
    BY <1>0, <2>2, GoesDown, SegmentDown DEF Leave, Crash, OnlySup, KeepWorld, KeepStore, svars
  <2>3. CASE Tick(p) \/ StopLoop(p)
    <3>1. sup[p].pc = "loop" /\ UNCHANGED <<lease, segments, receipt>>
      BY <2>3 DEF Tick, StopLoop, OnlySup, KeepWorld, KeepStore, svars
    <3>2. \E l \in {"open", "flush", "loop", "exit"} : Moves(p, l)
      BY <1>0, <2>3, GotoMoves, ClosingMoves, RaisesMoves DEF Tick, StopLoop, PC
    <3> QED BY <3>1, <3>2, SegmentMoves DEF PC
  <2>4. CASE Flush(p)
    <3>1. sup[p].pc = "flush" /\ UNCHANGED <<lease, segments, receipt>>
      BY <2>4 DEF Flush, OnlySup, KeepWorld, KeepStore, svars
    <3>2. Moves(p, "finish") \/ Moves(p, "exit")
      BY <1>0, <2>4, GotoMoves DEF Flush, PC
    <3> QED BY <3>1, <3>2, SegmentMoves DEF PC
  <2> QED BY <1>1, <2>1, <2>2, <2>3, <2>4, SegmentRestore, SegmentLoad, SegmentOpen, SegmentFinish DEF QuietStep
<1>2. ASSUME NEW p \in Procs, SubmitStep(p) PROVE SegmentInv'
  BY <1>2, SegmentSubmit
<1>3. CASE LeaseRunsOut
  <2>1. UNCHANGED <<segments, sup, receipt>> /\ ~lease'.open
    BY <1>3, MemoryParts DEF LeaseRunsOut, CloseLease, KeepWorld, STypeOK
  <2> QED BY <2>1 DEF SegmentInv, SegmentsWithoutGaps, ReceiptsOfSegments, SegmentKnown, HoldsLease, Exists
<1>4. CASE UNCHANGED <<lease, segments, sup, receipt>>
  <2>1. SegmentsWithoutGaps' /\ ReceiptsOfSegments'
    BY <1>4 DEF SegmentInv, SegmentsWithoutGaps, ReceiptsOfSegments, Exists
  <2>2. \A p \in Procs : SegmentKnown(p)'
    BY <1>4, KnownKept DEF SegmentInv, Carries, KeepsSegment
  <2> QED BY <2>1, <2>2 DEF SegmentInv
<1> QED BY <1>1, <1>2, <1>3, <1>4, ProcStepKinds DEF Next, PBSJobEnds, LedgerStep, KeepStore, KeepWorld, vars, svars, dvars

-----------------------------------------------------------------------------
(* Theorems *)

SupervisorInv == MemoryInv /\ Lone /\ SubmissionInv /\ SegmentInv

LEMMA SupervisorInit == Init => SupervisorInv
<1>1. SUFFICES ASSUME Init PROVE SupervisorInv
  OBVIOUS
<1>2. MemoryInv /\ Lone
  BY <1>1, MemoryInit DEF Init, Lone, Down
<1>3. SubmissionInv
  BY <1>1 DEF Init, SubmissionInv, SidecarsTrue, SubmissionKnown, NoFile, Down
<1>4. SegmentInv
  BY <1>1 DEF Init, SInit, SegmentInv, SegmentsWithoutGaps, ReceiptsOfSegments, SegmentKnown, Exists, NoSegment,
     NoFile, Down
<1> QED BY <1>2, <1>3, <1>4 DEF SupervisorInv

LEMMA SupervisorStep ==
    ASSUME SupervisorInv, ~Overlap, [Next]_vars
    PROVE  SupervisorInv'
<1>1. MemoryInv' /\ Lone'
  BY MemoryStep, LoneStep DEF SupervisorInv
<1>2. SubmissionInv' /\ SegmentInv'
  BY <1>1, SubmissionInvariant, SegmentInvariant DEF SupervisorInv
<1> QED BY <1>1, <1>2 DEF SupervisorInv

LEMMA SupervisorInvariant ==
    ASSUME ~Overlap
    PROVE  Spec => []SupervisorInv
<1>1. SupervisorInv /\ [Next]_vars => SupervisorInv'
  BY SupervisorStep
<1> QED BY <1>1, SupervisorInit, PTL DEF Spec

\* submit_segment: whatever crashes between the intent, the call and the receipt,
\* and whatever answer is lost, at most one submission of a segment reaches PBS,
\* and a receipt stands for one that did.
THEOREM SegmentsAreSubmittedOnce ==
    ASSUME ~Overlap
    PROVE  Spec => []SubmittedOnce
<1>1. SupervisorInv => SubmittedOnce
  BY DEF SupervisorInv, SubmissionInv, SidecarsTrue, SubmittedOnce
<1> QED BY <1>1, SupervisorInvariant, PTL

\* restore_run_state and _load_submission_state rebuild the truth after any
\* crash: segments are numbered without gaps and closed in order, and a process
\* that holds the lease has the running segment of its own fence and a next
\* number beyond all that was ever used.
THEOREM SupervisorsKnowTheirSegment ==
    ASSUME ~Overlap
    PROVE  Spec => []SupervisorKnowsSegment
<1>1. SupervisorInv => SupervisorKnowsSegment
  <2>1. SUFFICES ASSUME SupervisorInv, NEW p \in Procs, sup[p].active # 0,
                        HoldsLease(OwnerOf[p], sup[p].fence)
                 PROVE  /\ sup[p].active \in OwnActive(p)
                        /\ sup[p].next > Max(Seen)
    BY DEF SupervisorInv, SegmentInv, SupervisorKnowsSegment
  <2>2. /\ sup[p].active \in OwnActive(p)
        /\ \A s \in SegmentNos : Exists(s) <=> s < sup[p].next
    BY <2>1 DEF SupervisorInv, SegmentInv, SegmentKnown
  <2>3. sup[p].active \in Seen
    BY <2>2 DEF OwnActive, Active, Seen, Exists
  <2>4. Seen \in SUBSET (0..MaxSequence) /\ MaxSequence \in Nat
    BY SegmentAssumption DEF Seen, SegmentNos
  <2>5. Max(Seen) \in Seen
    BY <2>3, <2>4, LargestIsOne
  <2>6. \A s \in Seen : s \in SegmentNos /\ Exists(s)
    BY <2>1 DEF SupervisorInv, SegmentInv, ReceiptsOfSegments, Seen
  <2>7. Max(Seen) < sup[p].next
    BY <2>2, <2>5, <2>6
  <2>8. sup[p].next \in Int /\ Max(Seen) \in Int
    <3>1. sup[p] \in Sups
      BY <2>1, MemoryParts DEF SupervisorInv, SupTyped
    <3>2. sup[p].next \in 1..(MaxSequence + 1)
      BY <3>1 DEF Sups
    <3>3. sup[p].next \in Int
      BY <2>4, <3>2
    <3>4. \A x \in Seen : x \in Int
      BY <2>4
    <3> QED BY <2>5, <3>3, <3>4
  <2> QED BY <2>2, <2>7, <2>8
<1> QED BY <1>1, SupervisorInvariant, PTL
=============================================================================
