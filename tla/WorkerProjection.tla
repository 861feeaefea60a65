--------------------------- MODULE WorkerProjection ---------------------------
(***************************************************************************)
(* What the controller believes of one worker                               *)
(* (src/local_agent_dispatch/worker/state.py): the latest accepted          *)
(* registration, snapshots, heartbeat and execution handles, and the keys   *)
(* and handle identities it must remember.  Messages arrive late, twice or  *)
(* out of order and may contradict one another, so any message of the       *)
(* contracts (api/contracts.py) may arrive at any time; a refused one       *)
(* raises and changes nothing.                                              *)
(***************************************************************************)
EXTENDS Naturals, FiniteSets, FiniteSetsExt

CONSTANTS
    Handles,        \* execution handle ids
    Processes,      \* process ids
    NoProcess,      \* an execution that has none yet
    MessageKeys,    \* idempotency keys
    Nobody,         \* no registration, message or binding
    MaxFenceToken,  \* bound: fence tokens of a worker
    MaxSeq,         \* bound: sequence numbers of a stream
    MaxRemembered   \* bound: keys remembered at one time

Telemetry == {"capability", "resource", "heartbeat"}
Fences == 1..MaxFenceToken
Terminal == {"exited", "failed", "cancelled", "lost"}

\* _EXECUTION_TRANSITIONS
Successors(state) ==
    CASE state \in Terminal -> {state}
      [] state = "unknown" -> {"unknown", "accepted", "running"} \cup Terminal
      [] state = "accepted" -> {"unknown", "accepted", "running"} \cup (Terminal \ {"exited"})
      [] state = "running" -> {"unknown", "running"} \cup Terminal

VARIABLES
    fenceToken,     \* registration.fence_token, 0 before the first
    latest,         \* capability_snapshot, resource_snapshot, heartbeat
    handles,        \* execution_handles
    bound,          \* _execution_identities: outlive a generation
    seenKeys        \* the keys of _idempotency_payloads, per stream

projectionVars == <<fenceToken, latest, handles, bound, seenKeys>>

KeyedStreams == {"registration"} \cup Telemetry \cup Handles

-----------------------------------------------------------------------------
(* Guards shared by the apply methods *)

FirstUse(stream, key) ==
    /\ key \notin seenKeys[stream]
    /\ MapThenSumSet(LAMBDA s : Cardinality(seenKeys[s]), KeyedStreams) < MaxRemembered
Forward(message, current) == current # Nobody => message.sequence > current.sequence
Current(message) == fenceToken # 0 /\ message.fence = fenceToken
Remember(stream, message) ==
    seenKeys' = [seenKeys EXCEPT ![stream] = @ \cup {message.key}]

-----------------------------------------------------------------------------
(* Actions: an exact retry and a refused message change nothing *)

\* apply_registration: a higher fence is a new generation, which forgets all
\* but the registrations and the identities of handles.
MutNewGeneration ==                \* mutant: handles survive a new fence
    /\ latest' = [s \in Telemetry |-> Nobody]
    /\ UNCHANGED handles
NewGeneration ==
    /\ latest' = [s \in Telemetry |-> Nobody]
    /\ handles' = [h \in Handles |-> Nobody]
Register(key, fence) ==
    /\ fence > fenceToken
    /\ FirstUse("registration", key)
    /\ fenceToken' = fence
    /\ NewGeneration
    /\ seenKeys' = [s \in KeyedStreams |->
          IF s = "registration" THEN seenKeys[s] \cup {key} ELSE {}]
    /\ UNCHANGED bound

\* apply_capability_snapshot, apply_resource_snapshot, apply_heartbeat
ApplyTelemetry(stream, message) ==
    /\ Current(message)
    /\ FirstUse(stream, message.key)
    /\ Forward(message, latest[stream])
    /\ latest' = [latest EXCEPT ![stream] = message]
    /\ Remember(stream, message)
    /\ UNCHANGED <<fenceToken, handles, bound>>

Identity(message) == <<message.fence, message.process>>

\* apply_execution_handle
ApplyHandle(h, message) ==
    /\ Current(message)
    /\ message.state = "running" => message.process # NoProcess
    /\ FirstUse(h, message.key)
    /\ bound[h] \in {Nobody, Identity(message)}
    /\ Forward(message, handles[h])
    /\ handles[h] # Nobody => message.state \in Successors(handles[h].state)
    /\ bound' = [bound EXCEPT ![h] = Identity(message)]
    /\ handles' = [handles EXCEPT ![h] = message]
    /\ Remember(h, message)
    /\ UNCHANGED <<fenceToken, latest>>

\* The messages of api/contracts.py, by the fields the projection reads.
Registrations == [fence : Fences, key : MessageKeys]
SnapshotMessages == [fence : Fences, sequence : 1..MaxSeq, key : MessageKeys]
CapabilityMessages == SnapshotMessages      \* the same fields
HandleMessages == [fence : Fences, sequence : 1..MaxSeq, key : MessageKeys,
                   process : Processes \cup {NoProcess},
                   state : {"unknown", "accepted", "running"} \cup Terminal]

\* reconcile_usage(): what a heartbeat's reserved and actual usage amount to;
\* a dimension known on one side only leaves it unknown.
Usages == {"within", "exceeded", "unknown"}
HeartbeatMessages == [fence : Fences, sequence : 1..MaxSeq, key : MessageKeys,
               state : {"ready", "busy"}, seen : {1, MaxSeq}, usage : Usages]

Messages == SnapshotMessages \cup HeartbeatMessages \cup HandleMessages

\* None in the code: what stands for the absence of a message is not one.
ASSUME ProjectionAssumption == Nobody \notin Messages

ProjectionInit ==
    /\ fenceToken = 0
    /\ latest = [s \in Telemetry |-> Nobody]
    /\ handles = [h \in Handles |-> Nobody]
    /\ bound = [h \in Handles |-> Nobody]
    /\ seenKeys = [s \in KeyedStreams |-> {}]

ProjectionNext ==
    \/ \E message \in Registrations : Register(message.key, message.fence)
    \/ \E message \in CapabilityMessages : ApplyTelemetry("capability", message)
    \/ \E message \in SnapshotMessages : ApplyTelemetry("resource", message)
    \/ \E message \in HeartbeatMessages : ApplyTelemetry("heartbeat", message)
    \/ \E h \in Handles, message \in HandleMessages : ApplyHandle(h, message)

ProjectionSpec == ProjectionInit /\ [][ProjectionNext]_projectionVars

-----------------------------------------------------------------------------
(* What callers are told, when the messages in `fresh` are within their TTL *)

WorkerStatus(fresh) ==
    IF fenceToken = 0 \/ latest["heartbeat"] = Nobody THEN "unknown"
    ELSE IF "heartbeat" \in fresh THEN latest["heartbeat"].state ELSE "lost"

ExecutionStatus(h, fresh) ==
    IF handles[h] = Nobody THEN "unknown"
    ELSE IF handles[h].state \in {"accepted", "running"} /\ h \notin fresh THEN "lost"
    ELSE handles[h].state

\* The heartbeat must vouch for the very snapshots that are held.
AdmissionStatus(fresh) ==
    LET beat == latest["heartbeat"]
        correlated == \A s \in {"capability", "resource"} :
            latest[s] # Nobody /\ s \in fresh /\ latest[s].sequence = beat.seen
    IN  IF WorkerStatus(fresh) # "ready" THEN WorkerStatus(fresh)
        ELSE IF ~correlated THEN "unknown"
        ELSE CASE beat.usage = "exceeded" -> "blocked"
               [] beat.usage = "unknown" -> "unknown"
               [] beat.usage = "within" -> "ready"

-----------------------------------------------------------------------------
(* Properties *)

\* Whatever arrives late, twice or out of order, the picture of a worker only
\* moves forward: a stream goes back to nothing only with a new generation and
\* otherwise to a later message of this one; an end that was reported to callers
\* is never taken back within a generation, only the "lost" derived from silence
\* is; admission needs all three streams; and a handle id means one execution for ever, so that no later
\* generation can take it over (WorkerState.apply_registration,
\* apply_execution_handle).
ProjectionMovesForward ==
    [][/\ fenceToken' >= fenceToken
       /\ \A s \in Telemetry :
             \/ latest'[s] = latest[s]
             \/ fenceToken' > fenceToken /\ latest'[s] = Nobody
             \/ /\ latest'[s].fence = fenceToken'
                /\ latest[s] # Nobody => latest'[s].sequence > latest[s].sequence
       /\ AdmissionStatus(Telemetry)' = "ready" =>
             \A s \in Telemetry : latest'[s] # Nobody
       /\ \A h \in Handles :
             /\ handles'[h] # Nobody => handles'[h].fence = fenceToken'
             /\ handles[h] # Nobody /\ fenceToken' = fenceToken =>
                   /\ handles'[h] # Nobody /\ handles'[h].sequence >= handles[h].sequence
                   /\ \A before, after \in SUBSET {h} :
                         ExecutionStatus(h, before) \in Terminal \ {"lost"} =>
                            ExecutionStatus(h, after)' = ExecutionStatus(h, before)
             /\ bound[h] # Nobody => bound'[h] = bound[h]
             /\ handles'[h] # Nobody => bound'[h] = <<handles'[h].fence, handles'[h].process>>]_projectionVars
=============================================================================
