-------------------------- MODULE ProvenanceLedger --------------------------
(***************************************************************************)
(* The causal event ledger of one attempt: the in-memory EventStore with    *)
(* its JSONL file (local_agent_dispatch/ledger/store.py), whose append      *)
(* rules sqlite_store.py repeats inside a transaction for its own table     *)
(* provenance_events, the reconciler that closes stale attempts, and the    *)
(* lifecycle projected from the chain (domain/lifecycle.py).                *)
(*                                                                          *)
(* A promoter reads the chain, prepares a claim naming the review it rests  *)
(* on, and appends it later; the other writers append events of their own   *)
(* meanwhile.  An event_id and an idempotency key name the same event, so   *)
(* the two duplicate checks are one; a parent is given by its place in the  *)
(* chain, and only a promotion's matters.  Field formats, digests and the   *)
(* refusal of secret keys (validate_event, _reject_secrets) are part of     *)
(* which events are offered.                                                *)
(***************************************************************************)
EXTENDS Integers, Sequences, FiniteSetsExt

CONSTANTS
    WrittenKinds,   \* the <<event type, outcome or decision>> writers append
    MaxEvents,      \* bound: events of the attempt
    MaxLines        \* bound: lines of the file

\* A promotion is appended as a claim that names its review.
ASSUME LedgerAssumption == \A kind \in WrittenKinds : kind[1] # "promoted"

VARIABLES
    memory,         \* _events: the chain, in append order
    file,           \* lines of the JSONL file
    claim           \* the promotion prepared and not yet settled

ledgerVars == <<memory, file, claim>>

NoEvent == [type |-> "none", mark |-> "none", parent |-> 0, id |-> 0]
TerminalTypes == {"completed", "failed", "abandoned", "review", "promoted"}

LedgerInit ==
    /\ memory = <<>>
    /\ file = <<>>
    /\ claim = NoEvent

-----------------------------------------------------------------------------
(* The append rules *)

\* The places of a chain that hold events of a type, and the last of them.
OfType(chain, type) == {i \in DOMAIN chain : chain[i].type = type}
Latest(chain, type) == IF OfType(chain, type) = {} THEN 0 ELSE Max(OfType(chain, type))
LatestReview(chain) == Latest(chain, "review")
LatestMark(chain, type) ==
    IF OfType(chain, type) = {} THEN "none" ELSE chain[Latest(chain, type)].mark

\* _validate_claim_promotion.
MutPromotable(chain, e) ==                \* mutant: any approval and any passing check will do
    /\ OfType(chain, "completed") # {}
    /\ \E i \in DOMAIN chain : chain[i].type = "validation" /\ chain[i].mark = "passed"
    /\ \E i \in DOMAIN chain : chain[i].type = "review" /\ chain[i].mark = "approve"
                               /\ i = e.parent
Promotable(chain, e) ==
    /\ OfType(chain, "completed") # {}
    /\ LatestMark(chain, "validation") = "passed"
    /\ LatestMark(chain, "review") = "approve"
    /\ e.parent = LatestReview(chain)

Known(chain, e) == \E i \in DOMAIN chain : chain[i] = e

\* append: the same event again is no event; an orphan and an unbacked promotion
\* raise.
Accepts(chain, e) ==
    CASE Known(chain, e) -> "duplicate"
      [] ~Known(chain, e) /\ e.parent \notin 0..Len(chain) -> "raise"
      [] ~Known(chain, e) /\ e.type = "promoted" /\ ~Promotable(chain, e) -> "raise"
      [] OTHER -> "append"

\* What EventStore(path) holds after it appended every line of a file.
Unreadable == <<NoEvent>>
Extended(chain, e) ==
    CASE chain = Unreadable -> Unreadable
      [] chain # Unreadable /\ Accepts(chain, e) = "append" -> Append(chain, e)
      [] chain # Unreadable /\ Accepts(chain, e) = "duplicate" -> chain
      [] OTHER -> Unreadable
Replay(lines) ==
    LET read[n \in 0..Len(lines)] ==
            IF n = 0 THEN <<>> ELSE Extended(read[n - 1], lines[n])
    IN  read[Len(lines)]

Record(e) == memory' = Append(memory, e) /\ file' = Append(file, e)

-----------------------------------------------------------------------------
(* Writers *)

\* A controller, a validator or a reviewer appends an event of its own.
Write(kind) ==
    /\ Len(memory) < MaxEvents /\ Len(file) < MaxLines
    /\ Record([type |-> kind[1], mark |-> kind[2], parent |-> Len(memory),
               id |-> Len(memory) + 1])
    /\ UNCHANGED claim

\* LivenessReconciler.reconcile, over an attempt silent for the stale interval
\* whose process is not known to live: abandoned if it is known to be dead,
\* escalated to review if nothing is known.
ReconcileAttempt(dead) ==
    /\ memory # <<>>
    /\ \A i \in DOMAIN memory : memory[i].type \notin TerminalTypes
    /\ Write(IF dead THEN <<"abandoned", "none">> ELSE <<"review", "escalate">>)

\* A promoter reads the chain and names the latest review as the parent.
PrepareClaim ==
    /\ claim = NoEvent
    /\ LatestReview(memory) # 0
    /\ Len(memory) < MaxEvents
    /\ claim' = [type |-> "promoted", mark |-> "approve", parent |-> LatestReview(memory),
                 id |-> -LatestReview(memory)]
    /\ UNCHANGED <<memory, file>>

\* append of the claim; when the answer is lost the promoter appends it again.
AppendClaim(answered) ==
    /\ claim # NoEvent
    /\ Len(file) < MaxLines
    /\ IF Accepts(memory, claim) = "append"
       THEN Record(claim) ELSE UNCHANGED <<memory, file>>
    /\ claim' = IF answered THEN NoEvent ELSE claim

\* A new process opens the store: every line read is appended to the chain, and
\* so, the path being set already, written to the file again.
Reopen ==
    /\ Len(file) + Len(Replay(file)) <= MaxLines
    /\ memory' = Replay(file)
    /\ file' = file \o Replay(file)
    /\ UNCHANGED claim

LedgerNext ==
    \/ \E kind \in WrittenKinds : Write(kind)
    \/ \E dead \in BOOLEAN : ReconcileAttempt(dead)
    \/ PrepareClaim
    \/ \E answered \in BOOLEAN : AppendClaim(answered)
    \/ Reopen

LedgerSpec == LedgerInit /\ [][LedgerNext]_ledgerVars

-----------------------------------------------------------------------------
\* project_lifecycle over the event chain.
Lifecycle(chain) ==
    [completed |-> OfType(chain, "completed") # {},
     validated |-> OfType(chain, "completed") # {} /\ LatestMark(chain, "validation") = "passed",
     review |-> LatestMark(chain, "review"),
     promoted |-> OfType(chain, "promoted") # {}]

\* A claim becomes promoted only in a state in which the attempt is completed
\* and validated and its latest review approves, whatever the other authors
\* appended since the promoter read the chain (claim.promoted, "completion and
\* validation are evidence states, not a public claim").
PromotionBacked ==
    [][~Lifecycle(memory).promoted /\ Lifecycle(memory').promoted =>
         Lifecycle(memory).validated /\ Lifecycle(memory).review = "approve"]_ledgerVars
=============================================================================
