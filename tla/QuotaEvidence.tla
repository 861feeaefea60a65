---------------------------- MODULE QuotaEvidence ----------------------------
(***************************************************************************)
(* What is concluded from reports about one shared pool                     *)
(* (src/src/local_agent_dispatch/quota/evidence.py): records of a console    *)
(* snapshot, of the usage endpoint and of runtime failures are combined      *)
(* into a decision for the next lanes; receipts bound what was spent; and    *)
(* the snapshots around an attempt become its row in the evidence ledger     *)
(* (src/scripts/attempt_evidence_ledger.py).                                 *)
(*                                                                          *)
(* The provider's own account is kept beside the reports, so that a          *)
(* conclusion can be compared with the truth.  Balances are counted in units *)
(* of the smallest percentage that matters.                                  *)
(***************************************************************************)
EXTENDS Integers, Sequences, FiniteSets, FiniteSetsExt

CONSTANTS
    QuotaWindows,   \* quota windows, 1 ends first by the providers' contract
    WindowLength,   \* how long each is
    Cap,            \* its full balance
    Reserved,       \* --reserve-percent
    ApiTTL,         \* USAGE_API_TTL_SECONDS
    ConsoleTTL,     \* CONSOLE_TTL_SECONDS
    RuntimeTTL,     \* RUNTIME_EVENT_TTL_SECONDS
    Attempts,       \* attempts whose evidence is recorded
    Reports,        \* what a report says of each window: good, missing or malformed
    LastHour        \* bound on the clock

\* The first window is the one receipts and attempts are counted in; windows
\* have a length, and an answer of the endpoint is not too old when it comes.
ASSUME EvidenceAssumption ==
    /\ 1 \in QuotaWindows
    /\ WindowLength \in [QuotaWindows -> Nat \ {0}]
    /\ Cap \in Nat /\ Reserved \in Nat /\ ApiTTL \in Nat
    /\ Reports \subseteq [QuotaWindows -> {"good", "missing", "malformed"}]

Unreported == -1
NoSample == [at |-> Unreported, left |-> Unreported, reset |-> Unreported, spent |-> 0]

VARIABLES
    hour,       \* UTC
    account,    \* the provider's account of each window, and all that was spent
    console,    \* the console snapshot somebody saved
    samples,    \* the snapshot taken before an attempt
    receipts,   \* the receipts of the first window: sums of their bounds, all known?
    evidence    \* rows of the attempt evidence ledger

evidenceVars == <<hour, account, console, samples, receipts, evidence>>

-----------------------------------------------------------------------------
(* Records *)

MakeRecord(source, w, entry) ==
    [source |-> source, window |-> w, at |-> hour,
     percent |-> IF entry = "good" THEN account.left[w] ELSE Unreported,
     reset |-> IF entry = "missing" THEN Unreported ELSE account.ends[w],
     discrepancy |-> entry = "malformed"]

\* A console whose windows do not end in their order is taken for an error.
MisorderedWindows(records) ==
    {r \in records : \E s \in records :
        /\ r.reset # Unreported /\ s.reset # Unreported
        /\ \/ s.window = r.window + 1 /\ r.reset > s.reset
           \/ r.window = s.window + 1 /\ s.reset > r.reset}
ConsoleRecords(entries) ==
    LET records == {MakeRecord("console", w, entries[w]) : w \in QuotaWindows}
    IN  {[r EXCEPT !.discrepancy = @ \/ r \in MisorderedWindows(records)] : r \in records}
ApiRecords(entries) == {MakeRecord("api", w, entries[w]) : w \in QuotaWindows}

\* classify_runtime_failure: a text may name the window it is about and when to
\* come back, which hints at the short window; it never tells a balance.  A
\* capability stands for the kinds whose text names no window.
RuntimeFailure(kind, named, wait) ==
    [source |-> "runtime_error", at |-> hour, percent |-> Unreported, discrepancy |-> FALSE,
     window |-> IF kind \in {"rate_limit", "quota"} /\ named # Unreported THEN named
                ELSE IF wait # Unreported THEN 1 ELSE Unreported,
     reset |-> IF wait = Unreported THEN Unreported ELSE hour + wait]
RuntimeFailures ==
    {RuntimeFailure(kind, named, wait) : kind \in {"quota", "capability"},
        named \in QuotaWindows \cup {Unreported}, wait \in {Unreported, 1}}
FailureTexts == {{}} \cup {{f} : f \in RuntimeFailures}     \* --failure-text, or none

Stale(r) ==
    r.at + (CASE r.source = "api" -> ApiTTL
              [] r.source = "console" -> ConsoleTTL
              [] r.source = "runtime_error" -> RuntimeTTL) < hour
Exact(r) == r.percent # Unreported /\ ~r.discrepancy
Numbers(records) == {r \in records : Exact(r) /\ ~Stale(r)}

\* effective_remaining_percent: the lowest fresh number of any window binds.
LowestPercent(percents) == Min(percents)

PilotDecision(records, pilotPolicy) ==
    LET percents == {r.percent : r \in Numbers(records)}
        known == percents # {}
        blocked == 0 \in percents
    IN  [ready |-> known /\ ~blocked /\ LowestPercent(percents) > Reserved,
         blocked |-> blocked,
         pilot |-> IF blocked THEN FALSE ELSE IF known THEN LowestPercent(percents) > 0 ELSE pilotPolicy]

\* main of the snapshot script: what the endpoint says now, the console file and
\* the text of a failure, if they are given.
ImportedRecords(entries, given, failures) ==
    ApiRecords(entries) \cup (IF given THEN console ELSE {}) \cup failures
\* build_bundle
Bundle(records, pilotPolicy) == PilotDecision(records, pilotPolicy)

-----------------------------------------------------------------------------
(* Receipts *)

NoReceipts == [min |-> 0, max |-> 0, known |-> TRUE, any |-> FALSE]
Floor0(n) == IF n < 0 THEN 0 ELSE n

\* spend_bounds: nothing follows from no receipts, nor from an unknown cost.
RemainingBounds ==
    IF ~receipts.any \/ ~receipts.known THEN [lower |-> Unreported, upper |-> Unreported]
    ELSE [lower |-> Floor0(Cap - receipts.max), upper |-> Floor0(Cap - receipts.min)]

-----------------------------------------------------------------------------
(* Attempt evidence *)

\* sanitize_quota_snapshot of the first window; a provider may not tell the reset.
SampleNow(tellsReset) ==
    [at |-> hour, left |-> account.left[1],
     reset |-> IF tellsReset THEN account.ends[1] ELSE Unreported, spent |-> account.spent]

\* quota_delta: known only inside one fresh window.
MutComparable(before, after) ==                  \* mutant: the reset is not looked at
    before # NoSample /\ after.at - before.at <= ConsoleTTL
Comparable(before, after) ==
    /\ before # NoSample
    /\ after.at - before.at <= ConsoleTTL
    /\ before.reset # Unreported /\ after.reset # Unreported => before.reset = after.reset
    /\ LET reset == IF after.reset # Unreported THEN after.reset ELSE before.reset
       IN  reset # Unreported => after.at < reset
Delta(before, after) ==
    IF Comparable(before, after) THEN before.left - after.left ELSE Unreported

-----------------------------------------------------------------------------
(* Actions *)

EvidenceInit ==
    /\ hour = 0
    /\ account = [left |-> [w \in QuotaWindows |-> Cap], ends |-> WindowLength, spent |-> 0]
    /\ console = {}
    /\ samples = [a \in Attempts |-> NoSample]
    /\ receipts = NoReceipts
    /\ evidence = {}

\* Some lane spends from the shared pool; its receipt tells the cost, its
\* bounds, or nothing.
SpendUnit(slack) ==
    /\ \A w \in QuotaWindows : account.left[w] > 0
    /\ account' = [account EXCEPT !.left = [w \in QuotaWindows |-> @[w] - 1], !.spent = @ + 1]
    /\ receipts' = [min |-> receipts.min + 1 - slack, max |-> receipts.max + 1 + slack,
                    known |-> receipts.known /\ slack # Unreported, any |-> TRUE]
    /\ UNCHANGED <<hour, console, samples, evidence>>

SaveConsole(entries) ==
    /\ console' = ConsoleRecords(entries)
    /\ UNCHANGED <<hour, account, samples, receipts, evidence>>

StartAttempt(a, tellsReset) ==
    /\ samples[a] = NoSample
    /\ samples' = [samples EXCEPT ![a] = SampleNow(tellsReset)]
    /\ UNCHANGED <<hour, account, console, receipts, evidence>>

\* append_record: an identical row is a duplicate, another one of the same
\* attempt a conflict.
RecordEvidence(a, tellsReset) ==
    /\ ~\E row \in evidence : row.attempt = a
    /\ LET after == SampleNow(tellsReset)
       IN  evidence' = evidence \cup
              {[attempt |-> a, delta |-> Delta(samples[a], after),
                spent |-> after.spent - samples[a].spent,
                dated |-> samples[a].reset # Unreported]}
    /\ UNCHANGED <<hour, account, console, samples, receipts>>

\* QuotaWindows that end are filled up again.
HourPasses ==
    /\ hour < LastHour
    /\ hour' = hour + 1
    /\ LET over == {w \in QuotaWindows : account.ends[w] = hour'}
       IN  /\ account' = [account EXCEPT
                 !.left = [w \in QuotaWindows |-> IF w \in over THEN Cap ELSE @[w]],
                 !.ends = [w \in QuotaWindows |-> IF w \in over THEN hour' + WindowLength[w] ELSE @[w]]]
           /\ receipts' = IF 1 \in over THEN NoReceipts ELSE receipts
    /\ UNCHANGED <<console, samples, evidence>>

EvidenceNext ==
    \/ \E slack \in {Unreported, 1} : SpendUnit(slack)
    \/ \E entries \in Reports : SaveConsole(entries)
    \/ \E a \in Attempts, tellsReset \in BOOLEAN :
          StartAttempt(a, tellsReset) \/ RecordEvidence(a, tellsReset)
    \/ HourPasses

EvidenceSpec == EvidenceInit /\ [][EvidenceNext]_evidenceVars

-----------------------------------------------------------------------------
(* Properties *)

\* Nothing is concluded that the provider's account contradicts.  A bundle that
\* asks the endpoint claims to be ready, or lets a lane start on a balance that
\* is known, only if the windows it got an answer for have more than the reserve,
\* or something, left, whatever an older console or the text of a failure says
\* beside it (pilot_decision);
\* the truth lies within the bounds drawn from the receipts of a window
\* (spend_bounds); and the consumption recorded for an attempt whose first
\* snapshot told its reset is what was spent meanwhile (quota_delta).
EvidenceIsTrue ==
    /\ \A entries \in Reports, given \in BOOLEAN, failures \in FailureTexts :
          LET decision == Bundle(ImportedRecords(entries, given, failures), TRUE)
          IN  \A w \in QuotaWindows : entries[w] = "good" =>
                 /\ decision.ready => account.left[w] > Reserved
                 /\ decision.pilot => account.left[w] > 0
    /\ RemainingBounds.lower # Unreported =>
          account.left[1] \in RemainingBounds.lower..RemainingBounds.upper
    /\ \A row \in evidence : row.delta # Unreported /\ row.dated => row.delta = row.spent
=============================================================================
