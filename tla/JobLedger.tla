------------------------------ MODULE JobLedger ------------------------------
(***************************************************************************)
(* What the dispatch ledger promises, without leases, clocks, attempts or   *)
(* reservations: controllers come in epochs; a job is worked on by at most  *)
(* one epoch at a time; its result is recorded only by that epoch and only  *)
(* while it is the newest one; a job taken away from its holder is never    *)
(* thereby done; what is done stays done.                                   *)
(***************************************************************************)
EXTENDS Naturals

CONSTANT Jobs

VARIABLES
    epoch,      \* the newest controller epoch
    phase,      \* where a job stands
    holder,     \* the epoch that works on a job, 0 when none does
    runs        \* how often work on a job was begun

ledgerVars == <<epoch, phase, holder, runs>>

Parked == {"parked", "done"}
Phases == {"absent", "open", "held"} \cup Parked

LedgerInit ==
    /\ epoch = 0
    /\ phase = [j \in Jobs |-> "absent"]
    /\ holder = [j \in Jobs |-> 0]
    /\ runs = [j \in Jobs |-> 0]

Elect ==
    /\ epoch' = epoch + 1
    /\ UNCHANGED <<phase, holder, runs>>

\* A job arrives, to be worked on or (from an older ledger) with its result.
Submit(j) ==
    /\ phase[j] = "absent"
    /\ \E to \in {"open"} \cup Parked : phase' = [phase EXCEPT ![j] = to]
    /\ UNCHANGED <<epoch, holder, runs>>

Reopen(j) ==
    /\ phase[j] \in {"open", "parked"}
    /\ phase' = [phase EXCEPT ![j] = "open"]
    /\ UNCHANGED <<epoch, holder, runs>>

\* The newest epoch begins work on the open jobs of S.
Take(S) ==
    /\ \A j \in S : phase[j] = "open"
    /\ phase' = [j \in Jobs |-> IF j \in S THEN "held" ELSE phase[j]]
    /\ holder' = [j \in Jobs |-> IF j \in S THEN epoch ELSE holder[j]]
    /\ runs' = [j \in Jobs |-> IF j \in S THEN runs[j] + 1 ELSE runs[j]]
    /\ UNCHANGED epoch

Settle(j) ==
    /\ phase[j] = "held"
    /\ holder[j] = epoch
    /\ \E to \in {"open"} \cup Parked : phase' = [phase EXCEPT ![j] = to]
    /\ holder' = [holder EXCEPT ![j] = 0]
    /\ UNCHANGED <<epoch, runs>>

\* The jobs of S are taken away from their holders.
Reclaim(S) ==
    /\ \A j \in S : phase[j] = "held"
    /\ \E to \in [S -> {"open", "parked"}] :
          phase' = [j \in Jobs |-> IF j \in S THEN to[j] ELSE phase[j]]
    /\ holder' = [j \in Jobs |-> IF j \in S THEN 0 ELSE holder[j]]
    /\ UNCHANGED <<epoch, runs>>

LedgerNext ==
    \/ Elect
    \/ \E j \in Jobs : Submit(j) \/ Reopen(j) \/ Settle(j)
    \/ \E S \in SUBSET Jobs : Take(S) \/ Reclaim(S)

LedgerSpec == LedgerInit /\ [][LedgerNext]_ledgerVars
=============================================================================
