--------------------------- MODULE StoreRefinement ---------------------------
(***************************************************************************)
(* The dispatch ledger implements JobLedger.  The epoch is the fence of the *)
(* lease, the holder of a job the fence of its claim, and a phase stands    *)
(* for one or more values of jobs.status.                                   *)
(***************************************************************************)
EXTENDS DispatchStore

PhaseOf(status) ==
    CASE status = "none" -> "absent"
      [] status \in {"queued", "retry"} -> "open"
      [] status = "running" -> "held"
      [] status = "completed" -> "done"
      [] OTHER -> "parked"

Ledger == INSTANCE JobLedger WITH
    epoch <- lease.fence,
    phase <- [j \in Jobs |-> PhaseOf(jobs[j].status)],
    holder <- [j \in Jobs |-> jobs[j].claim_fence],
    runs <- [j \in Jobs |-> jobs[j].attempt_count]

\* Every step of the SQLite ledger is a step of the abstract one or leaves it
\* unchanged: the transactions of sqlite_store.py together behave as a queue
\* with fenced, exclusive execution.
ImplementsLedger == Ledger!LedgerSpec
=============================================================================
