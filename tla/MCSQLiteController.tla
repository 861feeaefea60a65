------------------------- MODULE MCSQLiteController -------------------------
(***************************************************************************)
(* Small instances of SQLiteController for TLC: up to three processes of    *)
(* their own owner ids, and jobs that compete for the one slot of a host.   *)
(***************************************************************************)
EXTENDS SQLiteController, TLC

CONSTANTS j1, j2, host, w1, w2, w3, e, AttemptsListed, AnyModes

MCGroupsOf == [j \in Jobs |-> {host}]
MCCapacity == [g \in Groups |-> 1]
MCRank == [j \in Jobs |-> IF j = j1 THEN 1 ELSE 2]

\* Every process has an owner id of its own (a fresh uuid).
MCOwnerOf == [p \in Procs |-> p]
MCModes == [p \in Procs |->
    IF p = e THEN {"enqueue"} ELSE IF p \in Durable THEN {"run"} ELSE AnyModes]
MCTarget == [p \in Procs |-> IF j2 \in Jobs THEN j2 ELSE j1]
MCPacketLen == [j \in Jobs |-> AttemptsListed]

\* Every attempt names a breadcrumb file of its own, or the packet names one
\* file for all of them.
OwnPidPath == [j \in Jobs |-> [n \in AttemptNos |-> <<j, n>>]]
OwnPidFiles == Jobs \X AttemptNos
JobPidPath == [j \in Jobs |-> [n \in AttemptNos |-> <<j, 0>>]]
JobPidFiles == {<<j, 0>> : j \in Jobs}

\* Run processes that may all crash are interchangeable.
ProcSymmetry == Permutations(Procs)
=============================================================================
