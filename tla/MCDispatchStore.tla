--------------------------- MODULE MCDispatchStore ---------------------------
(***************************************************************************)
(* Small instances of DispatchStore for TLC: jobs that compete for the one  *)
(* slot of a host, of which j2 also occupies a slot of a pool.              *)
(***************************************************************************)
EXTENDS DispatchStore, TLC

CONSTANTS j1, j2, host, pool

MCGroupsOf == [j \in Jobs |-> IF j = j2 THEN {host, pool} ELSE {host}]
MCCapacity == [g \in Groups |-> 1]
MCRank == [j \in Jobs |-> IF j = j1 THEN 1 ELSE 2]

OwnerSymmetry == Permutations(Owners)
=============================================================================
