------------------------ MODULE MCDurableSupervisor ------------------------
EXTENDS DurableSupervisor, TLC

CONSTANTS o1, o2, p1, p2, i1, i2

MCOwnerOf == p1 :> o1 @@ p2 :> o2

\* The two identities are interchangeable, and so are the two processes when
\* they are exchanged together with their owner ids.
SameProcs == p1 :> p1 @@ p2 :> p2 @@ o1 :> o1 @@ o2 :> o2
SwappedProcs == p1 :> p2 @@ p2 :> p1 @@ o1 :> o2 @@ o2 :> o1
Symmetry ==
    {ids @@ procs : ids \in Permutations({i1, i2}), procs \in {SameProcs, SwappedProcs}}
=============================================================================
