-------------------------- MODULE MCTransportStore --------------------------
(***************************************************************************)
(* The instances of MCDispatchStore with an outbox.                         *)
(***************************************************************************)
EXTENDS MCDispatchStore, TransportStore

\* Owners, packets and digests are interchangeable.
TransportSymmetry ==
    OwnerSymmetry \cup Permutations(Packets) \cup Permutations(Digests)
=============================================================================
