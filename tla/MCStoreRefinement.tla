-------------------------- MODULE MCStoreRefinement --------------------------
(***************************************************************************)
(* The instances of MCDispatchStore, checked against the abstract ledger.   *)
(***************************************************************************)
EXTENDS MCDispatchStore, StoreRefinement
=============================================================================
