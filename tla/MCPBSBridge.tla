---------------------------- MODULE MCPBSBridge ----------------------------
(***************************************************************************)
(* Small instances of PBSBridge for TLC: a delivery, up to two submissions, *)
(* a worker poll and a PBS reconciliation of one request.                   *)
(***************************************************************************)
EXTENDS PBSBridge, TLC

CONSTANTS deliver, submit1, submit2, poll, reconcile, service

MCKind == [c \in Calls |->
    CASE c = deliver -> "sync" [] c = poll -> "poll"
      [] c = reconcile -> "reconcile" [] OTHER -> "submit"]

\* Every command under an owner id of its own, or some of them under one --owner-id.
ReadersShare == [c \in Calls |-> IF c \in {poll, reconcile} THEN service ELSE c]
FreshOwners == [c \in Calls |-> c]
SubmitOwner == [c \in Calls |-> IF MCKind[c] = "submit" THEN service ELSE c]

\* Submissions under fresh owner ids are interchangeable.
SubmitSymmetry == Permutations({submit1, submit2})
=============================================================================
