--------------------------- MODULE MCApprovalGate ---------------------------
(***************************************************************************)
(* Instances of ApprovalGate for TLC: one requester with two requests of   *)
(* one intent and one without an intent, decided by two Decide calls.      *)
(***************************************************************************)
EXTENDS ApprovalGate

CONSTANTS q1, q2, q3, u1, i1

GateRequests == {q1, q2, q3}
GateUserOf   == [r \in GateRequests |-> u1]
GateIntentOf == [r \in GateRequests |-> IF r = q3 THEN NoIntent ELSE i1]
=============================================================================
