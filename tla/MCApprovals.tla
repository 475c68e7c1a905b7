----------------------------- MODULE MCApprovals -----------------------------
(* Instance of Approvals for TLC: two approvals of two users, decided by a  *)
(* WebSocket and a REST request that may aim at the same row.               *)
EXTENDS Approvals, TLC

CONSTANTS i1, i2, a1, a2, c1, c2, ws, rest

MCContextOf == a1 :> c1 @@ a2 :> c2
=============================================================================
