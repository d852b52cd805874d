-------------------------- MODULE MC_WxComReplies --------------------------
(* One request id, two callers, a worker and one that outlives its         *)
(* connection.                                                             *)
EXTENDS WxComReplies

CONSTANTS q1, d1, d2, w1, w2
=============================================================================
