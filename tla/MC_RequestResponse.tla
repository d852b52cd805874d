------------------------- MODULE MC_RequestResponse -------------------------
(* One call of the tool, or two at once.                                   *)
EXTENDS RequestResponse

CONSTANTS r1, r2
=============================================================================
