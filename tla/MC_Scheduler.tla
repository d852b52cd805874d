--------------------------- MODULE MC_Scheduler ---------------------------
(* A configured task and one that is added, three minutes, two goroutines. *)
EXTENDS Scheduler, TLC

CONSTANTS a, b, o1, r1, r2

MCSchedules == {{2, 3}, {3}}
MCFirst == {2, 3}
===========================================================================
