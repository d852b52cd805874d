------------------------------ MODULE MC_WsHub ------------------------------
(* Two connections and the dispatchers of outbound messages and of log     *)
(* events.                                                                 *)
EXTENDS WsHub

CONSTANTS c1, c2

(* Any two inputs; and a client that stops reading, with as many events as *)
(* its loop takes, its buffer holds and a further send brings.             *)
Two == {n \in [InputKinds -> 0..2] : n["event"] + n["message"] + n["leave"] + n["stall"] = 2}
Filled == [n \in InputKinds |-> CASE n = "event" -> 3 [] n = "stall" -> 1 [] OTHER -> 0]
MCInputs == Two \cup {Filled}
=============================================================================
