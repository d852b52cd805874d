--------------------------- MODULE MC_MessageBus ---------------------------
(* A publisher on both queues, two Close, one SetResponseHandler, a        *)
(* subscriber with a filter and a one-shot consumer without.               *)
EXTENDS MessageBus

CONSTANTS p1, cons, fan, close1, close2, set1, s1, t1, web, wx

MCFilterOf == [s \in Subs |-> IF s = s1 THEN {web} ELSE {}]

(* A response to a web client, and a message for the other channel.        *)
MCKinds == {[channel |-> web, resp |-> TRUE], [channel |-> wx, resp |-> FALSE]}

MCCancellable == Publishers \cup {Consumer} \cup Takers
=============================================================================
