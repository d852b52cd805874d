--------------------------- MODULE LossyBroadcast ---------------------------
(***************************************************************************)
(* What the outbound half of the message bus promises, without its queues, *)
(* locks and goroutines: a log of accepted messages, and for each          *)
(* subscriber the indices of the messages it was handed.  Delivery may     *)
(* skip messages and subscribers, never reorder, repeat, invent or         *)
(* misroute.                                                               *)
(***************************************************************************)
EXTENDS Naturals, Sequences

CONSTANTS Subs, Channels, FilterOf

VARIABLES accepted, received, stopped

Message == [channel : Channels, resp : BOOLEAN]

Wants(s, m) == FilterOf[s] = {} \/ m.channel \in FilterOf[s]

Init ==
  /\ accepted = <<>>
  /\ received = [s \in Subs |-> <<>>]
  /\ stopped = FALSE

Accept ==
  /\ ~stopped
  /\ \E m \in Message : accepted' = Append(accepted, m)
  /\ UNCHANGED <<received, stopped>>

(* Message i goes to the subscribers in to, none of which has it or a      *)
(* later one.  Messages accepted before the stop may still be delivered.   *)
Deliver(i, to) ==
  /\ i \in 1..Len(accepted)
  /\ \A s \in to : /\ Wants(s, accepted[i])
                   /\ \A k \in 1..Len(received[s]) : received[s][k] < i
  /\ received' = [s \in Subs |-> IF s \in to THEN Append(received[s], i)
                                 ELSE received[s]]
  /\ UNCHANGED <<accepted, stopped>>

Stop ==
  /\ stopped' = TRUE
  /\ UNCHANGED <<accepted, received>>

Next == \/ Accept
        \/ \E i \in 1..Len(accepted) : \E to \in SUBSET Subs : Deliver(i, to)
        \/ Stop

Spec == Init /\ [][Next]_<<accepted, received, stopped>>
=============================================================================
