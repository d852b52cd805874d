--------------------------- MODULE MC_EventTopics ---------------------------
(* Two emitters and a chat subscriber that wants one channel, with queues  *)
(* of one event.                                                           *)
EXTENDS EventTopics

CONSTANTS e1, e2, closer, chatSub, web, wx

MCTopicOf == [s \in Subs |-> "chat"]
MCFilterOf == [s \in Subs |-> {web}]
=============================================================================
