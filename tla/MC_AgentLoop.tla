----------------------------- MODULE MC_AgentLoop -----------------------------
(* One agent and one session, which holds a question, a message with two   *)
(* tool calls, their results and an answer.                                *)
EXTENDS AgentLoop

CONSTANTS a1, s1

MCEarlier ==
  LET Old(at, role, calls, call) ==
        [by |-> 0, at |-> at, role |-> role, calls |-> calls, call |-> call]
  IN {<< Old(1, "user", 0, <<>>), Old(2, "assistant", 2, <<>>), Old(3, "tool", 0, <<0, 2>>),
         Old(4, "tool", 0, <<0, 2>>), Old(5, "assistant", 0, <<>>) >>}

(* What the theorem about SessionKeepsNew supposes.                        *)
ASSUME SingleAgent /\ ProperStart
=============================================================================
