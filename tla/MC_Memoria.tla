----------------------------- MODULE MC_Memoria -----------------------------
EXTENDS Memoria

CONSTANTS s1, s2, f1, web, ann, room, q1, q2, a1, v1, v2

Msg(role, body) == [role |-> role, calls |-> FALSE, body |-> body]
MCLog == [s \in {s1, s2} |-> <<Msg("user", q1), Msg("assistant", a1), Msg("user", q2), Msg("assistant", a1)>>]
MCKey == [s \in {s1, s2} |-> IF s = s1 THEN <<web, ann, room>> ELSE <<ann>>]
MCLinesOf == [t \in {v1, v2} |-> IF t = v1 THEN <<1>> ELSE <<2, 2>>]
Written == {Blank, q1, q2, a1, v1, v2}
MCNear == [t \in Written |-> IF t \in {q1, v1} THEN 2 ELSE 1]
MCMatch == [t \in Written |-> IF t \in {q2, v1} THEN 3 ELSE 0]
MCCalls == [tool : {"history"}, limit : {0}, user : {<<web, ann, room>>, ann}, type : {Blank}, score : {0}]
           \cup [tool : {"rag"}, limit : {0}, user : {Blank}, type : {Blank, "file"}, score : {2}]
           \cup [tool : {"cli"}, limit : {1}, user : {Blank}, type : {Blank, "chat"}, score : {2}]

(* Every session of up to MaxTalk messages, the replies to two pairs, and  *)
(* files.                                                                  *)
CONSTANT MaxTalk
Bodies == {Blank, Thought, q1, q2}
SomeMessages == [role : {"user", "tool"}, calls : {FALSE}, body : Bodies]
                \cup [role : {"assistant"}, calls : BOOLEAN, body : Bodies]
Nothing == [session |-> <<>>, entries |-> <<>>, lines |-> <<1>>]
Samples ==
  {[Nothing EXCEPT !.session = s] : s \in UNION {[1..n -> SomeMessages] : n \in 0..MaxTalk}}
  \cup {[Nothing EXCEPT !.session = MCLog[s1], !.entries = e] :
          e \in UNION {[1..n -> [qa : 0..3, hall : {"events"}, empty : BOOLEAN]] : n \in 0..2}}
  \cup {[Nothing EXCEPT !.lines = l] : l \in UNION {[1..n -> 0..3] : n \in 1..5}}

(* Text: one sample, nothing runs.  The others have a sample that says     *)
(* nothing, and the states of a gateway with: sessions that get            *)
(* preferences, or events and what the generic call makes of them; a file  *)
(* that is edited, or processed again after a restart; both kinds and the  *)
(* commands; searches.  The second session has a key of one part, the name *)
(* of the first one's account: the preferences of both in one file, and    *)
(* facts and preferences of the second.                                    *)
Base == [sources |-> {s1, f1}, commands |-> {"gateway"}, databases |-> {FALSE}, searched |-> FALSE,
         edits |-> 0, boots |-> 1, told |-> {"events"}, kinds |-> {}, forms |-> {"summary"},
         sample |-> Nothing]
Text == {[Base EXCEPT !.commands = {}, !.boots = 0, !.sample = s] : s \in Samples}
Preferences == [Base EXCEPT !.sources = {s1}, !.edits = 1, !.told = {"preferences"}]
Events == [Base EXCEPT !.sources = {s1}, !.edits = 1, !.boots = 2]
Edits == [Base EXCEPT !.sources = {f1}, !.edits = 2, !.forms = {"nothing", "chunk"}]
Restarts == [Base EXCEPT !.sources = {f1}, !.edits = 1, !.boots = 2]
Commands == [Base EXCEPT !.told = {"preferences"}, !.commands = {"gateway", "init", "process"}, !.boots = 2, !.databases = BOOLEAN,
                         !.kinds = {[layer |-> 1, hall |-> "facts"]}]
Search == [Base EXCEPT !.databases = {TRUE}, !.searched = TRUE, !.kinds = {[layer |-> 3, hall |-> "advice"]}]
Shared == [Base EXCEPT !.sources = {s1, s2}, !.edits = 1, !.boots = 2, !.told = {"preferences"}, !.commands = {"init"}]
Nameless == [Base EXCEPT !.sources = {s2}, !.edits = 1, !.boots = 2, !.told = {},
                         !.kinds = {[layer |-> 1, hall |-> "facts"], [layer |-> 1, hall |-> "preferences"]}]
MCSetups == Text \cup {Preferences, Events, Edits, Restarts, Commands, Search, Shared, Nameless}
=============================================================================
