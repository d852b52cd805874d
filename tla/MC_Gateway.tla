----------------------------- MODULE MC_Gateway -----------------------------
(* Small gateways: setups that exchange messages, setups that change the   *)
(* configuration, and many configurations that are only read.              *)
EXTENDS Gateway

CONSTANTS w1, w2, a1, a2, a3, p1, p2, px, kb, k1, k2, kx, m1, m2, dir, tool1, tool2, lost

MCDefaultRAG == [chunk |-> 500, top |-> 5]
Own(key, model) == [key |-> key, model |-> model]
AnAgent(name, subs) ==
  [name |-> name, workspace |-> dir, provider |-> Blank, model |-> Blank, subs |-> subs, refs |-> <<>>, paths |-> <<>>,
   embedding |-> Blank, summarize |-> Blank, rag |-> Blank, approval |-> <<>>, memoria |-> TRUE, type |-> Blank, allowed |-> <<>>]
AConfig(agents, accounts, bindings) ==
  [providers |-> [p \in {p1} |-> Own(k1, m1)], default |-> p1, agents |-> agents, bases |-> << >>, approval |-> <<>>,
   mcp |-> <<>>, browser |-> FALSE, web |-> FALSE, scheduler |-> FALSE,
   accounts |-> {[name |-> a, enabled |-> TRUE, complete |-> TRUE] : a \in accounts}, bindings |-> bindings]

(* Every choice of up to two sub-agents for each of three agents, one of   *)
(* them not there; and the ways to a provider, a key, an option.           *)
SomeSubs == UNION {[1..n -> {a1, a2, a3}] : n \in 0..2} \cup {<<lost>>, <<lost, a1>>}
Graphs == {AConfig(<<AnAgent(a1, s), AnAgent(a2, t), AnAgent(a3, u)>>, {}, <<>>) : s, t, u \in SomeSubs}

Options == {Blank} \cup [provider : {Blank, p2, px}, key : {Blank, kx}, model : {Blank, m2}]
Providers == {[p \in {p1} |-> Own(k1, m1)], [p \in {p1, p2} |-> Own(IF p = p1 THEN k1 ELSE k2, Blank)],
              [p \in {p1, p2} |-> Own(IF p = p1 THEN k1 ELSE k2, m1)]}
Resolutions ==
  {[AConfig(<<[AnAgent(a1, <<>>) EXCEPT !.provider = p, !.refs = <<lost, kb>>, !.embedding = own, !.summarize = own,
                                         !.approval = <<tool2, tool1>>, !.rag = r]>>, {}, <<>>)
      EXCEPT !.providers = f, !.default = d, !.approval = IF r = Blank THEN <<tool1>> ELSE <<>>,
             !.bases = (kb :> [embedding |-> base, rag |-> [chunk |-> -1, top |-> 7], paths |-> <<dir>>])] :
     p \in {Blank, p2}, d \in {Blank, p1}, f \in Providers, own \in Options, base \in Options,
     r \in {Blank, [chunk |-> 0, top |-> 0]}}

(* Nothing happens but that the configuration is read.                     *)
Base == [file |-> Blank, updates |-> {}, written |-> {}, edits |-> 0, boots |-> 0, breaks |-> 0, quits |-> FALSE,
         kills |-> FALSE, frames |-> [o \in Origins |-> 0], answers |-> <<>>, calls |-> {}, replies |-> {},
         frame |-> None, chunks |-> {}]
Samples == {[Base EXCEPT !.file = c] : c \in Graphs \cup Resolutions}

(* Types of agents, allowed tools, approvals, and an MCP server with a     *)
(* tool of its own, one that is called like a built-in tool, or both.      *)
Servers(names) == <<[enabled |-> FALSE, up |-> TRUE, tools |-> <<lost>>], [enabled |-> TRUE, up |-> FALSE, tools |-> <<lost>>],
                    [enabled |-> TRUE, up |-> TRUE, tools |-> names]>>
KitConfigs ==
  {[AConfig(<<[AnAgent(a1, <<a2>>) EXCEPT !.type = t, !.allowed = allowed, !.approval = approval, !.memoria = on],
              AnAgent(a2, <<>>)>>, {}, <<>>)
      EXCEPT !.mcp = Servers(names), !.browser = on, !.web = TRUE, !.scheduler = on] :
     t \in Types \cup {lost}, allowed \in {<<>>, <<tool1, "web", "memory">>}, approval \in {<<>>, <<tool1, "memory">>},
     on \in BOOLEAN, names \in {<<>>, <<tool1, "web">>, <<"memory", "send_file", "history_query", tool1>>}}
Kits == {[Base EXCEPT !.file = c, !.calls = [1..3 -> {"memory", "send_file", tool1}],
                      !.replies = UNION {[1..n -> {"yes", "no"}] : n \in 0..3}] : c \in KitConfigs}

(* Frames: messages of each type, and events.                              *)
AFrame(cmd, msgtype, event) ==
  [cmd |-> cmd, req |-> "r1", msgtype |-> msgtype, event |-> event, chat |-> None, user |-> None, text |-> None,
   url |-> None, file |-> None]
Callbacks ==
  {[AFrame("aibot_msg_callback", t, None) EXCEPT !.chat = c, !.text = x, !.url = u, !.file = f] :
     t \in {None, "text", "image", "mixed", "voice", "file"}, c \in {None, "c1"}, x \in {None, "hi"},
     u \in {None, "url"}, f \in {None, "content"}}
  \cup {[AFrame("aibot_event_callback", None, e) EXCEPT !.chat = c, !.user = "u1"] :
           e \in Published \cup {"other"}, c \in {None, "c1"}}
Exchanges == {[Base EXCEPT !.file = AConfig(<<AnAgent(a1, <<>>)>>, {}, <<>>), !.frame = f,
                           !.chunks = {<<>>, <<None, <<"a">>>>, <<<<"a">>, <<"ab">>>>}] : f \in Callbacks}

(* Messages: a chat of the WebSocket bound to w1, a queue that is full,    *)
(* and stops.                                                              *)
Frames(n, m, k) == [o \in Origins |-> IF o = w1 THEN n ELSE IF o = w2 THEN m ELSE k]
One == AConfig(<<AnAgent(a1, <<>>)>>, {w1}, <<[key |-> Web, target |-> w2], [key |-> Web, target |-> w1]>>)
Two == AConfig(<<AnAgent(a1, <<>>)>>, {w1, w2}, <<>>)
Live == [Base EXCEPT !.boots = 1, !.quits = TRUE]
Streams == [Live EXCEPT !.file = One, !.frames = Frames(1, 0, 1), !.answers = <<"stream", "final">>]
Full == [Live EXCEPT !.file = One, !.frames = Frames(3, 0, 0), !.answers = <<"final">>, !.breaks = 1]
Files == [Live EXCEPT !.file = One, !.frames = Frames(1, 0, 1), !.answers = <<"file", "final">>]
Odd == [Live EXCEPT !.file = One, !.frames = Frames(2, 0, 0), !.answers = <<"odd", "event">>]
Pair == [Live EXCEPT !.file = Two, !.frames = Frames(1, 0, 0), !.answers = <<"final">>, !.breaks = 1]

(* Configurations that change, one of them circular, one invalid, one      *)
(* without a channel because an account is incomplete.                     *)
Ring == AConfig(<<AnAgent(a1, <<a2>>), AnAgent(a2, <<a1>>)>>, {}, <<>>)
Bad == [Ring EXCEPT !.default = px]
Half == [Two EXCEPT !.accounts = @ \cup {[name |-> lost, enabled |-> TRUE, complete |-> FALSE]}]
Changes == [Live EXCEPT !.file = AConfig(<<AnAgent(a1, <<>>)>>, {}, <<>>), !.updates = {Ring, Bad, Half},
                        !.written = {Two}, !.edits = 2, !.boots = 2, !.kills = TRUE]
MCSetups == Samples \cup Kits \cup Exchanges \cup {Streams, Full, Files, Odd, Pair, Changes}
=============================================================================
