------------------------------ MODULE Gateway ------------------------------
(***************************************************************************)
(* The gateway: src/gateway/gateway.go, src/channel/manager.go and the     *)
(* ends of the parts they start and stop.  A process reads its             *)
(* configuration, starts the agent manager, the channels and their         *)
(* dispatchers, serves, and on a signal stops them one after the other.    *)
(* Users write to WeCom channels, whose receive loops publish to the bus,  *)
(* and to the WebSocket server; the agents' answers come back over the bus *)
(* and the dispatchers.                                                    *)
(*                                                                         *)
(* The bus is LossyBroadcast, which MessageBus implements: what is         *)
(* published reaches a subscription or is dropped when that is full.  Its  *)
(* lock is seen where it matters: a receive loop holds it while the        *)
(* inbound queue is full, and Close waits for it.  An agent's run is what  *)
(* it publishes (AgentLoop); a reply is sent until it is acknowledged,     *)
(* times out or is cancelled (WxComReplies).                               *)
(***************************************************************************)
EXTENDS GatewayConfig, WxComFrames, FiniteSets

CONSTANTS
  Accounts,      \* the WeCom channels there may be
  Web,           \* the origin of messages from WebSocket clients
  InboundCap,    \* the inbound queue, 100 in the program
  SubCap,        \* a subscription's buffer, 100 in the program
  Torn,          \* a file that is half written
  Setups         \* what may happen, see setup

Dispatchers == {"out", "chat"}
Origins == Accounts \cup {Web}
Requests == {"file", "odd"}  \* send_file, and a request no channel handles
Answers == {"stream", "final", "event"} \cup Requests

(* The configurations of a setup are whole files with a list of bindings,  *)
(* and their channels are among the accounts.                              *)
Whole(c) ==
  /\ c # Torn /\ Registered(c) \subseteq Accounts
  /\ Len(c.bindings) \in Nat /\ DOMAIN c.bindings = 1..Len(c.bindings)

(* A callback has a request id, and the chunks of its answer are a list.   *)
Callback(f) == f.req # None /\ f.cmd \in {"aibot_msg_callback", "aibot_event_callback"}

ASSUME GatewayAssumption ==
  /\ InboundCap \in Nat \ {0} /\ SubCap \in Nat \ {0} /\ Web \notin Accounts
  /\ None # <<"said">>
  /\ \A s \in Setups : /\ \A c \in {s.file} \cup s.updates \cup s.written : Whole(c)
                       /\ s.answers \in Seq(Answers)
                       /\ s.frame # None => Callback(s.frame)
                       /\ \A chunks \in s.chunks : Len(chunks) \in Nat /\ DOMAIN chunks = 1..Len(chunks)

VARIABLES
  setup,     \* the configuration file at first, those that clients send and that
             \* users write; bounds on these, on the starts, on the messages of
             \* each origin and on the breaks of connections; whether the process is
             \* asked to stop, or killed; the answers to a message; the calls that
             \* models make, and the users' replies to requests for approval; a frame,
             \* and what the chunks of the answer to it say
  life,      \* where Start, WaitForSignal and Stop are; "down": no process
  boots,     \* how many were started
  config,    \* g.cfg
  channels, bound, \* the channels and the bindings of channel.Manager
  conn,      \* of each account: "off", "up", "broken" (being reconnected), "gone"
  running,   \* WxComChannel.running
  rx,        \* its receive loop: "off", "read", "have" (a message), "publish"
  sent,      \* how many messages came of each origin
  breaks,    \* how many connections broke
  inbound,   \* the inbound queue
  agent,     \* processMessages: pc "off", "wait", "run", "ask", "exit", what the run has
             \* still to publish, and the request that waits for its response
  dsp,       \* the dispatchers of outbound messages and of chat events: pc and message
  field,     \* whether m.outSub and m.chatSub are set
  open, buf, \* their subscriptions
  busOpen,   \* the bus is not closed
  file, bak, \* the configuration file and its backup
  mem, upd,  \* the configuration manager's copy, Blank without one, and its update
  edits,     \* how many times the configuration was changed
  accepted, touched, said, handed  \* histories, see the properties

runVars == <<config, channels, bound>>
netVars == <<conn, running, rx, sent, breaks, inbound>>
dspVars == <<dsp, field, open, buf>>
fileVars == <<file, bak, mem, upd, edits, accepted, touched>>
vars == <<setup, life, boots, runVars, netVars, agent, dspVars, busOpen, fileVars, said, handed>>

Nothing == [ch |-> Web, n |-> 0, k |-> 0, kind |-> "none"]

(* Nothing of a process outlives it.                                       *)
NoProcess ==
  /\ config = Blank /\ channels = {} /\ bound = << >>
  /\ conn = [a \in Accounts |-> "off"] /\ running = [a \in Accounts |-> FALSE]
  /\ rx = [a \in Accounts |-> "off"] /\ inbound = <<>>
  /\ agent = [pc |-> "off", todo |-> <<>>, asked |-> Nothing]
  /\ dsp = [d \in Dispatchers |-> [pc |-> "off", msg |-> Nothing]]
  /\ field = [d \in Dispatchers |-> FALSE] /\ open = field
  /\ buf = [d \in Dispatchers |-> <<>>] /\ busOpen = FALSE
  /\ mem = Blank /\ upd = [pc |-> "idle", new |-> Blank]
  /\ said = <<>> /\ handed = <<>>

Init ==
  /\ setup \in Setups
  /\ life = "down" /\ boots = 0 /\ NoProcess
  /\ sent = [o \in Origins |-> 0] /\ breaks = 0
  /\ file = setup.file /\ bak = Blank /\ edits = 0 /\ accepted = Blank /\ touched = FALSE

Exit ==
  /\ life' = "down" /\ config' = Blank /\ channels' = {} /\ bound' = << >>
  /\ conn' = [a \in Accounts |-> "off"] /\ running' = [a \in Accounts |-> FALSE]
  /\ rx' = [a \in Accounts |-> "off"] /\ inbound' = <<>>
  /\ agent' = [pc |-> "off", todo |-> <<>>, asked |-> Nothing]
  /\ dsp' = [d \in Dispatchers |-> [pc |-> "off", msg |-> Nothing]]
  /\ field' = [d \in Dispatchers |-> FALSE] /\ open' = field'
  /\ buf' = [d \in Dispatchers |-> <<>>] /\ busOpen' = FALSE
  /\ mem' = Blank /\ upd' = [pc |-> "idle", new |-> Blank]
  /\ said' = <<>> /\ handed' = <<>>
  /\ UNCHANGED <<setup, boots, sent, breaks, file, bak, edits, accepted, touched>>

-----------------------------------------------------------------------------
(* cmd/gateway.go: the configuration is loaded.                            *)
Boot ==
  /\ life = "down" /\ boots < setup.boots /\ file # Torn
  /\ life' = "create" /\ boots' = boots + 1 /\ config' = file
  /\ UNCHANGED <<setup, channels, bound, netVars, agent, dspVars, busOpen, fileVars, said, handed>>

(* New and Start up to step 8: the bus, the channels that can be created   *)
(* (an error is a warning), the agents (an error ends the process), and    *)
(* the agent manager's goroutine.                                          *)
Create ==
  /\ life = "create" /\ RegisterAgents(config) # Failed
  /\ life' = "start" /\ busOpen' = TRUE
  /\ channels' = Registered(config) /\ bound' = Bindings(config)
  /\ agent' = [agent EXCEPT !.pc = "wait"]
  /\ UNCHANGED <<setup, boots, config, netVars, dspVars, fileVars, said, handed>>

CreateFails == life = "create" /\ RegisterAgents(config) = Failed /\ Exit

(* StartAll, in the order of a map.  A channel that cannot connect goes on *)
(* trying by itself, but the gateway gives up.                             *)
StartChannel(a) ==
  /\ life = "start" /\ a \in channels /\ ~running[a]
  /\ running' = [running EXCEPT ![a] = TRUE]
  /\ \/ conn' = [conn EXCEPT ![a] = "up"] /\ rx' = [rx EXCEPT ![a] = "read"] /\ UNCHANGED <<life, breaks>>
     \/ /\ breaks < setup.breaks /\ breaks' = breaks + 1
        /\ conn' = [conn EXCEPT ![a] = "broken"] /\ life' = "abort" /\ UNCHANGED rx
  /\ UNCHANGED <<setup, boots, runVars, sent, inbound, agent, dspVars, busOpen, fileVars, said, handed>>

(* startDispatchers: what the agents said before is lost.                  *)
StartDispatchers ==
  /\ life = "start" /\ \A a \in channels : running[a]
  /\ life' = "open"
  /\ field' = [d \in Dispatchers |-> TRUE] /\ open' = field'
  /\ dsp' = [d \in Dispatchers |-> [dsp[d] EXCEPT !.pc = "look"]]
  /\ UNCHANGED <<setup, boots, runVars, netVars, agent, buf, busOpen, fileVars, said, handed>>

(* Start from step 10: scheduler, configuration manager, WebSocket server. *)
OpenServer ==
  /\ life = "open" /\ life' = "serve"
  /\ mem' = IF file = Torn THEN Blank ELSE file
  /\ touched' = FALSE
  /\ UNCHANGED <<setup, boots, runVars, netVars, agent, dspVars, busOpen, file, bak, upd, edits, accepted,
                 said, handed>>

GiveUp == life = "abort" /\ agent.pc = "exit" /\ Exit

-----------------------------------------------------------------------------
(* A signal, and Stop: the server, the channel manager (whose lock StopAll *)
(* holds from "unsub" to "channels"), the scheduler, the agents, the bus.  *)
Locked == life \in {"unsub", "nil", "channels"}

Advance(from, to) ==
  /\ life = from /\ life' = to
  /\ UNCHANGED <<setup, boots, runVars, netVars, agent, busOpen, fileVars, said, handed>>

Signal == setup.quits /\ Advance("serve", "server") /\ UNCHANGED dspVars
StopServer == Advance("server", "unsub") /\ UNCHANGED dspVars

(* m.outSub.Unsubscribe(); m.outSub = nil, and the same for m.chatSub.     *)
Unsubscribe(d) ==
  /\ life = "unsub" /\ open[d] /\ (d = "chat" => ~field["out"])
  /\ open' = [open EXCEPT ![d] = FALSE]
  /\ Advance("unsub", "nil") /\ UNCHANGED <<dsp, field, buf>>

Forget(d) ==
  /\ life = "nil" /\ field[d] /\ ~open[d]
  /\ field' = [field EXCEPT ![d] = FALSE]
  /\ Advance("nil", IF d = "out" THEN "unsub" ELSE "channels") /\ UNCHANGED <<dsp, open, buf>>

(* WxComChannel.IsRunning: one that is being reconnected is not stopped.   *)
(* That a connection broke is known when its loop ends.                    *)
IsRunning(a) == running[a] /\ (conn[a] = "up" \/ (conn[a] = "broken" /\ rx[a] # "off"))

StopChannel(a) ==
  /\ life = "channels" /\ a \in channels /\ IsRunning(a)
  /\ running' = [running EXCEPT ![a] = FALSE] /\ conn' = [conn EXCEPT ![a] = "off"]
  /\ UNCHANGED <<setup, life, boots, runVars, rx, sent, breaks, inbound, agent, dspVars, busOpen, fileVars,
                 said, handed>>

StopScheduler ==
  /\ \A a \in channels : ~IsRunning(a)
  /\ Advance("channels", "agents") /\ UNCHANGED dspVars

AgentsStopped == agent.pc = "exit" /\ Advance("agents", "bus") /\ UNCHANGED dspVars

(* Close has the lock once no receive loop is inside PublishInbound.       *)
CloseBus ==
  /\ life = "bus" /\ \A a \in Accounts : rx[a] # "publish"
  /\ life' = "closed" /\ busOpen' = FALSE
  /\ open' = [d \in Dispatchers |-> FALSE]
  /\ UNCHANGED <<setup, boots, runVars, netVars, agent, dsp, field, buf, fileVars, said, handed>>

Stopped == life = "closed" /\ Exit
Kill == setup.kills /\ life # "down" /\ Exit

-----------------------------------------------------------------------------
(* Users and the network.  Every frame of a connection is read by one      *)
(* loop, which waits for the inbound queue with context.Background().  A   *)
(* frame of which WxComFrames!Inbound makes nothing is not published.      *)
Receive(a) ==
  /\ rx[a] = "read" /\ conn[a] = "up" /\ sent[a] < setup.frames[a]
  /\ \E next \in {"have", "read"} : rx' = [rx EXCEPT ![a] = next]
  /\ sent' = [sent EXCEPT ![a] = @ + 1]
  /\ UNCHANGED <<setup, life, boots, runVars, conn, running, breaks, inbound, agent, dspVars, busOpen,
                 fileVars, said, handed>>

(* The read lock of the bus: nobody gets it while Close waits.             *)
LockBus(a) ==
  /\ rx[a] = "have" /\ life # "bus"
  /\ rx' = [rx EXCEPT ![a] = IF busOpen THEN "publish" ELSE "read"]
  /\ UNCHANGED <<setup, life, boots, runVars, conn, running, sent, breaks, inbound, agent, dspVars, busOpen,
                 fileVars, said, handed>>

PublishInbound(a) ==
  /\ rx[a] = "publish" /\ Len(inbound) < InboundCap
  /\ inbound' = Append(inbound, [ch |-> a, n |-> sent[a]])
  /\ rx' = [rx EXCEPT ![a] = "read"]
  /\ UNCHANGED <<setup, life, boots, runVars, conn, running, sent, breaks, agent, dspVars, busOpen, fileVars,
                 said, handed>>

(* A WebSocket client's message; its connection's context ends with the    *)
(* server.                                                                 *)
PublishWeb ==
  /\ life = "serve" /\ sent[Web] < setup.frames[Web] /\ Len(inbound) < InboundCap
  /\ sent' = [sent EXCEPT ![Web] = @ + 1]
  /\ inbound' = Append(inbound, [ch |-> Web, n |-> sent[Web] + 1])
  /\ UNCHANGED <<setup, life, boots, runVars, conn, running, rx, breaks, agent, dspVars, busOpen, fileVars,
                 said, handed>>

(* The peer closes the connection, or the heartbeat does because the loop, *)
(* which downloads a file or is in PublishInbound, has read no pong: then  *)
(* there is none to reconnect.                                             *)
Break(a) ==
  /\ conn[a] = "up" /\ breaks < setup.breaks
  /\ breaks' = breaks + 1
  /\ \E c \in {"broken"} \cup (IF rx[a] \in {"have", "publish"} THEN {"gone"} ELSE {}) : conn' = [conn EXCEPT ![a] = c]
  /\ UNCHANGED <<setup, life, boots, runVars, running, rx, sent, inbound, agent, dspVars, busOpen, fileVars,
                 said, handed>>

(* The loop sees that its connection is gone.                              *)
LoopEnds(a) ==
  /\ rx[a] = "read" /\ conn[a] # "up"
  /\ rx' = [rx EXCEPT ![a] = "off"]
  /\ UNCHANGED <<setup, life, boots, runVars, conn, running, sent, breaks, inbound, agent, dspVars, busOpen,
                 fileVars, said, handed>>

(* scheduleReconnect, which only a failed read starts.                     *)
Reconnect(a) ==
  /\ conn[a] = "broken" /\ rx[a] = "off"
  /\ conn' = [conn EXCEPT ![a] = "up"] /\ rx' = [rx EXCEPT ![a] = "read"]
  /\ UNCHANGED <<setup, life, boots, runVars, running, sent, breaks, inbound, agent, dspVars, busOpen, fileVars,
                 said, handed>>

-----------------------------------------------------------------------------
(* processMessages.  Its context is that of the command, which ends with   *)
(* Stop of the agent manager. Mutant: Stop waits without cancelling.       *)
CancelledAtAbort == life = "abort"

Cancelled == life \in {"abort", "agents"}

AgentTake ==
  /\ agent.pc = "wait" /\ inbound # <<>>
  /\ inbound' = Tail(inbound)
  /\ agent' = [agent EXCEPT !.pc = "run", !.todo = [k \in DOMAIN setup.answers |->
                 [ch |-> Head(inbound).ch, n |-> Head(inbound).n, k |-> k, kind |-> setup.answers[k]]]]
  /\ UNCHANGED <<setup, life, boots, runVars, conn, running, rx, sent, breaks, dspVars, busOpen, fileVars,
                 said, handed>>

(* fanout: to the subscription, if there is one with room.                 *)
Broadcast(d, msg) ==
  IF open[d] /\ Len(buf[d]) < SubCap
  THEN /\ buf' = [buf EXCEPT ![d] = Append(@, msg)]
       /\ said' = IF d = "out" THEN Append(said, msg) ELSE said
  ELSE UNCHANGED <<buf, said>>

(* PublishOutbound and PublishChatEvent; a request waits for its response. *)
AgentSay ==
  /\ agent.pc = "run" /\ agent.todo # <<>> /\ busOpen
  /\ LET msg == Head(agent.todo)
     IN /\ agent' = [pc |-> IF msg.kind \in Requests THEN "ask" ELSE "run", todo |-> Tail(agent.todo),
                      asked |-> IF msg.kind \in Requests THEN msg ELSE Nothing]
        /\ Broadcast(IF msg.kind = "event" THEN "chat" ELSE "out", msg)
  /\ UNCHANGED <<setup, life, boots, runVars, netVars, dsp, field, open, busOpen, fileVars, handed>>

(* WaitForResponse: an answer, or its timeout.                             *)
AgentResume ==
  /\ agent.pc = "ask"
  /\ agent' = [agent EXCEPT !.pc = "run", !.asked = Nothing]
  /\ UNCHANGED <<setup, life, boots, runVars, netVars, dspVars, busOpen, fileVars, said, handed>>

AgentIdle ==
  /\ agent.pc = "run" /\ agent.todo = <<>>
  /\ agent' = [agent EXCEPT !.pc = "wait"]
  /\ UNCHANGED <<setup, life, boots, runVars, netVars, dspVars, busOpen, fileVars, said, handed>>

AgentExit ==
  /\ agent.pc \in {"wait", "run", "ask"} /\ Cancelled
  /\ agent' = [pc |-> "exit", todo |-> <<>>, asked |-> Nothing]
  /\ UNCHANGED <<setup, life, boots, runVars, netVars, dspVars, busOpen, fileVars, said, handed>>

-----------------------------------------------------------------------------
(* dispatchOutbound, dispatchChatEvents: the field is read for every       *)
(* message.  A dispatcher that finds it nil ends the process.              *)
Look(d) ==
  /\ dsp[d].pc = "look" /\ field[d]
  /\ dsp' = [dsp EXCEPT ![d].pc = "recv"]
  /\ UNCHANGED <<setup, life, boots, runVars, netVars, agent, field, open, buf, busOpen, fileVars, said, handed>>

Panic(d) == dsp[d].pc = "look" /\ ~field[d] /\ Exit

Take(d) ==
  /\ dsp[d].pc = "recv" /\ buf[d] # <<>>
  /\ dsp' = [dsp EXCEPT ![d] = [pc |-> "have", msg |-> Head(buf[d])]]
  /\ buf' = [buf EXCEPT ![d] = Tail(@)]
  /\ UNCHANGED <<setup, life, boots, runVars, netVars, agent, field, open, busOpen, fileVars, said, handed>>

DispatcherEnds(d) ==
  /\ dsp[d].pc = "recv" /\ buf[d] = <<>> /\ ~open[d]
  /\ dsp' = [dsp EXCEPT ![d].pc = "done"]
  /\ UNCHANGED <<setup, life, boots, runVars, netVars, agent, field, open, buf, busOpen, fileVars, said, handed>>

Back(d, pc) == dsp' = [dsp EXCEPT ![d].pc = pc]

(* Responses that nobody waited for are not for the channels.              *)
Skip ==
  /\ dsp["out"].pc = "have" /\ dsp["out"].msg.kind = "response"
  /\ Back("out", "look")
  /\ UNCHANGED <<setup, life, boots, runVars, netVars, agent, field, open, buf, busOpen, fileVars, said, handed>>

(* handleRequest: an error if there is no such channel, a response to a    *)
(* send_file request, nothing to others.                                   *)
HandleRequest ==
  LET msg == dsp["out"].msg
  IN /\ dsp["out"].pc = "have" /\ msg.kind \in Requests /\ ~Locked
     /\ Back("out", IF msg.kind = "file" \/ msg.ch \notin channels THEN "answer" ELSE "look")
     /\ UNCHANGED <<setup, life, boots, runVars, netVars, agent, field, open, buf, busOpen, fileVars, said, handed>>

(* PublishOutbound of the response.  The manager of requests takes it if   *)
(* its request still waits; if not, it is broadcast.  Nobody gets in while *)
(* Close waits.                                                            *)
AnswerRequest ==
  LET msg == dsp["out"].msg
  IN /\ dsp["out"].pc = "answer" /\ life # "bus"
     /\ Back("out", "look")
     /\ IF ~busOpen THEN UNCHANGED <<agent, buf, said>>
        ELSE IF agent.asked = msg THEN agent' = [agent EXCEPT !.asked = Nothing] /\ UNCHANGED <<buf, said>>
        ELSE Broadcast("out", [msg EXCEPT !.kind = "response"]) /\ UNCHANGED agent
     /\ UNCHANGED <<setup, life, boots, runVars, netVars, field, open, busOpen, fileVars, handed>>

(* Mutant: the bindings are not asked.                                     *)
DeliverUnbound ==
  LET msg == dsp["out"].msg
  IN /\ dsp["out"].pc = "have" /\ msg.kind \in {"stream", "final"} /\ ~Locked
     /\ IF msg.ch \notin channels THEN Back("out", "look") /\ UNCHANGED handed
        ELSE /\ handed' = Append(handed, <<msg, msg.ch>>)
             /\ Back("out", IF IsRunning(msg.ch) THEN "send" ELSE "look")
     /\ UNCHANGED <<setup, life, boots, runVars, netVars, agent, field, open, buf, busOpen, fileVars, said>>

(* Send or SendStream of the channel the chat is bound to; one that is not *)
(* connected drops the message without an error.                           *)
Deliver ==
  LET msg == dsp["out"].msg
      target == ResolveChannel(bound, msg.ch)
  IN /\ dsp["out"].pc = "have" /\ msg.kind \in {"stream", "final"} /\ ~Locked
     /\ IF target \notin channels THEN Back("out", "look") /\ UNCHANGED handed
        ELSE /\ handed' = Append(handed, <<msg, target>>)
             /\ Back("out", IF IsRunning(target) THEN "send" ELSE "look")
     /\ UNCHANGED <<setup, life, boots, runVars, netVars, agent, field, open, buf, busOpen, fileVars, said>>

(* The acknowledgement, its timeout, or the end of the connection.         *)
SendEnds ==
  /\ dsp["out"].pc = "send" /\ Back("out", "look")
  /\ UNCHANGED <<setup, life, boots, runVars, netVars, agent, field, open, buf, busOpen, fileVars, said, handed>>

(* HandleChatEvent does nothing but log.                                   *)
HandleEvent ==
  /\ dsp["chat"].pc = "have" /\ ~Locked /\ Back("chat", "look")
  /\ UNCHANGED <<setup, life, boots, runVars, netVars, agent, field, open, buf, busOpen, fileVars, said, handed>>

-----------------------------------------------------------------------------
(* UpdateConfig, for a client's config_update: one at a time.              *)
Update(c) ==
  /\ life = "serve" /\ mem # Blank /\ upd.pc = "idle" /\ edits < setup.edits /\ Valid(c) /\ c # file
  /\ edits' = edits + 1 /\ upd' = [pc |-> "backup", new |-> c]
  /\ UNCHANGED <<setup, life, boots, runVars, netVars, agent, dspVars, busOpen, file, bak, mem, accepted, touched,
                 said, handed>>

UpdateStep(from, to) ==
  /\ upd.pc = from /\ upd' = [upd EXCEPT !.pc = to]
  /\ UNCHANGED <<setup, life, boots, runVars, netVars, agent, dspVars, busOpen, edits, said, handed>>

(* backupConfig truncates the file and writes it; its failure is a         *)
(* warning.                                                                *)
Truncate == UpdateStep("backup", "write") /\ bak' = Torn /\ UNCHANGED <<file, mem, accepted, touched>>
Backup == UpdateStep("write", "temp") /\ bak' \in {mem, Torn} /\ UNCHANGED <<file, mem, accepted, touched>>

(* Mutant: the file itself is truncated and written.                       *)
WriteInPlace == UpdateStep("temp", "rename") /\ file' = Torn /\ UNCHANGED <<bak, mem, accepted, touched>>

(* atomicWriteFile: the temporary file may fail.                           *)
WriteTemp == \E to \in {"rename", "idle"} : UpdateStep("temp", to) /\ UNCHANGED <<file, bak, mem, accepted, touched>>

Rename ==
  /\ UpdateStep("rename", "remember")
  /\ file' = upd.new /\ touched' = FALSE /\ accepted' = Blank /\ UNCHANGED <<bak, mem>>

Remember ==
  /\ UpdateStep("remember", "idle")
  /\ mem' = upd.new /\ accepted' = (IF touched THEN Blank ELSE upd.new) /\ UNCHANGED <<file, bak, touched>>

(* A user's editor.                                                        *)
HandEdit(c) ==
  /\ edits < setup.edits /\ c # file /\ edits' = edits + 1
  /\ file' = c /\ touched' = TRUE /\ accepted' = Blank
  /\ UNCHANGED <<setup, life, boots, runVars, netVars, agent, dspVars, busOpen, bak, mem, upd, said, handed>>

-----------------------------------------------------------------------------
Configs == UNION {s.updates \cup s.written : s \in Setups}

Process ==
  \/ Create \/ CreateFails \/ StartDispatchers \/ OpenServer \/ GiveUp
  \/ \E a \in Accounts : StartChannel(a) \/ StopChannel(a)
  \/ StopServer \/ \E d \in Dispatchers : Unsubscribe(d) \/ Forget(d)
  \/ StopScheduler \/ AgentsStopped \/ CloseBus \/ Stopped

Loop(a) == LockBus(a) \/ PublishInbound(a) \/ LoopEnds(a)
Agent == AgentTake \/ AgentSay \/ AgentResume \/ AgentIdle \/ AgentExit
Dispatch(d) == Look(d) \/ Panic(d) \/ Take(d) \/ DispatcherEnds(d)
Outbound == Skip \/ HandleRequest \/ AnswerRequest \/ Deliver \/ SendEnds
Manager == Truncate \/ Backup \/ WriteTemp \/ Rename \/ Remember

Next ==
  \/ Boot \/ Process \/ Signal \/ Kill
  \/ \E a \in Accounts : Loop(a) \/ Receive(a) \/ Break(a) \/ Reconnect(a)
  \/ PublishWeb \/ Agent
  \/ \E d \in Dispatchers : Dispatch(d)
  \/ Outbound \/ HandleEvent \/ Manager
  \/ \E c \in Configs : (c \in setup.updates /\ Update(c)) \/ (c \in setup.written /\ HandEdit(c))

Spec == Init /\ [][Next]_vars

(* Goroutines that can run do, and an agent that is cancelled notices.     *)
(* Users, the network, signals and kills get no fairness.                  *)
FairSpec ==
  /\ Spec /\ WF_vars(Process) /\ WF_vars(Agent) /\ WF_vars(AgentExit) /\ WF_vars(Outbound) /\ WF_vars(HandleEvent)
  /\ \A a \in Accounts : WF_vars(Loop(a))
  /\ \A d \in Dispatchers : WF_vars(Dispatch(d))

-----------------------------------------------------------------------------
(* Every variable keeps its shape: where the process and its parts are,    *)
(* the network, the agent, the dispatchers and what they have in hand, and *)
(* the files.                                                              *)
Outgoing == [ch : Origins, n : Nat, k : Nat, kind : Answers \cup {"response"}]

ProcessOK ==
  /\ setup \in Setups /\ channels \subseteq Accounts /\ busOpen \in BOOLEAN
  /\ life \in {"down", "create", "start", "abort", "open", "serve", "server", "unsub", "nil", "channels",
               "agents", "bus", "closed"}
NetOK ==
  /\ conn \in [Accounts -> {"off", "up", "broken", "gone"}] /\ running \in [Accounts -> BOOLEAN]
  /\ rx \in [Accounts -> {"off", "read", "have", "publish"}] /\ sent \in [Origins -> Nat]
  /\ inbound \in Seq([ch : Origins, n : Nat]) /\ Len(inbound) <= InboundCap /\ breaks \in Nat
AgentOK ==
  agent \in [pc : {"off", "wait", "run", "ask", "exit"}, todo : Seq(Outgoing), asked : Outgoing \cup {Nothing}]
DispatchOK ==
  /\ dsp \in [Dispatchers -> [pc : {"off", "look", "recv", "have", "answer", "send", "done"},
                              msg : Outgoing \cup {Nothing}]]
  /\ \A d \in Dispatchers : dsp[d].pc \in {"have", "answer"} => dsp[d].msg \in Outgoing
  /\ field \in [Dispatchers -> BOOLEAN] /\ open \in [Dispatchers -> BOOLEAN]
  /\ buf \in [Dispatchers -> Seq(Outgoing)] /\ said \in Seq(Outgoing) /\ handed \in Seq(Outgoing \X Accounts)
  /\ \A d \in Dispatchers : Len(buf[d]) <= SubCap
FilesOK ==
  LET files == {setup.file} \cup setup.updates \cup setup.written
  IN /\ file \in files /\ (life # "down" => config \in files)
     /\ {mem, accepted} \subseteq files \cup {Blank} /\ bak \in files \cup {Blank, Torn}
     /\ upd \in [pc : {"idle", "backup", "write", "temp", "rename", "remember"}, new : files \cup {Blank}]
     /\ upd.pc # "idle" => upd.new \in setup.updates
     /\ {boots, edits} \subseteq Nat /\ touched \in BOOLEAN

TypeOK == ProcessOK /\ NetOK /\ AgentOK /\ DispatchOK /\ FilesOK

(* What a configuration makes of agents: sub-agents before those that have *)
(* them, all of them, a failure only for a configuration that has a circle *)
(* or lacks something, and no provider is called with the key of another   *)
(* one (topologicalSortAgents, ResolveAgentConfig).                        *)
AgentsRight == life = "down" /\ boots = 0 => ConfigRight(file)

(* What a configuration makes of tools: an agent has the tools that are    *)
(* configured and allowed, one of its own unless an MCP server had that    *)
(* name first, and a call that is listed for approval runs after a yes of  *)
(* its own (registerBuiltinTools, applyToolConfig, WrapInvokableToolCall,  *)
(* handleInterrupt, Resume).                                               *)
AgentsGuarded ==
  life = "down" /\ boots = 0 =>
    LET agents == RegisterAgents(file)
    IN agents # Failed =>
         \A n \in DOMAIN agents :
           /\ ToolsRight(agents[n].opts)
           /\ \A names \in setup.calls, replies \in setup.replies :
                ToSet(names) \subseteq DOMAIN NewAgent(agents[n].opts).tools =>
                  CallsRight(NewAgent(agents[n].opts), names, replies)

(* What users and WeCom are answered, see AnswerRight, whatever the frame  *)
(* and however the run goes (handleMessage, handleEvent,                   *)
(* publishFinalOutbound, Send, SendStream).                                *)
Addressed ==
  life = "down" /\ boots = 0 /\ setup.frame # None =>
    \A how \in Ways, chunks \in setup.chunks, announced \in BOOLEAN, think \in {None, <<"thought">>} :
      AnswerRight(setup.frame, how, chunks, announced, <<"said">>, think)

(* UpdateConfig, whatever fails or is killed: the file is never half       *)
(* written, an update that was acknowledged is what the next start reads,  *)
(* unless a user wrote the file since, and the manager's copy is what is   *)
(* on the disk.                                                            *)
ConfigWhole ==
  /\ file # Torn
  /\ accepted # Blank => file = accepted
  /\ life = "serve" /\ upd.pc # "remember" /\ ~touched => mem = file

(* The dispatcher gives each message once and in the order of the bus to   *)
(* the channel its chat is bound to, and requests and stray responses to   *)
(* none.                                                                   *)
Destination(o) ==
  LET mine == {i \in DOMAIN config.bindings : config.bindings[i].key = o}
  IN IF mine = {} THEN o ELSE config.bindings[Max(mine)].target
Passed ==
  Len(said) - Len(buf["out"]) - (IF dsp["out"].pc = "have" THEN 1 ELSE 0)
Due ==
  {i \in 1..Passed : said[i].kind \in {"stream", "final"} /\ Destination(said[i].ch) \in channels}
Dispatched ==
  life # "down" /\ channels # {} =>
    /\ Len(handed) = Cardinality(Due)
    /\ \A i \in Due : handed[Cardinality({j \in Due : j <= i})] = <<said[i], Destination(said[i].ch)>>

(* Stop comes to an end, in the order of its steps, with the dispatchers,  *)
(* loops and agents doing what they do, unless it is stuck: the agents are *)
(* gone, the inbound queue is full, and a receive loop waits for room with *)
(* the lock Close needs.                                                   *)
Stuck == life = "bus" /\ Len(inbound) = InboundCap /\ \E a \in Accounts : rx[a] = "publish"
Stopping == life \in {"abort", "server", "unsub", "nil", "channels", "agents", "bus", "closed"}
StopEnds == []<>(~Stopping \/ Stuck)
=============================================================================
