------------------------------- MODULE WsHub -------------------------------
(***************************************************************************)
(* The WebSocket server (src/gateway/ws/server.go) and its connections     *)
(* (connection.go): handshakes, the read and the send loop of a            *)
(* connection, Close from either loop or from Server.Stop, and the         *)
(* dispatchers that broadcast what the bus hands them.                     *)
(*                                                                         *)
(* A dispatcher holds connMu's read lock over a whole broadcast; the other *)
(* sections under connMu, subMu and closeMu are one step each.  Send looks *)
(* at closed under closeMu and sends on sendChan after it has left it.  A  *)
(* full sendChan drops the frame and logs a warning, which comes back as   *)
(* an event of the log dispatcher.                                         *)
(*                                                                         *)
(* No property depends on what a frame says: sendChan is the number of its *)
(* frames, a subscription is "all", or "some" and then may match or not.   *)
(***************************************************************************)
EXTENDS Naturals, FiniteSets

CONSTANTS
  Conns,        \* connections, each made once
  Dispatchers,  \* "log", and "out" for the two that look at subscriptions
  NoConn,
  SendCap,      \* capacity of sendChan (100)
  LogCap,       \* log events the bus keeps for the dispatcher (100)
  Inputs        \* bound: how often each kind of input happens, in several ways

(* Events of the bus, messages of a client, and clients that go away or    *)
(* stop reading.                                                           *)
InputKinds == {"event", "message", "leave", "stall"}

ASSUME HubAssumption ==
  /\ Dispatchers \subseteq {"out", "log"}
  /\ NoConn \notin Conns
  /\ SendCap \in Nat \ {0} /\ LogCap \in Nat
  /\ Inputs \subseteq [InputKinds -> Nat]

VARIABLES
  server,        \* "up", then Stop: "sweep", "close", "stopped"
  toClose,       \* Stop's copy of the connections, those still to be closed
  connections,   \* the keys of s.connections
  subscriptions, \* s.subscriptions
  readers,       \* the dispatchers inside connMu.RLock
  closed,        \* the connections whose closed flag is set
  closing,       \* how far each connection's Close is
  closer,        \* who runs it
  sendOpen,      \* the connections whose sendChan is open
  sendChan,      \* the number of frames in it
  reader, sender, \* where the two loops of each connection are
  wsUp,          \* the connections whose socket works
  reads,         \* the clients that read what they are sent
  pending,       \* events each dispatcher's subscription holds
  disp,          \* "idle", "visit" or "done"
  todo,          \* connections its broadcast has still to visit
  hold,          \* the connection it is sending to
  late,          \* subscriptions made anew after their connection was removed
  inputs,        \* those of each kind that are still to come
  panicked       \* "no", or what hit a closed channel

mapVars  == <<connections, subscriptions, late>>
connVars == <<closed, closing, closer, sendOpen, wsUp>>
dispVars == <<readers, disp, todo, hold>>
stopVars == <<server, toClose>>
hubVars == <<mapVars, connVars, dispVars, stopVars, sendChan, reader, sender, reads,
          pending, inputs, panicked>>

HubInit ==
  /\ server = "up" /\ toClose = {}
  /\ connections = {} /\ subscriptions = [c \in Conns |-> "none"] /\ late = {}
  /\ closed = {} /\ sendOpen = Conns /\ wsUp = Conns /\ reads = Conns
  /\ closing = [c \in Conns |-> "no"] /\ closer = [c \in Conns |-> "none"]
  /\ sendChan = [c \in Conns |-> 0]
  /\ reader = [c \in Conns |-> "none"] /\ sender = [c \in Conns |-> "none"]
  /\ readers = {} /\ disp = [d \in Dispatchers |-> "idle"]
  /\ todo = [d \in Dispatchers |-> {}] /\ hold = [d \in Dispatchers |-> NoConn]
  /\ pending = [d \in Dispatchers |-> 0]
  /\ inputs \in Inputs /\ panicked = "no"

Come(kind) == inputs[kind] > 0 /\ inputs' = [inputs EXCEPT ![kind] = @ - 1]

-----------------------------------------------------------------------------
(* handleWebSocket: the connection enters s.connections (a handshake that  *)
(* has been upgraded is out of Shutdown's reach) ...                       *)
Register(c) ==
  /\ reader[c] = "none" /\ readers = {}
  /\ connections' = connections \cup {c}
  /\ reader' = [reader EXCEPT ![c] = "starting"]
  /\ UNCHANGED <<subscriptions, late, connVars, dispVars, stopVars, sendChan, sender,
                 reads, pending, inputs, panicked>>

(* ... is subscribed to everything, and Handle starts its two loops.       *)
Handle(c) ==
  /\ reader[c] = "starting"
  /\ subscriptions' = [subscriptions EXCEPT ![c] = "all"]
  /\ late' = IF c \in closed THEN late \cup {c} ELSE late
  /\ reader' = [reader EXCEPT ![c] = "read"]
  /\ sender' = [sender EXCEPT ![c] = "take"]
  /\ UNCHANGED <<connections, connVars, dispVars, stopVars, sendChan, reads, pending,
                 inputs, panicked>>

(* The client goes away, or stops reading: WriteMessage then blocks,       *)
(* without a deadline, until the socket is closed.                         *)
Leave(c) ==
  /\ reader[c] # "none" /\ c \in wsUp /\ Come("leave")
  /\ wsUp' = wsUp \ {c}
  /\ UNCHANGED <<mapVars, closed, closing, closer, sendOpen, dispVars, stopVars, sendChan,
                 reader, sender, reads, pending, panicked>>

Stall(c) ==
  /\ reader[c] # "none" /\ c \in reads /\ Come("stall")
  /\ reads' = reads \ {c}
  /\ UNCHANGED <<mapVars, connVars, dispVars, stopVars, sendChan, reader, sender,
                 pending, panicked>>

-----------------------------------------------------------------------------
(* Mutant: the send waits for room, or for the channel to be closed, which *)
(* is a panic.                                                             *)
SendWaits(c, who) ==
  IF c \notin sendOpen
  THEN panicked' = who /\ UNCHANGED <<sendChan, pending>>
  ELSE /\ sendChan[c] < SendCap
       /\ sendChan' = [sendChan EXCEPT ![c] = @ + 1]
       /\ UNCHANGED <<pending, panicked>>

(* The second half of Send: what does not fit is dropped with a warning,   *)
(* which the bus keeps as a log event if it has room and still a           *)
(* subscription.                                                           *)
Send(c, who) ==
  IF c \notin sendOpen
  THEN panicked' = who /\ UNCHANGED <<sendChan, pending>>
  ELSE /\ IF sendChan[c] < SendCap
          THEN sendChan' = [sendChan EXCEPT ![c] = @ + 1] /\ UNCHANGED pending
          ELSE /\ pending' = IF server = "up" /\ pending["log"] < LogCap
                             THEN [pending EXCEPT !["log"] = @ + 1] ELSE pending
               /\ UNCHANGED sendChan
       /\ UNCHANGED panicked

(* Close: the first caller sets the flag and goes on with Removal,         *)
(* Shutting and HangingUp; every other one is done.  A loop that closes    *)
(* then ends.                                                              *)
Close(c, who) ==
  IF c \in closed THEN UNCHANGED <<closed, closing, closer>>
  ELSE /\ closed' = closed \cup {c}
       /\ closing' = [closing EXCEPT ![c] = "remove"]
       /\ closer' = [closer EXCEPT ![c] = who]

(* Mutant: the channel is closed before the connection is removed.         *)
RemoveLast(c) ==
  \/ /\ closing[c] = "remove"
     /\ closing' = [closing EXCEPT ![c] = "forget"]
     /\ sendOpen' = sendOpen \ {c}
     /\ UNCHANGED <<connections, subscriptions, panicked>>
  \/ /\ closing[c] = "forget" /\ readers = {}
     /\ connections' = connections \ {c}
     /\ subscriptions' = [subscriptions EXCEPT ![c] = "none"]
     /\ closing' = [closing EXCEPT ![c] = "hang up"]
     /\ UNCHANGED <<sendOpen, panicked>>

(* Mutant: a connection that Stop has taken out of the map keeps its       *)
(* subscription.                                                           *)
RemoveListed(c) ==
  \/ /\ closing[c] = "remove" /\ readers = {}
     /\ connections' = connections \ {c}
     /\ closing' = [closing EXCEPT ![c] = IF c \in connections THEN "forget" ELSE "shut"]
     /\ UNCHANGED <<subscriptions, sendOpen, panicked>>
  \/ /\ closing[c] = "forget"
     /\ subscriptions' = [subscriptions EXCEPT ![c] = "none"]
     /\ closing' = [closing EXCEPT ![c] = "shut"]
     /\ UNCHANGED <<connections, sendOpen, panicked>>
  \/ /\ closing[c] = "shut"
     /\ sendOpen' = sendOpen \ {c}
     /\ closing' = [closing EXCEPT ![c] = "hang up"]
     /\ UNCHANGED <<connections, subscriptions, panicked>>

(* RemoveConnection in its two sections, then close(sendChan).             *)
Removal(c) ==
  \/ /\ closing[c] = "remove" /\ readers = {}
     /\ connections' = connections \ {c}
     /\ closing' = [closing EXCEPT ![c] = "forget"]
     /\ UNCHANGED <<subscriptions, sendOpen, panicked>>
  \/ /\ closing[c] = "forget"
     /\ subscriptions' = [subscriptions EXCEPT ![c] = "none"]
     /\ closing' = [closing EXCEPT ![c] = "shut"]
     /\ UNCHANGED <<connections, sendOpen, panicked>>
  \/ /\ closing[c] = "shut"
     /\ panicked' = IF c \in sendOpen THEN panicked ELSE "close"
     /\ sendOpen' = sendOpen \ {c}
     /\ closing' = [closing EXCEPT ![c] = "hang up"]
     /\ UNCHANGED <<connections, subscriptions>>

Remove(c) ==
  /\ Removal(c)
  /\ UNCHANGED <<late, closed, closer, wsUp, dispVars, stopVars, sendChan, reader, sender,
                 reads, pending, inputs>>

(* wsConn.Close, and the caller of Close goes on.                          *)
HangUp(c) ==
  /\ closing[c] = "hang up"
  /\ wsUp' = wsUp \ {c}
  /\ closing' = [closing EXCEPT ![c] = "done"]
  /\ reader' = IF closer[c] = "reader" THEN [reader EXCEPT ![c] = "done"] ELSE reader
  /\ sender' = IF closer[c] = "sender" THEN [sender EXCEPT ![c] = "done"] ELSE sender
  /\ toClose' = IF closer[c] = "stop" THEN toClose \ {c} ELSE toClose
  /\ UNCHANGED <<mapVars, closed, closer, sendOpen, dispVars, server, sendChan, reads,
                 pending, inputs, panicked>>

-----------------------------------------------------------------------------
(* readLoop.  A message publishes, subscribes, or is answered at once; the *)
(* answer looks at the closed flag first.                                  *)
Read(c, kind) ==
  /\ reader[c] = "read" /\ c \in wsUp /\ Come("message")
  /\ reader' = [reader EXCEPT ![c] = IF kind = "reply" /\ c \in closed THEN "read" ELSE kind]
  /\ UNCHANGED <<mapVars, connVars, dispVars, stopVars, sendChan, sender, reads, pending,
                 panicked>>

(* PublishInbound may wait for the bus until the server's context ends; a  *)
(* failure is answered.                                                    *)
Published(c) ==
  /\ reader[c] = "publish"
  /\ \/ reader' = [reader EXCEPT ![c] = "read"]
     \/ c \notin closed /\ reader' = [reader EXCEPT ![c] = "reply"]
  /\ UNCHANGED <<mapVars, connVars, dispVars, stopVars, sendChan, sender, reads, pending,
                 inputs, panicked>>

Reply(c) ==
  /\ reader[c] = "reply"
  /\ Send(c, "reply")
  /\ reader' = [reader EXCEPT ![c] = "read"]
  /\ UNCHANGED <<mapVars, connVars, dispVars, stopVars, sender, reads, inputs>>

(* UpdateSubscription: look up or make the entry, ...                      *)
LookUp(c) ==
  /\ reader[c] = "subscribe"
  /\ subscriptions' = [subscriptions EXCEPT ![c] = IF @ = "none" THEN "all" ELSE @]
  /\ late' = IF subscriptions[c] = "none" THEN late \cup {c} ELSE late
  /\ reader' = [reader EXCEPT ![c] = "update"]
  /\ UNCHANGED <<connections, connVars, dispVars, stopVars, sendChan, sender, reads,
                 pending, inputs, panicked>>

(* ... and write to it without the lock, wherever it is by now.            *)
Update(c) ==
  /\ reader[c] = "update"
  /\ subscriptions' = [subscriptions EXCEPT ![c] = IF @ = "none" THEN @ ELSE "some"]
  /\ reader' = [reader EXCEPT ![c] = "read"]
  /\ UNCHANGED <<connections, late, connVars, dispVars, stopVars, sendChan, sender, reads,
                 pending, inputs, panicked>>

ReadFails(c) ==
  /\ reader[c] = "read" /\ c \notin wsUp
  /\ Close(c, "reader")
  /\ reader' = [reader EXCEPT ![c] = IF c \in closed THEN "done" ELSE "closing"]
  /\ UNCHANGED <<mapVars, sendOpen, wsUp, dispVars, stopVars, sendChan, sender, reads,
                 pending, inputs, panicked>>

(* sendLoop.                                                               *)
Take(c) ==
  /\ sender[c] = "take"
  /\ IF sendChan[c] > 0
     THEN /\ sendChan' = [sendChan EXCEPT ![c] = @ - 1]
          /\ sender' = [sender EXCEPT ![c] = "write"]
     ELSE /\ c \notin sendOpen
          /\ sender' = [sender EXCEPT ![c] = "done"]
          /\ UNCHANGED sendChan
  /\ UNCHANGED <<mapVars, connVars, dispVars, stopVars, reader, reads, pending, inputs,
                 panicked>>

Write(c) ==
  /\ sender[c] = "write" /\ c \in wsUp \cap reads
  /\ sender' = [sender EXCEPT ![c] = "take"]
  /\ UNCHANGED <<mapVars, connVars, dispVars, stopVars, sendChan, reader, reads, pending,
                 inputs, panicked>>

WriteFails(c) ==
  /\ sender[c] = "write" /\ c \notin wsUp
  /\ Close(c, "sender")
  /\ sender' = [sender EXCEPT ![c] = IF c \in closed THEN "done" ELSE "closing"]
  /\ UNCHANGED <<mapVars, sendOpen, wsUp, dispVars, stopVars, sendChan, reader, reads,
                 pending, inputs, panicked>>

-----------------------------------------------------------------------------
(* The bus hands a dispatcher an event.                                    *)
PublishEvent(d) ==
  /\ server = "up" /\ Come("event")
  /\ pending' = [pending EXCEPT ![d] = @ + 1]
  /\ UNCHANGED <<mapVars, connVars, dispVars, stopVars, sendChan, reader, sender, reads,
                 panicked>>

(* broadcastToSubscribers and broadcastToAll: RLock, ...                   *)
Begin(d) ==
  /\ disp[d] = "idle" /\ pending[d] > 0
  /\ pending' = [pending EXCEPT ![d] = @ - 1]
  /\ disp' = [disp EXCEPT ![d] = "visit"]
  /\ readers' = readers \cup {d}
  /\ todo' = [todo EXCEPT ![d] = connections]
  /\ UNCHANGED <<mapVars, connVars, hold, stopVars, sendChan, reader, sender, reads, inputs,
                 panicked>>

(* ... for each connection matchSubscription and the first half of Send,   *)
(* ...                                                                     *)
Matches(d, c) == d = "log" \/ subscriptions[c] # "none"
MayPass(d, c) == d = "out" /\ subscriptions[c] = "some"

Visit(d, c) ==
  /\ disp[d] = "visit" /\ hold[d] = NoConn /\ c \in todo[d]
  /\ todo' = [todo EXCEPT ![d] = @ \ {c}]
  /\ \/ Matches(d, c) /\ c \notin closed /\ hold' = [hold EXCEPT ![d] = c]
     \/ (~Matches(d, c) \/ MayPass(d, c) \/ c \in closed) /\ UNCHANGED hold
  /\ UNCHANGED <<mapVars, connVars, readers, disp, stopVars, sendChan, reader, sender, reads,
                 pending, inputs, panicked>>

(* ... the second half, ...                                                *)
SendTo(d, c) ==
  /\ hold[d] = c
  /\ Send(c, "broadcast")
  /\ hold' = [hold EXCEPT ![d] = NoConn]
  /\ UNCHANGED <<mapVars, connVars, readers, disp, todo, stopVars, reader, sender, reads,
                 inputs>>

(* ... RUnlock.                                                            *)
End(d) ==
  /\ disp[d] = "visit" /\ hold[d] = NoConn /\ todo[d] = {}
  /\ disp' = [disp EXCEPT ![d] = "idle"]
  /\ readers' = readers \ {d}
  /\ UNCHANGED <<mapVars, connVars, todo, hold, stopVars, sendChan, reader, sender, reads,
                 pending, inputs, panicked>>

(* The subscription is closed and empty.                                   *)
Exit(d) ==
  /\ disp[d] = "idle" /\ server # "up" /\ pending[d] = 0
  /\ disp' = [disp EXCEPT ![d] = "done"]
  /\ UNCHANGED <<mapVars, connVars, readers, todo, hold, stopVars, sendChan, reader, sender,
                 reads, pending, inputs, panicked>>

-----------------------------------------------------------------------------
(* Server.Stop: cancel, unsubscribe, ...                                   *)
StopServer ==
  /\ server = "up"
  /\ server' = "sweep"
  /\ UNCHANGED <<mapVars, connVars, dispVars, toClose, sendChan, reader, sender, reads,
                 pending, inputs, panicked>>

(* ... replace the map, ...                                                *)
Sweep ==
  /\ server = "sweep" /\ readers = {}
  /\ server' = "close"
  /\ toClose' = connections /\ connections' = {}
  /\ UNCHANGED <<subscriptions, late, connVars, dispVars, sendChan, reader, sender, reads,
                 pending, inputs, panicked>>

(* ... close the connections of the old one, one after the other, ...      *)
StopClose(c) ==
  /\ server = "close" /\ c \in toClose
  /\ \A x \in toClose : closer[x] # "stop"
  /\ Close(c, "stop")
  /\ toClose' = IF c \in closed THEN toClose \ {c} ELSE toClose
  /\ UNCHANGED <<mapVars, sendOpen, wsUp, dispVars, server, sendChan, reader, sender, reads,
                 pending, inputs, panicked>>

(* ... and shut the listener down.                                         *)
StopEnd ==
  /\ server = "close" /\ toClose = {}
  /\ server' = "stopped"
  /\ UNCHANGED <<mapVars, connVars, dispVars, toClose, sendChan, reader, sender, reads,
                 pending, inputs, panicked>>

-----------------------------------------------------------------------------
Reading(c) ==
  \/ \E kind \in {"publish", "subscribe", "reply"} : Read(c, kind)
  \/ Published(c) \/ Reply(c) \/ LookUp(c) \/ Update(c) \/ ReadFails(c)

Sending(c) == Take(c) \/ Write(c) \/ WriteFails(c)

Dispatching(d) ==
  \/ Begin(d) \/ End(d) \/ Exit(d)
  \/ \E c \in Conns : Visit(d, c) \/ SendTo(d, c)

Stopping == StopServer \/ Sweep \/ StopEnd \/ \E c \in Conns : StopClose(c)

HubNext ==
  \/ \E c \in Conns : Register(c) \/ Handle(c) \/ Leave(c) \/ Stall(c)
  \/ \E c \in Conns : Reading(c) \/ Sending(c) \/ Remove(c) \/ HangUp(c)
  \/ \E d \in Dispatchers : PublishEvent(d) \/ Dispatching(d)
  \/ Stopping

HubSpec == HubInit /\ [][HubNext]_hubVars

(* Goroutines run.  Nothing is assumed of clients, nor of the bus before   *)
(* the server's context ends.  A writer that waits for connMu keeps new    *)
(* readers out and so gets it: strong fairness.                            *)
HubFairness ==
  /\ \A c \in Conns :
       /\ WF_hubVars(Handle(c)) /\ SF_hubVars(Remove(c)) /\ WF_hubVars(HangUp(c))
       /\ WF_hubVars(server # "up" /\ Published(c))
       /\ WF_hubVars(Reply(c) \/ LookUp(c) \/ Update(c) \/ ReadFails(c))
       /\ WF_hubVars(Sending(c))
  /\ \A d \in Dispatchers : WF_hubVars(Dispatching(d))
  /\ SF_hubVars(Sweep) /\ WF_hubVars(StopEnd \/ \E c \in Conns : StopClose(c))

HubFairSpec == HubSpec /\ HubFairness

-----------------------------------------------------------------------------
(* Every variable keeps its shape: the server and its maps, the            *)
(* connections, of which a set flag and a Close under way say the same,    *)
(* their loops, and the dispatchers, of which those in a broadcast are the *)
(* readers of connMu.                                                      *)
ServerOK ==
  /\ server \in {"up", "sweep", "close", "stopped"}
  /\ toClose \subseteq Conns /\ connections \subseteq Conns /\ late \subseteq Conns
  /\ subscriptions \in [Conns -> {"none", "all", "some"}]

ConnOK ==
  /\ closed \subseteq Conns /\ sendOpen \subseteq Conns
  /\ wsUp \subseteq Conns /\ reads \subseteq Conns
  /\ closing \in [Conns -> {"no", "remove", "forget", "shut", "hang up", "done"}]
  /\ closer \in [Conns -> {"none", "reader", "sender", "stop"}]
  /\ \A c \in Conns : c \in closed <=> closing[c] # "no"

LoopOK ==
  /\ sendChan \in [Conns -> 0..SendCap]
  /\ reader \in [Conns -> {"none", "starting", "read", "publish", "subscribe", "update",
                           "reply", "closing", "done"}]
  /\ sender \in [Conns -> {"none", "take", "write", "closing", "done"}]
  /\ inputs \in [InputKinds -> Nat] /\ panicked \in {"no", "reply", "broadcast", "close"}

DispOK ==
  /\ disp \in [Dispatchers -> {"idle", "visit", "done"}]
  /\ readers = {d \in Dispatchers : disp[d] = "visit"}
  /\ todo \in [Dispatchers -> SUBSET Conns] /\ hold \in [Dispatchers -> Conns \cup {NoConn}]
  /\ pending \in [Dispatchers -> Nat]

HubTypeOK == ServerOK /\ ConnOK /\ LoopOK /\ DispOK

(* A broadcast never sends to a connection that Close has shut, although   *)
(* it looks at the flag first and sends later: RemoveConnection waits for  *)
(* the broadcast to end before sendChan is closed (connection.go:129).     *)
(* Only the answer of a connection's own read loop has no such protection. *)
BroadcastSafe == panicked \in {"no", "reply"}

(* A connection that has been closed is forgotten: it is in neither map,   *)
(* unless its subscription was made after the removal, by a message that   *)
(* was still being handled or by a handshake that Stop overtook.           *)
ClosedForgotten ==
  \A c \in Conns : closing[c] = "done" =>
    c \notin connections /\ (subscriptions[c] # "none" => c \in late)

(* Stop gets the map from the broadcasts, closes what it found and         *)
(* returns, and both loops of every closed connection end, whatever the    *)
(* clients do: one that does not read, a full sendChan or a broadcast in   *)
(* progress hold nothing up. A message that waits for the bus is let go    *)
(* when the server stops.                                                  *)
ShutsDown ==
  []<>(\/ panicked # "no"
       \/ /\ server \in {"up", "stopped"}
          /\ \A c \in closed : \/ reader[c] = "done" /\ sender[c] = "done"
                               \/ server = "up" /\ reader[c] = "publish")
=============================================================================
