--------------------------- MODULE WxComReplies ---------------------------
(***************************************************************************)
(* The reply queues of the WeCom channel (src/channel/wxcom/ws.go).        *)
(*                                                                         *)
(* SendReply appends a message to the queue of its request id, wakes a     *)
(* worker unless the request is marked as being processed, and waits for   *)
(* the answer.  A worker sends the messages of one request one after the   *)
(* other, each after the acknowledgement or the timeout of the one before, *)
(* and then takes the mark away.  When the connection is lost the receive  *)
(* loop clears acknowledgements, queues and marks, in three steps, twice,  *)
(* the workers stop, and after a delay it connects again; Disconnect       *)
(* clears them too.                                                        *)
(*                                                                         *)
(* Messages are numbered in the order in which they are queued.  A frame   *)
(* and the acknowledgement registered for it are named by worker and       *)
(* message. The delay before a reconnection (a second at least) is long    *)
(* enough for everything that does not wait for the server or for each     *)
(* other: the receive loop, the cleanup and the reconnection are one       *)
(* process, loop. SendCommand and the heartbeat's counting are not         *)
(* modelled; the callers' context ends with the program.                   *)
(***************************************************************************)
EXTENDS Naturals, Sequences, FiniteSets, SequencesExt

CONSTANTS
  Reqs,       \* request ids
  Senders,    \* goroutines that call SendReply
  Workers,    \* room for worker goroutines, more than Count: one that is busy
              \* when its connection ends outlives it
  Count,      \* workers started for a connection
  QueueCap,   \* messages one queue holds
  Nobody,
  MaxLosses,  \* bound on connections lost or closed
  MaxWork,    \* bound on messages and these connections together
  Crowd       \* bound on the callers at once when a connection is lost

ASSUME WxComAssumption ==
  /\ Count \in 1..Cardinality(Workers) /\ QueueCap \in Nat \ {0}
  /\ MaxLosses \in Nat /\ MaxWork \in Nat /\ Crowd \in Nat
  /\ Nobody \notin Reqs /\ Nobody \notin Workers \X (1..MaxWork)

VARIABLES
  queues,      \* m.replyQueues
  processing,  \* m.processingReqIDs
  sender,      \* what each caller of SendReply is doing, for which message
  reqOf,       \* the request of each message queued so far
  box,         \* what each message's result and err channels hold
  worker,      \* what each worker is doing, under which context
  pending,     \* m.pendingAcks: the acknowledgement waited for, or Nobody
  ackBox,      \* what the channels of each worker's acknowledgement hold
  timers,      \* timers that have fired and wait for m.pendingAcksMu
  ctx, ctxLive,      \* m.replyWorkerCtx: its number, and not yet cancelled
  alive,       \* the connection carries frames
  connected,   \* m.isConnected
  authed,      \* m.isAuthenticated
  manual,      \* m.isManualClose
  onWire,      \* frames sent on this connection and not acknowledged yet
  loop,        \* the receive loop, cleanup, scheduleReconnect and Connect
  stop,        \* Disconnect
  losses,      \* connections lost or closed so far
  lastSent,    \* history: the last message sent for each request
  disorder,    \* history: requests of which one was sent after a later one
  mistaken,    \* history: messages that took another's acknowledgement
  cleared,     \* history: requests cleared while they had messages or a worker
  givenUp,     \* history: requests of which an acknowledgement was given up
  missed       \* history: messages nobody was left to send when they came in

queueVars == <<queues, processing>>
itemVars  == <<reqOf, box>>
ackVars   == <<pending, ackBox, timers>>
linkVars  == <<alive, connected, authed, manual, onWire, losses>>
ctxVars   == <<ctx, ctxLive>>
histVars  == <<lastSent, disorder, mistaken, cleared, givenUp, missed>>
vars == <<queueVars, sender, itemVars, worker, ackVars, ctxVars, linkVars, loop,
          stop, histVars>>

Items == 1..MaxWork
Queued == Len(reqOf)
Used == Queued + losses
Calling == {s \in Senders : sender[s].pc # "free"}
CanLose == losses < MaxLosses /\ Used < MaxWork /\ Cardinality(Calling) <= Crowd
Off == [pc |-> "off", req |-> Nobody, item |-> 0, ctx |-> 0, out |-> "none"]
Idle(c) == [Off EXCEPT !.pc = "idle", !.ctx = c]
Resting == [pc |-> "free", item |-> 0]
At(phase, step) == [phase |-> phase, step |-> step]
Stopped == {w \in Workers : worker[w].pc = "off"}
Awaited == {pending[r] : r \in Reqs} \ {Nobody}

(* The messages of a request are looked at again by this worker.           *)
Serving(r) == {w \in Workers : worker[w].req = r /\ worker[w].pc # "clear"}
Notifying(r) == {s \in Senders : sender[s].pc = "notify" /\ reqOf[sender[s].item] = r}

(* The channel has been started: connected and authenticated.              *)
Init ==
  /\ queues = [r \in Reqs |-> <<>>] /\ processing = {}
  /\ sender = [s \in Senders |-> Resting]
  /\ reqOf = <<>> /\ box = [i \in Items |-> {}]
  /\ LET S == CHOOSE S \in SUBSET Workers : Cardinality(S) = Count IN
       worker = [w \in Workers |-> IF w \in S THEN Idle(1) ELSE Off]
  /\ pending = [r \in Reqs |-> Nobody] /\ ackBox = [w \in Workers |-> {}]
  /\ timers = {}
  /\ ctx = 1 /\ ctxLive = TRUE
  /\ alive = TRUE /\ connected = TRUE /\ authed = TRUE /\ manual = FALSE
  /\ onWire = {} /\ losses = 0
  /\ loop = At("read", "frame") /\ stop = "no"
  /\ lastSent = [r \in Reqs |-> 0] /\ disorder = {} /\ mistaken = {}
  /\ cleared = {} /\ givenUp = {} /\ missed = {}

-----------------------------------------------------------------------------
(* Send, SendStream: nothing is sent unless the channel runs and is        *)
(* connected.                                                              *)
Begin(s) ==
  /\ sender[s].pc = "free" /\ stop = "no" /\ connected
  /\ Used < MaxWork /\ (losses > 0 => Cardinality(Calling) < Crowd)
  /\ sender' = [sender EXCEPT ![s].pc = "enter"]
  /\ UNCHANGED <<queueVars, itemVars, worker, ackVars, ctxVars, linkVars, loop, stop, histVars>>

(* A full queue refuses the message.                                       *)
Enqueue(s, r) ==
  /\ sender[s].pc = "enter" /\ Used < MaxWork
  /\ IF Len(queues[r]) >= QueueCap
     THEN /\ sender' = [sender EXCEPT ![s] = Resting]
          /\ UNCHANGED <<queues, reqOf>>
     ELSE /\ reqOf' = Append(reqOf, r)
          /\ queues' = [queues EXCEPT ![r] = Append(@, Queued + 1)]
          /\ sender' = [sender EXCEPT ![s] = [pc |-> "check", item |-> Queued + 1]]
  /\ UNCHANGED <<processing, box, worker, ackVars, ctxVars, linkVars, loop, stop, histVars>>

(* Mutant: the worker, not the sender, is left to set the mark.            *)
CheckOnly(s) ==
  LET r == reqOf[sender[s].item] IN
  /\ sender[s].pc = "check"
  /\ sender' = [sender EXCEPT ![s].pc = IF r \in processing THEN "wait" ELSE "notify"]
  /\ UNCHANGED <<queueVars, itemVars, worker, ackVars, ctxVars, linkVars, loop, stop, histVars>>

(* The mark is tested and set under one lock, which is not the queues'     *)
(* lock: the worker that set it may have seen the queue empty already.     *)
Check(s) ==
  LET i == sender[s].item  r == reqOf[i] IN
  /\ sender[s].pc = "check"
  /\ sender' = [sender EXCEPT ![s].pc = IF r \in processing THEN "wait" ELSE "notify"]
  /\ processing' = processing \cup {r}
  /\ missed' = IF r \in processing /\ Serving(r) = {} /\ Notifying(r) = {}
               THEN missed \cup {i} ELSE missed
  /\ UNCHANGED <<queues, itemVars, worker, ackVars, ctxVars, linkVars, loop, stop, lastSent, disorder, mistaken, cleared, givenUp>>

(* m.replyNotifyCh is unbuffered: sender and worker meet.                  *)
Notify(s, w) ==
  /\ sender[s].pc = "notify" /\ worker[w].pc = "idle"
  /\ sender' = [sender EXCEPT ![s].pc = "wait"]
  /\ worker' = [worker EXCEPT ![w].pc = "next", ![w].req = reqOf[sender[s].item]]
  /\ UNCHANGED <<queueVars, itemVars, ackVars, ctxVars, linkVars, loop, stop, histVars>>

Return(s) ==
  /\ sender[s].pc = "wait"
  /\ \E x \in box[sender[s].item] :
       box' = [box EXCEPT ![sender[s].item] = @ \ {x}]
  /\ sender' = [sender EXCEPT ![s] = Resting]
  /\ UNCHANGED <<queueVars, reqOf, worker, ackVars, ctxVars, linkVars, loop, stop, histVars>>

-----------------------------------------------------------------------------
(* A worker whose context is cancelled stops when it is idle; one that is  *)
(* busy looks at the context of that time when it is done.                 *)
WorkerStops(w) ==
  /\ worker[w].pc = "idle" /\ (worker[w].ctx # ctx \/ ~ctxLive)
  /\ worker' = [worker EXCEPT ![w] = Off]
  /\ UNCHANGED <<queueVars, sender, itemVars, ackVars, ctxVars, linkVars, loop, stop, histVars>>

(* Mutant: the newest message is taken first.                              *)
TakeNewest(w) ==
  LET r == worker[w].req IN
  /\ worker[w].pc = "next"
  /\ worker' = [worker EXCEPT ![w].pc = IF queues[r] = <<>> THEN "clear" ELSE "send",
                              ![w].item = IF queues[r] = <<>> THEN 0 ELSE Last(queues[r])]
  /\ UNCHANGED <<queueVars, sender, itemVars, ackVars, ctxVars, linkVars, loop, stop, histVars>>

TakeNext(w) ==
  LET r == worker[w].req IN
  /\ worker[w].pc = "next"
  /\ worker' = [worker EXCEPT ![w].pc = IF queues[r] = <<>> THEN "clear" ELSE "send",
                              ![w].item = IF queues[r] = <<>> THEN 0 ELSE Head(queues[r])]
  /\ UNCHANGED <<queueVars, sender, itemVars, ackVars, ctxVars, linkVars, loop, stop, histVars>>

ClearMark(w) ==
  /\ worker[w].pc = "clear"
  /\ processing' = processing \ {worker[w].req}
  /\ worker' = [worker EXCEPT ![w] = Idle(ctx)]
  /\ UNCHANGED <<queues, sender, itemVars, ackVars, ctxVars, linkVars, loop, stop, histVars>>

(* A write on a connection that is broken, but not yet found so, may       *)
(* succeed.                                                                *)
SendFrame(w) ==
  LET i == worker[w].item  r == worker[w].req IN
  /\ worker[w].pc = "send"
  /\ \/ /\ connected
        /\ worker' = [worker EXCEPT ![w].pc = "register"]
        /\ IF alive THEN /\ onWire' = onWire \cup {<<w, i>>}
                         /\ lastSent' = [lastSent EXCEPT ![r] = i]
                         /\ disorder' = IF i > lastSent[r] THEN disorder ELSE disorder \cup {r}
                    ELSE UNCHANGED <<onWire, lastSent, disorder>>
     \/ /\ ~connected \/ ~alive
        /\ worker' = [worker EXCEPT ![w].pc = "failed"]
        /\ UNCHANGED <<onWire, lastSent, disorder>>
  /\ UNCHANGED <<queueVars, sender, itemVars, ackVars, ctxVars, alive, connected,
                 authed, manual, losses, loop, stop, mistaken, cleared, givenUp, missed>>

(* Mutant: the acknowledgement is not waited for.                          *)
RegisterOnly(w) ==
  /\ worker[w].pc = "register"
  /\ worker' = [worker EXCEPT ![w].pc = "await"]
  /\ pending' = [pending EXCEPT ![worker[w].req] = <<w, worker[w].item>>]
  /\ ackBox' = [ackBox EXCEPT ![w] = {"ok"}]
  /\ UNCHANGED <<queueVars, sender, itemVars, timers, ctxVars, linkVars, loop, stop, histVars>>

(* The acknowledgement is registered after the frame was sent.             *)
Register(w) ==
  /\ worker[w].pc = "register"
  /\ worker' = [worker EXCEPT ![w].pc = "await"]
  /\ pending' = [pending EXCEPT ![worker[w].req] = <<w, worker[w].item>>]
  /\ ackBox' = [ackBox EXCEPT ![w] = {}]
  /\ UNCHANGED <<queueVars, sender, itemVars, timers, ctxVars, linkVars, loop, stop, histVars>>

(* The answer is received and whatever heads the queue is removed: after a *)
(* clear, another message.                                                 *)
TakeAnswer(w) ==
  LET r == worker[w].req
      lost == IF queues[r] = <<>> THEN {}
              ELSE {Head(queues[r])} \ {worker[v].item : v \in Serving(r)}
  IN
  /\ \E x \in IF worker[w].pc = "await" THEN ackBox[w]
               ELSE IF worker[w].pc = "failed" THEN {"err"} ELSE {} :
       worker' = [worker EXCEPT ![w].pc = "return", ![w].out = x]
  /\ queues' = [queues EXCEPT ![r] = IF @ = <<>> THEN @ ELSE Tail(@)]
  /\ missed' = missed \cup lost
  /\ UNCHANGED <<processing, sender, itemVars, ackVars, ctxVars, linkVars, loop, stop, lastSent, disorder, mistaken, cleared, givenUp>>

(* The channels of a message hold one answer each; the worker waits for    *)
(* room.                                                                   *)
Deliver(w) ==
  LET i == worker[w].item IN
  /\ worker[w].pc = "return" /\ worker[w].out \notin box[i]
  /\ box' = [box EXCEPT ![i] = @ \cup {worker[w].out}]
  /\ worker' = [worker EXCEPT ![w].pc = "next", ![w].item = 0, ![w].out = "none"]
  /\ UNCHANGED <<queueVars, sender, reqOf, ackVars, ctxVars, linkVars, loop, stop, histVars>>

-----------------------------------------------------------------------------
(* The timer of an acknowledgement that neither was answered nor stopped.  *)
TimerFires(w) ==
  LET a == <<w, worker[w].item>> IN
  /\ worker[w].pc = "await" /\ ackBox[w] = {} /\ a \notin timers
  /\ timers' = timers \cup {a}
  /\ UNCHANGED <<queueVars, sender, itemVars, worker, pending, ackBox, ctxVars, linkVars, loop, stop, histVars>>

(* Mutant: the acknowledgement is forgotten and its worker not told.       *)
TimeoutSilent(a) ==
  /\ a \in timers /\ timers' = timers \ {a}
  /\ pending' = [pending EXCEPT ![reqOf[a[2]]] = Nobody]
  /\ givenUp' = givenUp \cup {reqOf[a[2]]}
  /\ UNCHANGED <<queueVars, sender, itemVars, worker, ackBox, ctxVars, linkVars, loop, stop, lastSent, disorder, mistaken, cleared, missed>>

(* onReplyAckTimeout deletes what is registered for the request, which may *)
(* be a later acknowledgement.                                             *)
OnReplyAckTimeout(a) ==
  /\ a \in timers /\ timers' = timers \ {a}
  /\ pending' = [pending EXCEPT ![reqOf[a[2]]] = Nobody]
  /\ ackBox' = IF worker[a[1]].item = a[2] THEN [ackBox EXCEPT ![a[1]] = @ \cup {"err"}]
                                           ELSE ackBox
  /\ givenUp' = givenUp \cup {reqOf[a[2]]}
  /\ UNCHANGED <<queueVars, sender, itemVars, worker, ctxVars, linkVars, loop, stop, lastSent, disorder, mistaken, cleared, missed>>

(* handleFrame: the acknowledgement f, good or with an error code, goes to *)
(* whatever is registered for its request; it is dropped if nothing is.    *)
HandleReplyAck(f, good) ==
  LET r == reqOf[f[2]]  a == pending[r] IN
  /\ loop.phase = "read" /\ alive /\ f \in onWire
  /\ onWire' = onWire \ {f}
  /\ pending' = [pending EXCEPT ![r] = Nobody]
  /\ IF a = Nobody THEN UNCHANGED <<ackBox, mistaken>>
     ELSE /\ ackBox' = [ackBox EXCEPT ![a[1]] = @ \cup {IF good THEN "ok" ELSE "err"}]
          /\ mistaken' = IF good /\ a[2] # f[2] THEN mistaken \cup {a[2]} ELSE mistaken
  /\ UNCHANGED <<queueVars, sender, itemVars, worker, timers, ctxVars, alive, connected,
                 authed, manual, losses, loop, stop, lastSent, disorder, cleared, givenUp, missed>>

-----------------------------------------------------------------------------
(* clearPendingMessages, one lock after the other.                         *)
ClearAcks ==
  /\ ackBox' = [w \in Workers |-> IF \E a \in Awaited : a[1] = w
                                  THEN ackBox[w] \cup {"err"} ELSE ackBox[w]]
  /\ pending' = [r \in Reqs |-> Nobody]
  /\ givenUp' = givenUp \cup {r \in Reqs : pending[r] # Nobody}
  /\ UNCHANGED <<queueVars, sender, itemVars, worker, timers, ctxVars, linkVars, lastSent, disorder, mistaken, cleared, missed>>

Waiting == UNION {ToSet(queues[r]) : r \in Reqs}

(* Mutant: the queues keep the messages that were answered with an error.  *)
ClearQueuesKept ==
  /\ \A i \in Waiting : "err" \notin box[i]
  /\ box' = [i \in Items |-> IF i \in Waiting THEN box[i] \cup {"err"} ELSE box[i]]
  /\ cleared' = cleared \cup {r \in Reqs : queues[r] # <<>>}
  /\ UNCHANGED <<queueVars, sender, reqOf, worker, ackVars, ctxVars, linkVars, lastSent, disorder, mistaken, givenUp, missed>>

(* Each message's err channel must have room: the lock is held.            *)
ClearQueues ==
  /\ \A i \in Waiting : "err" \notin box[i]
  /\ box' = [i \in Items |-> IF i \in Waiting THEN box[i] \cup {"err"} ELSE box[i]]
  /\ queues' = [r \in Reqs |-> <<>>]
  /\ cleared' = cleared \cup {r \in Reqs : queues[r] # <<>>}
  /\ UNCHANGED <<processing, sender, reqOf, worker, ackVars, ctxVars, linkVars, lastSent, disorder, mistaken, givenUp, missed>>

ClearFlags ==
  /\ processing' = {}
  /\ cleared' = cleared \cup processing
  /\ UNCHANGED <<queues, sender, itemVars, worker, ackVars, ctxVars, linkVars, lastSent, disorder, mistaken, givenUp, missed>>

(* The connection breaks, and everything on it is lost.                    *)
Break ==
  /\ alive /\ CanLose /\ losses' = losses + 1
  /\ alive' = FALSE /\ onWire' = {}
  /\ UNCHANGED <<queueVars, sender, itemVars, worker, ackVars, ctxVars, connected, authed, manual, loop, stop, histVars>>

(* Too many pings went unanswered, if only because the receive loop was    *)
(* busy with a message: the connection is closed.                          *)
HeartbeatDead ==
  /\ loop.phase = "read" /\ authed /\ connected /\ stop = "no"
  /\ alive => CanLose
  /\ losses' = IF alive THEN losses + 1 ELSE losses
  /\ alive' = FALSE /\ onWire' = {} /\ connected' = FALSE
  /\ UNCHANGED <<queueVars, sender, itemVars, worker, ackVars, ctxVars, authed, manual, loop, stop, histVars>>

(* ReadMessage fails.                                                      *)
ReadFails ==
  /\ loop.phase = "read" /\ ~alive
  /\ loop' = At("lost", "acks")
  /\ UNCHANGED <<queueVars, sender, itemVars, worker, ackVars, ctxVars, linkVars, stop, histVars>>

(* The top of the loop finds m.stopChan closed, or no connection: nothing  *)
(* connects again.                                                         *)
LoopReturns ==
  /\ loop.phase = "read" /\ (stop = "done" \/ ~connected)
  /\ loop' = At("ending", "cancel")
  /\ UNCHANGED <<queueVars, sender, itemVars, worker, ackVars, ctxVars, linkVars, stop, histVars>>

(* cleanup: the workers' context is cancelled and the connection dropped.  *)
Cleanup ==
  /\ loop.step = "cancel"
  /\ ctxLive' = FALSE
  /\ alive' = FALSE /\ connected' = FALSE /\ authed' = FALSE /\ onWire' = {}
  /\ loop' = [loop EXCEPT !.step = "acks"]
  /\ UNCHANGED <<queueVars, sender, itemVars, worker, ackVars, ctx, manual, losses, stop, histVars>>

AfterFlags(phase) ==
  CASE phase = "lost"    -> At("cleanup", "cancel")
    [] phase = "cleanup" -> At("sleep", "-")
    [] phase = "ending"  -> At("ended", "-")
    [] phase = "connect" -> At("connect", "dial")

LoopClears ==
  /\ \/ loop.step = "acks" /\ ClearAcks /\ loop' = [loop EXCEPT !.step = "queues"]
     \/ loop.step = "queues" /\ ClearQueues /\ loop' = [loop EXCEPT !.step = "flags"]
     \/ loop.step = "flags" /\ ClearFlags /\ loop' = AfterFlags(loop.phase)
  /\ UNCHANGED stop

(* Nothing is left to do at once.                                          *)
Quiet ==
  /\ \A w \in Workers : worker[w].pc \in {"off", "await", "return"}
  /\ \A s \in Senders : sender[s].pc \notin {"enter", "check"}
  /\ timers = {} /\ stop \in {"no", "done"}

(* scheduleReconnect has slept.                                            *)
Wake ==
  /\ loop.phase = "sleep" /\ ~manual /\ Quiet
  /\ loop' = At("connect", "begin")
  /\ UNCHANGED <<queueVars, sender, itemVars, worker, ackVars, ctxVars, linkVars, stop, histVars>>

(* Connect: it takes back a Disconnect that came since.                    *)
Connect ==
  /\ loop.step = "begin" /\ loop' = [loop EXCEPT !.step = "cancel"]
  /\ manual' = FALSE
  /\ UNCHANGED <<queueVars, sender, itemVars, worker, ackVars, ctxVars, alive,
                 connected, authed, onWire, losses, stop, histVars>>

(* A connection that cannot be made is tried again later; one that breaks  *)
(* before the authentication frame is sent has no receive loop that would  *)
(* see it.                                                                 *)
Dial ==
  /\ loop.step = "dial"
  /\ \/ /\ loop' = At("sleep", "-") /\ UNCHANGED <<alive, connected>>
     \/ /\ loop' = At("auth", "-") /\ alive' = TRUE /\ connected' = TRUE
  /\ UNCHANGED <<queueVars, sender, itemVars, worker, ackVars, ctxVars, authed,
                 manual, onWire, losses, stop, histVars>>

SendAuth ==
  /\ loop.phase = "auth"
  /\ \/ connected /\ loop' = At("read", "frame")
     \/ ~(connected /\ alive) /\ loop' = At("ended", "-")
  /\ UNCHANGED <<queueVars, sender, itemVars, worker, ackVars, ctxVars, linkVars, stop, histVars>>

(* The authentication is answered: Count workers start under a new         *)
(* context.                                                                *)
Authenticated ==
  /\ loop.phase = "read" /\ alive /\ ~authed
  /\ authed' = TRUE /\ ctx' = ctx + 1 /\ ctxLive' = TRUE
  /\ \E S \in SUBSET Stopped :
       /\ Cardinality(S) = IF Cardinality(Stopped) < Count THEN Cardinality(Stopped)
                                                           ELSE Count
       /\ worker' = [w \in Workers |-> IF w \in S THEN Idle(ctx + 1) ELSE worker[w]]
  /\ UNCHANGED <<queueVars, sender, itemVars, ackVars, alive, connected, manual,
                 onWire, losses, loop, stop, histVars>>

-----------------------------------------------------------------------------
(* Disconnect: the messages are cleared before the connection is closed.   *)
Disconnect ==
  /\ CanLose /\ losses' = losses + 1
  /\ stop = "no" /\ stop' = "acks" /\ manual' = TRUE
  /\ UNCHANGED <<queueVars, sender, itemVars, worker, ackVars, ctxVars, alive,
                 connected, authed, onWire, loop, histVars>>

StopClears ==
  /\ \/ stop = "acks" /\ ClearAcks /\ stop' = "queues"
     \/ stop = "queues" /\ ClearQueues /\ stop' = "flags"
     \/ stop = "flags" /\ ClearFlags /\ stop' = "close"
  /\ UNCHANGED loop

Close ==
  /\ stop = "close" /\ stop' = "done"
  /\ alive' = FALSE /\ connected' = FALSE /\ authed' = FALSE /\ onWire' = {}
  /\ UNCHANGED <<queueVars, sender, itemVars, worker, ackVars, ctxVars, manual, losses, loop, histVars>>

-----------------------------------------------------------------------------
Work(w) ==
  \/ WorkerStops(w) \/ TakeNext(w) \/ ClearMark(w) \/ SendFrame(w)
  \/ Register(w) \/ TakeAnswer(w) \/ Deliver(w) \/ TimerFires(w)

Next ==
  \/ \E s \in Senders : Begin(s)
  \/ \E s \in Senders, r \in Reqs : Enqueue(s, r)
  \/ \E s \in Senders : Check(s)
  \/ \E s \in Senders, w \in Workers : Notify(s, w)
  \/ \E s \in Senders : Return(s)
  \/ \E w \in Workers : WorkerStops(w)
  \/ \E w \in Workers : TakeNext(w)
  \/ \E w \in Workers : ClearMark(w)
  \/ \E w \in Workers : SendFrame(w)
  \/ \E w \in Workers : Register(w)
  \/ \E w \in Workers : TakeAnswer(w)
  \/ \E w \in Workers : Deliver(w)
  \/ \E w \in Workers : TimerFires(w)
  \/ \E a \in timers : OnReplyAckTimeout(a)
  \/ \E f \in onWire : \E good \in BOOLEAN : HandleReplyAck(f, good)
  \/ Break \/ HeartbeatDead \/ ReadFails \/ LoopReturns \/ Cleanup \/ LoopClears
  \/ Wake \/ Connect \/ Dial \/ SendAuth \/ Authenticated
  \/ Disconnect \/ StopClears \/ Close

Spec == Init /\ [][Next]_vars

(* Goroutines that can go on do, timers fire, a broken connection is       *)
(* noticed. The server need not answer, nor a connection come about.       *)
Fairness ==
  /\ \A s \in Senders : WF_vars(Check(s)) /\ WF_vars(Return(s))
  /\ \A s \in Senders : SF_vars(\E w \in Workers : Notify(s, w))
  /\ \A w \in Workers : WF_vars(Work(w))
  /\ WF_vars(\E a \in timers : OnReplyAckTimeout(a))
  /\ WF_vars(ReadFails \/ LoopReturns \/ Cleanup \/ LoopClears)
  /\ WF_vars(StopClears \/ Close)

FairSpec == Spec /\ Fairness

-----------------------------------------------------------------------------
Outs == {"ok", "err"}

(* The state is of its type; no queue holds more than QueueCap messages;   *)
(* an acknowledgement is registered only while its worker waits for it.    *)
TypeOK ==
  /\ reqOf \in Seq(Reqs) /\ Used <= MaxWork
  /\ \A r \in Reqs : queues[r] \in Seq(1..Queued) /\ Len(queues[r]) <= QueueCap
  /\ processing \subseteq Reqs
  /\ sender \in [Senders -> [pc : {"free", "enter", "check", "notify", "wait"}, item : 0..Queued]]
  /\ box \in [Items -> SUBSET Outs]
  /\ worker \in [Workers -> [pc : {"off", "idle", "next", "clear", "send", "register",
                                   "await", "failed", "return"},
                            req : Reqs \cup {Nobody}, item : 0..Queued, ctx : 0..ctx,
                            out : Outs \cup {"none"}]]
  /\ ackBox \in [Workers -> SUBSET Outs]
  /\ \A r \in Reqs : pending[r] # Nobody =>
       /\ pending[r] \in Workers \X Items
       /\ worker[pending[r][1]].pc = "await" /\ worker[pending[r][1]].item = pending[r][2]
  /\ timers \cup onWire \subseteq Workers \X (1..Queued)
  /\ {ctxLive, alive, connected, authed, manual} \subseteq BOOLEAN
  /\ losses \in 0..MaxLosses

(* The messages of one request are sent one after the other, in the order  *)
(* in which they were queued and each once: one worker has the request, or *)
(* one sender is about to wake one, unless the connection was lost or      *)
(* closed under them.                                                      *)
OneByOne ==
  /\ disorder \subseteq cleared
  /\ \A r \in Reqs \ cleared :
       Cardinality({w \in Workers : worker[w].req = r}) + Cardinality(Notifying(r)) <= 1

(* A message reported as sent was acknowledged itself: another's late      *)
(* acknowledgement is taken for it only after one was given up for its     *)
(* request, at a timeout or a clear.                                       *)
AckMatches == \A i \in mistaken : reqOf[i] \in givenUp \cup cleared

(* While the workers run, SendReply returns, unless its message came when  *)
(* the worker had seen the queue empty but not yet taken the mark away, or *)
(* was removed from the queue in place of a cleared one.  And              *)
(* clearPendingMessages, which holds the queues' lock, is not left waiting *)
(* for room in an err channel.                                             *)
RepliesReturn ==
  []<>(/\ \A s \in Senders : sender[s].item \in missed \cup {0} \/ ~ctxLive
       /\ "queues" \notin {loop.step, stop})
=============================================================================
